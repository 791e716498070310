--------------------------- MODULE SaveUsObjects ---------------------------
(***************************************************************************)
(* The objects of "2.0 Save Us": the fixed pool every process keeps its    *)
(* ships, projectiles, asteroids and particles in, the maps that point     *)
(* into it, and the packets that replicate the server's asteroids to the   *)
(* clients.  Source: game/state_ingame.cpp and the handlers of             *)
(* NetworkManager (networking.cpp).                                        *)
(*                                                                         *)
(* Players are their ids: 0 is the server, the others are clients that     *)
(* have just played their SYN_ACK.  As in SaveUsSession, a datagram in net *)
(* may be received never, once or many times, in any order.                *)
(*                                                                         *)
(* Positions are left out: any projectile may meet any asteroid.  The size *)
(* of an asteroid is the number of times it can be halved before it is     *)
(* smaller than AST_SIZE_MIN.  A hit may or may not exhaust its life.      *)
(* The steps of a frame are separate actions, in any order.  Scores that   *)
(* travel, and GAME_OVER, are in SaveUsSession: here mScores is the        *)
(* server's own count.                                                     *)
(***************************************************************************)
EXTENDS Integers, FiniteSets, FiniteSetsExt

CONSTANTS
  Player,                 \* the ids that play, 0 among them
  GAME_OBJ_INST_NUM_MAX,  \* slots of the pool
  AST_NUM_MIN,            \* asteroids the server starts with
  AST_NUM_MAX,            \* most asteroids the server asks for
  AST_SHIP_RATIO,         \* points for an extra ship
  LevelRatio,             \* sAstNum is doubled at this many points times itself
  SHIP_INITIAL_NUM,       \* hits a ship survives
  points_to_win,
  SizeMax,                \* halvings of the largest asteroid
  Colours,                \* bound: the types of particles that occur
  Particles,              \* bound: particles of one spark, on each player's screen
  MaxParticle,            \* bound on the particles of thrust in one pool
  MaxShot,                \* bound on the projectiles in one pool
  MaxAsteroid,            \* bound on asteroids_id
  MaxShown,               \* bound on the asteroids in an update
  Limits                  \* bounds a behaviour starts with, see LimitRecord

ASSUME ObjectsAssumption ==
  /\ Player \subseteq Nat /\ 0 \in Player
  /\ {GAME_OBJ_INST_NUM_MAX, AST_NUM_MIN, AST_SHIP_RATIO, LevelRatio} \subseteq Nat \ {0}
  /\ {AST_NUM_MAX, SHIP_INITIAL_NUM, points_to_win, SizeMax} \subseteq Nat
  /\ {MaxParticle, MaxShot, MaxAsteroid, MaxShown} \subseteq Nat
  /\ Particles \in [Player -> Nat]
  /\ AST_NUM_MIN < GAME_OBJ_INST_NUM_MAX /\ AST_NUM_MIN <= MaxAsteroid

\* The types of objects, numbered as in state_ingame.h
TYPE_SHIP        == 0
TYPE_BULLET      == 1
TYPE_BOMB        == 2
TYPE_MISSILE     == 3
TYPE_ASTEROID    == 4
TYPE_PTCL_WHITE  == 6
TYPE_PTCL_YELLOW == 7
TYPE_PTCL_RED    == 8

Weapons == {TYPE_BULLET, TYPE_BOMB, TYPE_MISSILE}

\* Who ever fires, with what; whose ship is ever hit; how many ships may be in
\* one pool and how many different asteroid updates may be sent
LimitRecord == [Shooter : SUBSET Player, Weapons : SUBSET Weapons,
                Mortal : SUBSET Player, MaxShip : Nat, MaxUpdate : Nat]

ASSUME BoundsAssumption ==
  /\ Colours \subseteq TYPE_PTCL_WHITE .. TYPE_PTCL_RED /\ Colours # {}
  /\ Limits \subseteq LimitRecord

Server  == 0
Clients == Player \ {Server}
Slots   == 1 .. GAME_OBJ_INST_NUM_MAX
AstIds  == 0 .. MaxAsteroid - 1
Sizes   == 0 .. SizeMax             \* 0 is below AST_SIZE_MIN
Null    == 0                        \* a null GameObjInst*
Absent  == -1                       \* the id has no entry in mShips
NoSize  == -1

Free   == [type |-> -1, m_id |-> 0, scale |-> 0]   \* flag == 0
Object == [type : {TYPE_SHIP, TYPE_ASTEROID} \cup Weapons \cup Colours,
           m_id : Player \cup AstIds, scale : Sizes]

VARIABLES
  mGame,   \* the Game singleton of each player
  on,      \* the players whose program runs and is connected
  kills,   \* history: asteroids destroyed on the server
  cut,     \* history: the pool was full in the middle of a split
  net,     \* every datagram ever sent
  limits   \* the bounds of this behaviour

vars == <<mGame, on, kills, cut, net, limits>>

World ==
  [pool : [Slots -> Object \cup {Free}], mAsteroids : [AstIds -> Slots \cup {Null}],
   mShips : [Player -> Slots \cup {Null, Absent}], spShip : Slots \cup {Null},
   sAstCtr : Nat, sAstNum : Nat, asteroids_id : 0 .. MaxAsteroid,
   mScores : [Player -> Nat], sShipCtr : Int, game_ended : BOOLEAN,
   game_won : BOOLEAN]

\* The actions that are sent
Kinds == {"PLAYER_NEW", "PLAYER_DEATH", "PLAYER_DISCONECTS", "PLAYER_SHOT", "PLAYER_BOMB",
          "PLAYER_MISSILE", "ASTEROID_UPDATE", "ASTEROID_DESTROY", "GAME_WON"}

\* The sizes an asteroid packet carries
Tables == [AstIds -> Sizes \cup {NoSize}]
Packet == [dst : Player, type : Kinds, id : Player, asteroids : Tables]

TypeOK ==
  /\ mGame \in [Player -> World]
  /\ on \subseteq Player
  /\ kills \in Nat
  /\ cut \in BOOLEAN
  /\ limits \in Limits
  /\ net \subseteq Packet

-----------------------------------------------------------------------------
(* The pool.                                                               *)

Of(g, type)  == {s \in Slots : g.pool[s].type = type}
Unused(g)    == {s \in Slots : g.pool[s] = Free}
Asteroids(g) == Of(g, TYPE_ASTEROID)

\* gameObjInstCreate with forceCreate looks for a particle to replace.  The
\* types run from WHITE up to RED, so that none is both >= RED and <= WHITE.
Replaceable(g) ==
  {s \in Slots : TYPE_PTCL_RED <= g.pool[s].type /\ g.pool[s].type <= TYPE_PTCL_WHITE}

\* The slot gameObjInstCreate uses
NewSlot(g, forceCreate) ==
  IF Unused(g) # {} THEN Min(Unused(g))
  ELSE IF forceCreate /\ Replaceable(g) # {} THEN CHOOSE s \in Replaceable(g) : TRUE
  ELSE Null

gameObjInstCreate(g, type, m_id, scale, forceCreate) ==
  LET s == NewSlot(g, forceCreate)
  IN  IF s = Null THEN g
      ELSE [g EXCEPT !.pool[s] = [type |-> type, m_id |-> m_id, scale |-> scale],
                     !.sAstCtr = IF type = TYPE_ASTEROID THEN @ + 1 ELSE @]

\* Mutant: the asteroids stay in mAsteroids
DestroyUnlisted(g, S) ==
  [g EXCEPT !.pool = [s \in Slots |-> IF s \in S THEN Free ELSE @[s]],
            !.sAstCtr = @ - Cardinality(S \cap Asteroids(g))]

\* gameObjInstDestroy of the objects in the slots S, if there are any in them
gameObjInstDestroy(g, S) ==
  LET gone == {s \in S : g.pool[s].type = TYPE_ASTEROID}
      ids  == {g.pool[s].m_id : s \in gone}
  IN  [g EXCEPT !.pool = [s \in Slots |-> IF s \in S THEN Free ELSE @[s]],
                !.mAsteroids = [i \in AstIds |-> IF i \in ids THEN Null ELSE @[i]],
                !.sAstCtr = @ - Cardinality(gone)]

\* sparkCreate: gameObjInstCreate of a number of particles, which take the first
\* unused slots and are never forced into a full pool
sparkCreate(p, g, colour) ==
  LET free == Unused(g)
      used == {s \in free : Cardinality({r \in free : r < s}) < Particles[p]}
  IN  [g EXCEPT !.pool = [s \in Slots |-> IF s \in used
                                          THEN [type |-> colour, m_id |-> 0, scale |-> 0]
                                          ELSE @[s]]]

\* Mutant: the id is taken before it is known that there is a slot
astCreateEager(p, g, size) ==
  LET s == NewSlot(g, TRUE)
      h == gameObjInstCreate(g, TYPE_ASTEROID,
                             IF p = Server THEN g.asteroids_id ELSE 0, size, TRUE)
  IN  IF p # Server THEN h
      ELSE [h EXCEPT !.mAsteroids[g.asteroids_id] = s,
                     !.asteroids_id = @ + 1]

\* astCreate(0): only the server numbers and lists the new asteroid
astCreate(p, g, size) ==
  LET s == NewSlot(g, TRUE)
      h == gameObjInstCreate(g, TYPE_ASTEROID,
                             IF p = Server THEN g.asteroids_id ELSE 0, size, TRUE)
  IN  IF s = Null \/ p # Server THEN h
      ELSE [h EXCEPT !.mAsteroids[g.asteroids_id] = s,
                     !.asteroids_id = @ + 1]

\* A child of a split asteroid
Child(h, size) == astCreate(Server, h, size)
Children(h, size) == Child(Child(Child(h, size), size), size)

\* The third child finds no slot: astCreate returns before it shrinks pSrc
Cramped(g, colour) ==
  NewSlot(Child(Child(sparkCreate(Server, g, colour), 0), 0), TRUE) = Null

\* Mutant: the source keeps its size
SplitWhole(g, s, colour) ==
  Children(sparkCreate(Server, g, colour), g.pool[s].scale - 1)

\* Mutant: the source shrinks first, and its children are half of that
SplitTwice(g, s, colour) ==
  LET size == g.pool[s].scale - 1
  IN  Children([g EXCEPT !.pool[s].scale = size], size - 1)

\* astCreate(pSrc): particles, three smaller asteroids, and pSrc shrinks
Split(g, s, colour) ==
  LET size == g.pool[s].scale - 1
      h    == Children(sparkCreate(Server, g, colour), size)
  IN  IF Cramped(g, colour) THEN h
      ELSE [h EXCEPT !.pool[s].scale = size]

\* Game::Load and Game::Init; the clients have played their SYN_ACK
EmptyGame ==
  [pool |-> [s \in Slots |-> Free], mAsteroids |-> [i \in AstIds |-> Null],
   mShips |-> [p \in Player |-> Absent], spShip |-> Null, sAstCtr |-> 0,
   sAstNum |-> AST_NUM_MIN, asteroids_id |-> 0, mScores |-> [p \in Player |-> 0],
   sShipCtr |-> SHIP_INITIAL_NUM, game_ended |-> FALSE, game_won |-> FALSE]

\* A ship enters the game: NET_PLAYER_NEW, CreateShip
CreateShip(g, i) ==
  LET s == NewSlot(g, TRUE)
  IN  [gameObjInstCreate(g, TYPE_SHIP, i, 0, TRUE)
         EXCEPT !.mShips[i] = s, !.mScores[i] = 0]

OwnShip(g, p) == LET h == CreateShip(g, p) IN [h EXCEPT !.spShip = h.mShips[p]]

InitialGame(p) ==
  LET Games[n \in 0 .. AST_NUM_MIN] ==
        IF n = 0 THEN OwnShip(EmptyGame, Server)
        ELSE astCreate(Server, Games[n - 1], SizeMax)
  IN  IF p = Server THEN Games[AST_NUM_MIN]
      ELSE OwnShip(CreateShip(EmptyGame, Server), p)

-----------------------------------------------------------------------------
(* Packets.                                                                *)

NoAsteroids == [i \in AstIds |-> NoSize]

\* To everybody but the player the packet is about; a client sends to the server
Posted(p, type, id, asteroids) ==
  {[dst |-> d, type |-> type, id |-> id, asteroids |-> asteroids] :
     d \in IF p = Server THEN (on \cap Clients) \ {id} ELSE {Server}}

Post(p, type) == Posted(p, type, p, NoAsteroids)

\* AllAsteroidsPacketCreate
AllAsteroids(g) ==
  [i \in AstIds |-> IF g.mAsteroids[i] = Null THEN NoSize
                    ELSE g.pool[g.mAsteroids[i]].scale]

\* The packet that announces a projectile
ShotPacket(type) ==
  CASE type = TYPE_BULLET  -> "PLAYER_SHOT"
    [] type = TYPE_BOMB    -> "PLAYER_BOMB"
    [] type = TYPE_MISSILE -> "PLAYER_MISSILE"

\* An asteroid of NET_ASTEROID_UPDATE: an unknown one is created
UpdateAsteroid(p, g, i, size) ==
  LET known == g.mAsteroids[i] # Null
      s     == IF known THEN g.mAsteroids[i] ELSE NewSlot(g, TRUE)
      h     == IF known THEN g ELSE astCreate(p, g, SizeMax)
  IN  [h EXCEPT !.mAsteroids[i] = s,
                !.pool[s] = [h.pool[s] EXCEPT !.m_id = i, !.scale = size]]

UpdateAsteroids(p, g, asteroids) ==
  LET Games[n \in 0 .. MaxAsteroid] ==
        IF n = 0 THEN g
        ELSE IF asteroids[n - 1] = NoSize THEN Games[n - 1]
        ELSE UpdateAsteroid(p, Games[n - 1], n - 1, asteroids[n - 1])
  IN  Games[MaxAsteroid]

\* NET_ASTEROID_DESTROY of an asteroid: one that is not listed is ignored
DestroyAsteroid(p, g, i, colour) ==
  IF g.mAsteroids[i] = Null THEN g
  ELSE sparkCreate(p, gameObjInstDestroy(g, {g.mAsteroids[i]}), colour)

\* NET_PLAYER_DEATH
LoseShip(g, i) ==
  [gameObjInstDestroy(g, {g.mShips[i]} \cap Slots)
     EXCEPT !.mShips[i] = Absent]

\* RemovePlayer: without a ship it returns before it erases the score
RemovePlayer(g, i) ==
  IF g.mShips[i] = Absent THEN g
  ELSE [LoseShip(g, i) EXCEPT !.mScores[i] = 0]

\* NET_GAME_WON: every listed ship goes
ClearShips(g) ==
  [gameObjInstDestroy(g, {g.mShips[i] : i \in Player} \cap Slots)
     EXCEPT !.mShips = [i \in Player |-> Absent], !.spShip = Null, !.game_won = TRUE]

ProcessPacket(p, g, m, colour) ==
  CASE m.type = "PLAYER_NEW"        -> CreateShip(g, m.id)
    [] m.type = "PLAYER_DEATH"      -> LoseShip(g, m.id)
    [] m.type = "PLAYER_DISCONECTS" -> RemovePlayer(g, m.id)
    [] m.type = "ASTEROID_UPDATE"   -> UpdateAsteroids(p, g, m.asteroids)
    [] m.type = "ASTEROID_DESTROY"  ->
         DestroyAsteroid(p, g, CHOOSE i \in AstIds : m.asteroids[i] # NoSize, colour)
    [] m.type = "GAME_WON"          -> ClearShips(g)
    [] OTHER ->
         gameObjInstCreate(g, CHOOSE w \in Weapons : m.type = ShotPacket(w), m.id, 0, TRUE)

IsShot(m) == \E w \in Weapons : m.type = ShotPacket(w)

\* The handlers that follow a null pointer: a shot of a missing ship, an
\* asteroid or a ship that found no slot
FollowsNull(g, m) ==
  \/ IsShot(m) /\ g.mShips[m.id] \notin Slots
  \/ /\ m.type = "ASTEROID_UPDATE"
     /\ Cardinality({i \in AstIds : m.asteroids[i] # NoSize /\ g.mAsteroids[i] = Null})
          > Cardinality(Unused(g) \cup Replaceable(g))
  \/ m.type = "PLAYER_DISCONECTS" /\ g.mShips[m.id] = Null
  \/ m.type = "GAME_WON" /\ \E i \in Player : g.mShips[i] = Null

-----------------------------------------------------------------------------
(* Steps of a frame, Game::Update.                                         *)

Change(p, g) == mGame' = [mGame EXCEPT ![p] = g]

\* A program ends, by Game::Free or on a null pointer: its objects are gone
Stop(p) == on' = on \ {p} /\ Change(p, EmptyGame)

Shots(g) == Of(g, TYPE_BULLET) \cup Of(g, TYPE_BOMB) \cup Of(g, TYPE_MISSILE)
Sparks(g) == UNION {Of(g, colour) : colour \in Colours}

\* The player fires: one bomb at a time, and a ship is needed
Fire(p) ==
  LET g == mGame[p]
  IN  /\ p \in on \cap limits.Shooter
      /\ g.spShip # Null
      /\ Cardinality(Shots(g)) < MaxShot
      /\ \E type \in limits.Weapons :
           /\ type = TYPE_BOMB => Of(g, TYPE_BOMB) = {}
           /\ Change(p, gameObjInstCreate(g, type, p, 0, TRUE))
           /\ net' = net \cup Post(p, ShotPacket(type))
      /\ UNCHANGED <<on, kills, cut>>

\* NET_ASTEROID_UPDATE, in every frame of the server
SendAsteroids ==
  LET table == AllAsteroids(mGame[Server])
      sent  == {m.asteroids : m \in {k \in net : k.type = "ASTEROID_UPDATE"}}
  IN  /\ Server \in on
      /\ mGame[Server].sAstCtr <= MaxShown
      /\ table \in sent \/ Cardinality(sent) < limits.MaxUpdate
      /\ net' = net \cup Posted(Server, "ASTEROID_UPDATE", Server, table)
      /\ UNCHANGED <<mGame, on, kills, cut>>

\* The server keeps the number of asteroids up
SpawnAsteroid ==
  LET g == mGame[Server]
  IN  /\ Server \in on
      /\ g.sAstCtr < g.sAstNum
      /\ g.asteroids_id < MaxAsteroid
      /\ \E size \in 1 .. SizeMax : Change(Server, astCreate(Server, g, size))
      /\ UNCHANGED <<on, kills, cut, net>>

\* Thrust of a ship, the ring of a bomb, the exhaust of a missile; and the
\* sparks of NET_PLAYER_PRTCL_MOVE and of a ship that exploded elsewhere
EmitParticles(p) ==
  LET g == mGame[p]
  IN  /\ p \in on
      /\ Of(g, TYPE_SHIP) \cup Of(g, TYPE_BOMB) \cup Of(g, TYPE_MISSILE) # {}
      /\ Cardinality(Sparks(g)) < MaxParticle
      /\ \E colour \in Colours : Change(p, sparkCreate(p, g, colour))
      /\ UNCHANGED <<on, kills, cut, net>>

\* A bullet leaves the screen, a bomb or missile has lived long enough, a
\* particle has shrunk
Expire(p) ==
  LET g == mGame[p]
  IN  /\ p \in on
      /\ \E s \in Shots(g) \cup Sparks(g) :
           Change(p, gameObjInstDestroy(g, {s}))
      /\ UNCHANGED <<on, kills, cut, net>>

\* The point of player i: every AST_SHIP_RATIO points of anybody are a ship
\* for the server's player
Score(g, i) ==
  LET n == g.mScores[i] + 1
  IN  [g EXCEPT !.mScores[i] = n,
                !.sShipCtr = IF n % AST_SHIP_RATIO = 0 THEN @ + 1 ELSE @,
                !.sAstNum = IF n = @ * LevelRatio /\ @ < AST_NUM_MAX THEN 2 * @ ELSE @]

\* The small asteroid in slot a bursts: a bomb makes the sparks afterwards
Burst(g, s, a, colour) ==
  IF g.pool[s].type = TYPE_BOMB
  THEN sparkCreate(Server, gameObjInstDestroy(g, {a}), colour)
  ELSE gameObjInstDestroy(sparkCreate(Server, g, colour), {a})

\* After a hit a bullet or missile is gone, a bomb goes on
Spend(g, s) == IF g.pool[s].type = TYPE_BOMB THEN g ELSE gameObjInstDestroy(g, {s})

\* A projectile destroys a small asteroid on the server
HitSmall(s, a) ==
  LET g == mGame[Server]
  IN  /\ Server \in on
      /\ g.pool[a].scale = 0
      /\ \E colour \in Colours :
           Change(Server, Spend(Score(Burst(g, s, a, colour), g.pool[s].m_id), s))
      /\ kills' = kills + 1
      /\ net' = net \cup Posted(Server, "ASTEROID_DESTROY", Server,
                                [NoAsteroids EXCEPT ![g.pool[a].m_id] = 0])
      /\ UNCHANGED <<on, cut>>

\* Mutant: a client shrinks what it hits
HitShrinks(p, s, a) ==
  LET g == mGame[p]
  IN  /\ p \in on
      /\ g.pool[a].scale > 0
      /\ Change(p, gameObjInstDestroy(
                     [g EXCEPT !.pool[a].scale = @ - 1], {s}))
      /\ UNCHANGED <<on, kills, cut, net>>

\* A bullet hits a larger asteroid, or one on a client, and does not split it
HitOnly(p, s, a) ==
  LET g == mGame[p]
  IN  /\ p \in on
      /\ g.pool[s].type # TYPE_BOMB
      /\ p = Server => g.pool[s].type = TYPE_BULLET /\ g.pool[a].scale > 0
      /\ \E colour \in Colours :
           Change(p, gameObjInstDestroy(sparkCreate(p, g, colour), {s}))
      /\ UNCHANGED <<on, kills, cut, net>>

\* A projectile splits an asteroid on the server; a bomb makes no sparks itself
HitSplit(s, a) ==
  LET g == mGame[Server]
  IN  /\ Server \in on
      /\ g.pool[a].scale > 0
      /\ g.asteroids_id + 3 <= MaxAsteroid
      /\ \E colour \in Colours :
           LET h == IF g.pool[s].type = TYPE_BOMB THEN g ELSE sparkCreate(Server, g, colour)
           IN  /\ Change(Server, Spend(Split(h, a, colour), s))
               /\ cut' = (cut \/ Cramped(h, colour))
      /\ UNCHANGED <<on, kills, net>>

\* The player's ship runs into an asteroid, and is lost when none is left
HitShip(p) ==
  LET g == mGame[p]
  IN  /\ p \in on \cap limits.Mortal
      /\ \E s \in Of(g, TYPE_SHIP) : g.pool[s].m_id = p
      /\ Asteroids(g) # {}
      /\ \E colour \in Colours :
           LET h    == [sparkCreate(p, g, colour) EXCEPT !.sShipCtr = @ - 1]
               lost == h.sShipCtr < 0
           IN  /\ Change(p, IF lost THEN [LoseShip(h, p) EXCEPT !.spShip = Null] ELSE h)
               /\ net' = net \cup (IF lost THEN Post(p, "PLAYER_DEATH") ELSE {})
      /\ UNCHANGED <<on, kills, cut>>

Won(g) == \E i \in Player : g.mScores[i] >= points_to_win

\* The head of Game::Update on the server: no ship is left, or somebody won
EndGame ==
  LET g    == mGame[Server]
      over == \A i \in Player : g.mShips[i] = Absent
      h    == [g EXCEPT !.game_ended = over]
  IN  /\ Server \in on
      /\ ~g.game_ended /\ ~g.game_won
      /\ over \/ Won(g)
      /\ \A i \in Player : g.mShips[i] # Null
      /\ Change(Server, IF Won(g) THEN ClearShips(h) ELSE h)
      /\ net' = net \cup (IF Won(g) THEN Post(Server, "GAME_WON") ELSE {})
      /\ UNCHANGED <<on, kills, cut>>

\* A ship that found no slot: the server's frame looks for the ship closest to
\* an asteroid, a client moves it on NET_PLAYER_UPDATE
NullShip(p) ==
  LET g == mGame[p]
  IN  /\ p \in on
      /\ \E i \in Player : g.mShips[i] = Null
      /\ p = Server => Asteroids(g) # {} \/ Won(g)
      /\ Stop(p)
      /\ UNCHANGED <<kills, cut, net>>

-----------------------------------------------------------------------------
(* Datagrams.  The server hears connected clients only, and relays.        *)

\* A connected player's packet reaches process p
Arrives(p, m) ==
  /\ p \in on /\ m \in net /\ m.dst = p
  /\ p = Server => m.id \in on

Relayed(p, m) ==
  IF p = Server THEN Posted(Server, m.type, m.id, m.asteroids) ELSE {}

Receive(p, m, colour) ==
  /\ Arrives(p, m)
  /\ ~FollowsNull(mGame[p], m)
  /\ m.type = "PLAYER_NEW" => Cardinality(Of(mGame[p], TYPE_SHIP)) < limits.MaxShip
  /\ IsShot(m) => Cardinality(Shots(mGame[p])) < MaxShot
  /\ Change(p, ProcessPacket(p, mGame[p], m, colour))
  /\ net' = net \cup Relayed(p, m)
  /\ UNCHANGED <<on, kills, cut>>

ReceiveCrash(p, m) ==
  /\ Arrives(p, m)
  /\ FollowsNull(mGame[p], m)
  /\ Stop(p)
  /\ net' = net \cup Relayed(p, m)
  /\ UNCHANGED <<kills, cut>>

\* The server removes a client that left; without a slot its ship is null
PlayerLeaves(c) ==
  LET g == mGame[Server]
  IN  /\ Server \in on /\ c \in on \cap Clients
      /\ g.mShips[c] # Null
      /\ on' = on \ {c}
      /\ mGame' = [mGame EXCEPT ![c] = EmptyGame, ![Server] = RemovePlayer(g, c)]
      /\ net' = net \cup Posted(Server, "PLAYER_DISCONECTS", c, NoAsteroids)
      /\ UNCHANGED <<kills, cut>>

\* RemovePlayer on the server destroys the ship without a look at the pointer
LeaveCrash(c) ==
  /\ Server \in on /\ c \in on
  /\ mGame[Server].mShips[c] = Null
  /\ Stop(Server)
  /\ UNCHANGED <<kills, cut, net>>

Init ==
  /\ mGame = [p \in Player |-> InitialGame(p)]
  /\ on = Player
  /\ kills = 0
  /\ cut = FALSE
  /\ limits \in Limits
  \* the acknowledgements of the SYN_ACKs, which enter the players
  /\ net = {[dst |-> Server, type |-> "PLAYER_NEW", id |-> c,
             asteroids |-> NoAsteroids] : c \in Clients}

ServerStep ==
  \/ SendAsteroids
  \/ SpawnAsteroid
  \/ \E s \in Shots(mGame[Server]), a \in Asteroids(mGame[Server]) :
       HitSmall(s, a) \/ HitSplit(s, a)
  \/ EndGame
  \/ \E c \in Clients : PlayerLeaves(c) \/ LeaveCrash(c)

PlayerStep(p) ==
  \/ Fire(p)
  \/ EmitParticles(p)
  \/ Expire(p)
  \/ \E s \in Shots(mGame[p]), a \in Asteroids(mGame[p]) : HitOnly(p, s, a)
  \/ HitShip(p)
  \/ NullShip(p)

ReceiveStep(p) ==
  \E m \in net : ReceiveCrash(p, m) \/ \E colour \in Colours : Receive(p, m, colour)

Next ==
  /\ ServerStep \/ \E p \in Player : PlayerStep(p) \/ ReceiveStep(p)
  /\ UNCHANGED limits

Spec == Init /\ [][Next]_vars

-----------------------------------------------------------------------------
(* Properties.                                                             *)

(* The asteroid map and counter agree with the pool on every process: each *)
(* active asteroid is listed under its own id, nothing else is listed, and *)
(* sAstCtr counts them, although slots are freed and used again by other   *)
(* objects and although the client's asteroids come and go with packets    *)
(* that are late or repeated.                                              *)
AsteroidsListed ==
  \A p \in Player :
    LET g == mGame[p]
    IN  /\ g.sAstCtr = Cardinality(Asteroids(g))
        /\ \A s \in Asteroids(g) : g.mAsteroids[g.pool[s].m_id] = s
        /\ \A i \in AstIds : g.mAsteroids[i] # Null =>
             g.mAsteroids[i] \in Asteroids(g) /\ g.pool[g.mAsteroids[i]].m_id = i

(* No pointer to a ship outlives it: spShip and every entry of mShips is   *)
(* null or names an active ship of that player, whatever deaths, joins and *)
(* victories are played in whatever order.                                 *)
ShipsListed ==
  \A p \in Player :
    LET g == mGame[p]
        Ship(i, s) == g.pool[s].type = TYPE_SHIP /\ g.pool[s].m_id = i
    IN  /\ \A i \in Player : g.mShips[i] \in Slots => Ship(i, g.mShips[i])
        /\ g.spShip # Null => Ship(p, g.spShip)

(* The maps into the pool and the pointers stay right together: a slot     *)
(* that is freed by one of them may be used again by the other.            *)
PoolListed == AsteroidsListed /\ ShipsListed

(* An asteroid is destroyed once: every id the server gave out belongs to  *)
(* an asteroid that is alive or to exactly one that somebody destroyed,    *)
(* even when the pool has no room for the pieces of a split.               *)
AsteroidsAccounted ==
  Server \in on =>
    mGame[Server].asteroids_id = mGame[Server].sAstCtr + kills

\* How many asteroids of size 0 one of each size can be split into
Smallest[size \in Sizes] == IF size = 0 THEN 1 ELSE 4 * Smallest[size - 1]

Weight(o) == IF o.type = TYPE_ASTEROID THEN Smallest[o.scale] ELSE 0

\* ... and all the asteroids of a game
Pieces(g) ==
  LET Sum[n \in 0 .. GAME_OBJ_INST_NUM_MAX] ==
        IF n = 0 THEN 0 ELSE Sum[n - 1] + Weight(g.pool[n])
  IN  Sum[GAME_OBJ_INST_NUM_MAX]

(* The pool is large enough for what sAstNum of the largest asteroids can  *)
(* be split into (2048 is 32 times 4 ^ 3): splitting never makes more of   *)
(* them, unless the pool was full of other objects during a split.         *)
AsteroidBudget ==
  ~cut => Pieces(mGame[Server]) <= mGame[Server].sAstNum * Smallest[SizeMax]

(* A client never runs ahead of the server: an asteroid it shows is at     *)
(* least as large as the server's.                                         *)
ReplicaLags ==
  \A c \in Clients : \A i \in AstIds :
    /\ mGame[c].mAsteroids[i] # Null
    /\ mGame[Server].mAsteroids[i] # Null
    => mGame[c].pool[mGame[c].mAsteroids[i]].scale
         >= mGame[Server].pool[mGame[Server].mAsteroids[i]].scale

=============================================================================
