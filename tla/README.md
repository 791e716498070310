# Verification of NetworkingMerger

TLA+ models of the two networked games in this repository, the TLC
configurations that check them, and TLAPS proofs of the results that matter
most. Paths below are relative to `src/Networking Assignment 4/`.

1. [The system](#1-the-system)
2. [What is hard about it](#2-what-is-hard-about-it)
3. [Modules](#3-modules)
4. [Runs, bounds and fairness](#4-runs-bounds-and-fairness)
5. [Proofs](#5-proofs)
6. [Disagreements between the code and what it says](#6-disagreements-between-the-code-and-what-it-says)
7. [What is only checked, and what is not modelled](#7-what-is-only-checked-and-what-is-not-modelled)
8. [Plan](#8-plan)

## 1. The system

The repository holds two independent programs that grew out of one assignment.

### "2.0 Save Us"

A cooperative space shooter. One instance is the server and plays too (id 0);
others join it over UDP. Each process is single-threaded: a frame drains the
socket (`Update` of the network object), advances timers and then runs the game
(`Game::Update`).

| Component | State | Operations | Correct when |
|---|---|---|---|
| server, `2.0 Save Us/src/game/network/server` | `mClients` (id to `servers_client`: remote endpoint, `m_seq`, `sended_packets`, alive timer), `clients_count` | `Update`, `ConnectClient` (SYN, ACK, FIN), `ProcessPacket`, `SendMsg`, `RemoveClient`, `CheckDuplicateClient`, `ShutDown` | one session per address; ids are not reused; a removed player leaves no trace; a packet of an unknown client changes nothing |
| client, `network/client` | `m_id`, `m_seq`, `sended_packets`, whether it is alive | `Start`, `ConnectToServer`, `Update`, `ProcessPacket`, `SendMsg`, `ShutDown` | the connection loop ends; a client that has an id is known to the server; two clients never have one id |
| packets, `network/system/networking.cpp` (`BaseNetwork`) | the map `sended_packets`: sequence number to packet and timer | `SendMsg`, `UpdateSendedPackets`, acknowledgements | a packet is dropped from the map only after its peer has played it, and in the end it is dropped |
| replicated game, `NetworkManager` in `networking.cpp` and `state_ingame.cpp` | the `Game` singleton: `mShips`, `mScores`, `game_ended`, `game_won`, `won_id` | `ProcessPacket`, `BroadCastMsg`, `CreateShip`, `RemovePlayer`, `AllShipsPacketCreate`/`Process`, the broadcasting parts of `Game::Update` | every player reaches every screen; scores are earned; a winner has the points |
| game objects and asteroid replication, `state_ingame.cpp`, `networking.cpp` | the pool `sGameObjInstList`, `mAsteroids`, `mShips` and `spShip` that point into it, `sAstCtr`, `sAstNum`, `asteroids_id`, `sShipCtr` | `gameObjInstCreate`/`Destroy`, `astCreate`, `sparkCreate`, the collision loop of `Game::Update`, the handlers of asteroid, shot and ship packets | the maps and the counter agree with the pool; an asteroid is destroyed once; only the server decides hits |
| main loop, `main.cpp`, `game.cpp` | the state in progress, keys down in this and the last frame, the object pool | `create`, `update`, `destroy`; the passes of `Game::Update` | the passes leave every object where the next frame can handle it; no shot stays for ever |
| time, `TimeMgr/Time.cpp` and the timers that add `GetDt()` | `current_alive_time` of both sides, `mGame.timer` | `StartFrame`, `EndFrame`, `servers_client::Update`, the timers in `client::Update` and `Game::Update` | nobody is dropped who was heard; who is gone is forgotten; the end of the game is shown long enough |
| engine, `src/engine` | windows, meshes, fonts; `math.hpp` | drawing; `wrap`, `aabb_vs_aabb` | `wrap` keeps objects in its range; drawing is out of scope |

Interaction: `Game::Update` calls `NetMgr.BroadCastMsg`, which calls the virtual
`SendMsg` of the server (to every client but the one the packet is about) or of
the client (to the server). A datagram goes through `Update` to
`ConnectClient` or `ProcessPacket`, which acknowledges it, on the server relays
it to the other clients, and calls `NetworkManager::ProcessPacket`, which
changes the `Game` singleton. A connection starts with SYN, SYN_ACK (which
carries the ships) and ACK, after which the server broadcasts PLAYER_NEW; it ends
with a FIN or a timeout, after which the server broadcasts PLAYER_DISCONECTS.

### "Asteroids" and its "Server"

The older program: a relay server and clients with several threads.

| Component | State | Operations | Correct when |
|---|---|---|---|
| Server lobby and relay, `Server/Source/server.cpp` | Winsock and the socket, `clients` (a slot per player, with an address), the phase | `main`, `SendPlayersPosToAllClients` | a slot belongs to one client; the relay does not stop while some client sends; every exit releases what was taken |
| `TaskQueue`, `Server/Include/taskqueue.h(pp)` | `_buffer`, `_slotCount`, `_itemCount`, a mutex and condition variable for each count, `_stay` | `produce`, `consume`, `work`, `disconnect`, destructor | a bounded first-in first-out queue; no wake-up is lost; a termination reaches every worker |
| client threads, `Asteroids/Src/Client.cpp`, `Main.cpp`, `AsteroidsDataTransfer` | the atomics `av_connected`, `av_start`, `av_player_num`, `av_player_max`, one socket for all threads | `ConnectToServer`, `WaitForStart`, the main loop, `AsteroidsDataTransfer` | the number a client plays with is its slot; the game starts when the lobby is full |
| game objects, `GameState_Asteroids.cpp` | the pool `sGameObjInstList`, `player_list`, `bullet_list`, lives, score and what is printed of them | `gameObjInstCreate`/`Destroy`, `initMultiPlayer`, `spawnAsteroid`, `spawnLives`, the passes of Update, Draw | the own ship survives what two threads do to one pool; points cost bullets; what is shown is true |
| collision geometry, `Collision.cpp` | none | `CollisionIntersection_RectRect` | it reports what meets within the frame, and nothing else |
| state manager, `GameStateMgr.cpp` | a table of functions for one state | `GameStateMgrInit`, `GameStateMgrUpdate` | the functions are there before a thread calls them |
| path smoothing | a list nothing fills | | out of scope, see section 7 |

Interaction: the client's hello is a broadcast datagram; the server answers it
with the number of players so far and takes a slot. When the last slot is taken it
sends the start signal to all and becomes a relay: it waits for one datagram per
slot and then sends the collected data to all. In the client one thread waits
for the answer, the main thread then waits for the start signal, and a third
thread sends and receives data, all on the same socket and coordinated only by
four atomics.

### Vendored

`Dep/AlphaEngine_V3.08` is a binary library with its headers; build output and
resources hold no program logic.

## 2. What is hard about it

`PROJECT.json` lists every hazard with its line. By kind:

- **Unreliable delivery**: everything runs over UDP with a home-made reliability
  layer. A lost packet or acknowledgement, a duplicate produced by
  retransmission, a packet that overtakes another one or arrives after its
  session has ended: each of these reaches a handler nobody tested it with.
- **Interleaving and atomicity**: three mutexes for one queue; three threads on
  one socket with two atomics for one fact; two threads in one pool and on one
  vector of pointers without any lock.
- **Time**: timers that add the length of the frame before, frames in which
  some are not advanced, one timer for two purposes, a clock that is cut to whole
  milliseconds next to one that is not.
- **Liveness**: a connection loop that blocks, a relay that waits for somebody
  who left, `notify_one` that wakes the wrong thread, shots that keep their slot.
- **Stale state**: score tables applied out of order; ids looked up after their
  client has gone; pointers into a pool whose slots are used again.
- **Resource bounds**: slots of the queue, players of the lobby, objects of the
  pool.
- **Numeric edges**: a random number that is exactly 1, a division by a relative
  velocity of 0, a wrap that adds the range only once.
- **Partial failure**: a `bind` that fails and is ignored, a thread that closes
  the socket of the others, a split that finds the pool full half way.

## 3. Modules

```
Save Us                                       Asteroids
  SaveUsSession   <- MCSaveUsSession            TaskQueue --implements--> BoundedBuffer
        ^                                             ^
  SaveUsSession_proofs                          TaskQueue_proofs
  SaveUsLink --implements--> AtLeastOnce twice  AsteroidsLobby <- AsteroidsLobby_proofs
        ^                                       AsteroidsGame      \
  SaveUsLink_proofs                             AsteroidsCollision  \
  SaveUsObjects   <- MCSaveUsObjects            AsteroidsMotion     / <- MCAsteroidsGame
        ^                                       AsteroidsSpawn     /        ^
  SaveUsObjects_proofs                                         AsteroidsGame_proofs
  SaveUsFrame     <- SaveUsFrame_proofs
  SaveUsClock     <- SaveUsClock_proofs
```

An arrow is EXTENDS, from the module that is extended.

The Save Us modules look at one program from five sides: who is connected and what
packets do to the game (`SaveUsSession`), whether packets arrive (`SaveUsLink`), what
the packets and steps do to objects (`SaveUsObjects`), what one frame does in its
order (`SaveUsFrame`), and what the durations of frames do to timers
(`SaveUsClock`). Each abstracts the other four to choices that include what they do.

Some modules define, next to an operation, a variant of it named after a
plausible mistake (`RemovePlayerScore`, `AcquireSlotOffByOne`, ...). They are not
part of any specification: putting one in the place of the operation must make
the property listed for it in `PROJECT.json` fail, which shows that the property
depends on that line of the code.

### SaveUsSession

The whole session: the server, any number of clients, all packets that change
something modelled, and the game on every process. It is the core of the
project.

- State keeps the names of the code. `mClients` is the domain of the map, and
  `endpoint`, `seq` and `sended` are the fields of each `servers_client`. The
  clients' fields are `pc` (in `ConnectToServer`, in the game, gone), `m_id`,
  `c_seq`, `c_sended`. `mGame[p]` is the `Game` singleton of process `p` as far as
  packets read or write it. `bullets` says whose projectiles the server simulates,
  which is who may score. `kills` is history.
- An action is one handler. A handler with an early return is several actions
  whose guards are the conditions of the code: `ServerReceiveSyn` and
  `ServerReceiveSynAgain`; `ServerReceiveConnectAck` and
  `ServerCrashOnConnectAck`. `ServerReceiveData` acknowledges, relays and plays in
  one step, as `server::ProcessPacket` does.
- `net` is the set of all datagrams ever sent and nothing is ever removed from
  it, so that a datagram may be received never, once or many times, in any order.
  This subsumes the retransmission timers.
- A null dereference is a state of its own (`srv` or `pc` is "crashed"), and the
  invariants are checked across it.
- `Port` is the port a host gave the client. `CheckDuplicateClient` compares the
  ports but compares the address with itself, so clients on different hosts with
  one port are the same client to it; the proofs hold for any `Port`.
- Abstracted: positions, particles, asteroids and the packets that only carry
  them; the durations of all timers (a timeout may happen at any time);
  immortality after a hit. NET_PLAYER_BOMB and NET_PLAYER_MISSILE are handled
  exactly as NET_PLAYER_SHOT as far as the model goes.

### SaveUsObjects

The pool of objects of the server and of each client, with the maps into it.
`SaveUsSession` decides who plays; here the clients have just joined, and what
matters is what their packets do to objects.

- `pool` has `GAME_OBJ_INST_NUM_MAX` slots; a slot is `Free` (flag 0) or an object
  with its type, its `m_id` and its size. `NewSlot` is the search of
  `gameObjInstCreate`: the first free slot, else, when the creation is forced, a
  particle to replace. `Replaceable` states the test of the code, which no type
  passes.
- The helpers carry the names of the code and work on one `Game`, so that one
  operator serves the server's frame and a packet handler on a client:
  `gameObjInstCreate`, `gameObjInstDestroy`, `astCreate`, `sparkCreate`,
  `CreateShip`, `LoseShip`, `RemovePlayer`. `Split` is `astCreate` with a source.
- A frame is cut into its steps (`Fire`, `SpawnAsteroid`, `EmitParticles`, `Expire`,
  `HitSmall`, `HitOnly`, `HitSplit`, `HitShip`, `EndGame`), which may come in any
  order: the order within the collision loop depends on positions anyhow.
- Positions are left out, so any projectile may meet any asteroid on any screen.
  The size of an asteroid is how often it can still be halved before it is
  smaller than `AST_SIZE_MIN`; whether a hit exhausts its life is a choice.
- A null pointer that the code follows stops the process: `NullShip`, `LeaveCrash`,
  `ReceiveCrash`.
- `kills` and `cut` are history: the asteroids destroyed on the server, and
  whether the pool was ever full in the middle of a split. `limits` never changes;
  it holds the bounds of one behaviour, so that one run explores several instances.

### SaveUsFrame

One program from `main` to its end, frame by frame, with the passes in the order
of the code: `Input`, `Spawned`, `Physics`, `WrapShips`, `Updated`, `Collided`, then the
timer of the immortality. The start is one action per call that may fail
(`CreateWindow`, `ReadConfig`, `network_create`, `StartNetwork`); `InitGame` and `Frame` do
the rest.

- A pass is an operator on pools: deterministic ones return a pool, the others
  the set of pools that rounding or an angle may lead to. A frame picks one.
- Places are numbers on one axis, velocities are per millisecond; the ship faces
  one way or the other. `Dampened` forgets half of a velocity where the code forgets
  a hundredth; what matters is that a damped speed is bounded. What exceeds the limit
  of an asteroid's speed shrinks with `pow(AST_VEL_DAMP, dt)` to less than a unit, so `Limited`
  leaves nothing of it or one.
- The pieces of a split start `posOffset` beside their source and are faster or slower than it by
  `velOffset`; one may be outside the range until the next frame wraps it.
- `ShortFrames` assumes that nothing crosses the whole range within one frame. The code
  does not enforce it: `wrap` adds the range once. With its constants (ships and asteroids of a few
  hundred units a second, a range of more than a thousand) it holds unless a frame takes seconds,
  as when the window is dragged.
- The push a bullet gives to an asteroid it does not destroy is left out. It is followed by
  the limit, in the next frame, like the pull towards the ship.
- A frame lasts 1 or more halves of a millisecond, of which `m_dt` drops the odd one
  and `TimeMgr` does not: in a frame of one half nothing moves, and the timers count.
- Of a particle only its slot is modelled. It matters because a slot that a collision has freed
  is taken at once: `sparkCreate` fills the lowest unused slots, for the exhaust of the ship and of
  missiles, the ring of a bomb (`Trail`) and explosions, in the place where the code calls it. How many
  particles it makes is a choice from `Exhaust` or `Explosion`, and each is destroyed in some later frame.
- Of the shared timer this module has the immortality; what its sharing with the end of the
  game means is the question of `SaveUsClock` (`EndIsTimely`).
- `whole` is history.

### SaveUsClock

The timers of a session whose players have joined. `since[p]` is the time since
`StartFrame` of process `p`, so that `GetDt(p)` in a frame is the length of the last one;
`Tick` lets time pass and no frame be longer than `MaxFrame`. `ServerFrame` is
`server::Update` (the loop over the socket, with its return at an unknown sender, and
`servers_client::Update` of each client), then `GameUpdate`, then what is sent;
`ClientFrame` is `client::Update`. A socket keeps one datagram of each sender and kind
and gives them in any order, or loses them. An error of `recvfrom` (`StopsAtError`, at
`server.cpp:96`) ends the loop with the rest of the socket unread, and the timers of the clients run
all the same; it happens once a client has closed its socket and what was sent to it comes
back. `quiet` and `shown` are history: how long
nothing of a client reached the server's socket, and how long the end of the game
has been shown.

### SaveUsLink and AtLeastOnce

One connection with its retransmission timers, over a network that loses
datagrams: what `SaveUsSession` leaves out. A packet's effect is abstracted to its
being played. `AtLeastOnce` is what the acknowledgements promise for one
direction: a packet is *confirmed* (leaves `sended_packets`) only after it was
played, and unless the connection breaks it is confirmed. `SaveUsLink` implements
it twice, once per direction (`ToClient` and `ToServer`, with
`confirmed <- (1 .. seq) \ sended`).

The retry timer of `ConnectToServer` adds `TimeMgr.GetDt()`, which is set at the
end of a frame and so is 0 while `ConnectToServer` blocks before the first one:
no action sends the SYN again while the client is connecting.

### TaskQueue and BoundedBuffer

One action per critical section: `AcquireSlot`, `Push`, `AnnounceItem` of
`produce`; `AcquireItem`, `Exit`, `Pop`, `ReleaseSlot` of `consume`; `Execute` of
`work`; `Disconnect`; `Destroy` and `Join` of the destructor. "blocked" is a thread
inside `condition_variable::wait`; `NotifyOne` picks any such thread, and
`SpuriousWakeup` wakes one for no reason. A thread that is notified is only awake ("wait"): it
may find its slot or item taken by one that never slept. `BoundedBuffer` is a
bounded first-in first-out queue; `TaskQueue` implements it with
`queue <- buffer` and `taken <- Taken`.

### AsteroidsLobby

The server's `main` from `WSAStartup` on ("start", "name", "socket", "bind", "lobby",
"relay", "down") and the three threads of each client. `Startup`, `FindName`,
`CreateSocket` and `BindSocket` succeed or fail as the code lets them; an error of
`recvfrom` ends the server in the lobby (`LobbyError`) and is one more turn that gets nothing in the
relay (`RelayError`). The actions of a client follow the reads and writes of the atomics: the connecting thread sets
`av_connected` in `HelloAnswered` and `av_player_num` only in
`StoreNumber`; the space bar sets `av_start` and then `av_connected`. All threads of a
client receive from one socket, so that any of them may get any datagram, and each of them
closes it for all when one of its calls fails: `ConnectFails` (`Client.cpp:43`-`98`),
`WaitForStartFails` (`:112`; the next frame calls `WaitForStart` again), `PrepareData`
(`GameState_Asteroids.cpp:1107`-`1125`) and `SendFails` (`:1164`). After one of the last two the data thread is gone
(`data` is "ended") while the client plays on alone. Calls fail for the clients in `Failing`,
and the data thread's always on a socket that is closed.
Numbers are sent as decimal text and the start signal looks like an answer: both
are `Text` datagrams. `std::stoi` throwing, or a vector of -1 elements, is a
crashed client. A datagram to a closed port makes the server's next `recvfrom`
fail on Windows (`WSAECONNRESET`): `Refuse`, external to the code. Relayed data has
no content in this module.

### AsteroidsGame

An Asteroids client's game state: the main loop of `Main.cpp` with Update and Draw, and
the thread of `AsteroidsDataTransfer`, on one pool without a lock.

- `inst[s]` is the type of slot `s`, or "free" while its flag is 0. `gameObjInstCreate` is three
  steps in either thread: `FindInstance`, `SetObject` (line 939) and `SetFlag` (line 940 and the return).
  Between any two of them the other thread may find, fill, collide or destroy the same slot. `found[t]`
  is what thread `t` has found and `pObject[t]` what is in the slot's `pObject` until thread `t` has set the flag.
  The stores are taken in the order of the source, and position and velocity are one with the flag: no
  action reads them.
- `mixed` is history: the slots of shots of the data thread that had an object of the main thread in
  them, or on its way into them, when that thread wrote `pObject`. Such a shot may score twice (the
  main loop destroys the slot, and then the data thread's flag makes it a bullet again), so
  `ScoreTrue` allows one more point for each, and for nothing else.
- `Steered` are the slots to which the data thread gives other velocities than a
  bullet's: those in `player_list`, which each table overwrites (lines 1197-1200), and the mixed ones.
- `UpdateBullets` writes `bullet_list`. When the other thread is inside an operation of
  the vector as well, this is a data race, and each write may be lost or end the
  program.
- The collision loop is one step per slot (`Collide`): whatever ships and bullets the
  asteroid of this slot hits, each of them counts, because the loop goes on after
  the asteroid is destroyed. What it takes off `bullet_list` is the asteroid.
- The received table is arbitrary: any row may say that its player shoots. `fired` counts
  the bullets asked for, `shown` is what was printed last; both are history.

### AsteroidsCollision, AsteroidsMotion, AsteroidsSpawn

Pure algorithms, each with the statement it is checked against.
`AsteroidsCollision` computes `CollisionIntersection_RectRect` on exact fractions, the
division by 0 as minus infinity; the reference `OverlapAt` moves the rectangles
through the frame in quarters of a unit of time. `AsteroidsMotion` is the ship's
velocity and `AEWrap` on one axis. `AsteroidsSpawn` is where asteroids and pickups
appear for every draw of the random number, 1 included; lengths are counted in units of
`1 / RAND_MAX`.

## 4. Runs, bounds and fairness

| Run | Shows | Bounds |
|---|---|---|
| `session` | ships on the server are connected players; every player reaches every screen, or its packet is still waiting for an acknowledgement, or its death was announced; one session per address, unique ids, a removed id stays removed; no table ever shows unearned points; a declared winner has earned the victory | 2 clients, 2 ids, 2 numbered packets per connection, 2 kills, 2 points to win; three kinds of session, see below |
| `link` | both directions implement `AtLeastOnce`, liveness included; a session the server has opened is joined by its client, whatever of the handshake is lost, or the connection breaks | 1 numbered packet each way |
| `objects` | `mAsteroids`, `sAstCtr`, `mShips` and `spShip` agree with the pool on every process; every asteroid id is alive or was destroyed once; splitting keeps to the budget `sAstNum` stands for; a client never has an asteroid in a smaller piece than the server | the server and 1 client, 8 slots, 4 asteroids of up to 2 sizes, 1 projectile and 1 particle per pool; the five instances `AllLimits` |
| `frame` | nothing escapes the range that wraps; a missile follows asteroids only, although slots are used again within the frame; every shot gives its slot back | 5 slots, a window of 2 places and its margins, 1 asteroid kept up, an initial `sShipCtr` of 1, frames of 1 or 2 halves of a millisecond, 1 particle for an exhaust and 0 or 1 for an explosion, three players who use different keys |
| `clock` | a client is dropped only after a silence of `alive_timer` less a frame, or with its data unread behind an error of `recvfrom`; who has left is forgotten; when the server has closed everybody leaves; the end of the game is shown no shorter than promised and longer by no more than half an immortality and two frames | 2 clients, frames of up to 1 tick, timers of 2 and 3 ticks |
| `task_queue` | a bounded queue; no wake-up is lost; every item is executed; some producer gets a slot as long as any asks; all workers terminate | 2 producers with 3 items each, 2 workers, 2 slots |
| `lobby` | numbers are slots and unique; the relay goes on while some client sends; every exit of the server has released Winsock; no thread closes the socket under the data thread's wait | 2 clients, 2 slots, 2 hellos, one player with a space bar and failing socket calls, one that quits |
| `asteroids` | the own ship is never overwritten; every point has cost a shot, but for shots in mixed slots; the printed score is the score; bullets that no table moves give their slots back; next to it the collision test against its reference, the ship's motion, and where asteroids and pickups appear | 4 slots, 3 players, 2 bullets, 1 life, 1 point to win, one passing of the asteroid timer; rectangles on a grid of 5 by 5 with 2 sizes and speeds from -2 to 2; frames of 2; 6 values of the random number |
| `ack_crash`, `ghost_ship`, `lost_syn`, `early_start` | the four disagreements of section 6 | smallest that reach them |

Why the bounds suffice to be of interest: every action is taken in some run; the
second client is the third party that sees the packets about the first one; two
ids let one client play while the other one joins, or one client leave and come back
under a new id; two producers and two workers
on two slots make every thread block and let `notify_one` choose; three items each let a producer
be overtaken more often than there are slots; two slots and two
hellos let one client take both slots or each take one. `MaxSeq`, `MaxId`, `MaxKill`,
`MaxHello`, `MaxShots` and `MaxSpawns` only stop counters from growing. `MaxItem` does more: producers run out
of items, so that with it even a single producer would get its slot in the end, which the code does not promise. No property
says that; `SomeoneProceeds` holds without the bound, because a slot that is taken is taken by
some producer, and `WakeupsSuffice` is proved for any `MaxItem`. `Shooter`,
`Mortal`, `Frames`, `Offline`, `Leaver` and `Failing` switch off the events a run has no
question about, and each is switched on in another run. Symmetry is used in runs that check only
invariants and action properties.

Deadlock checking is off in every run: programs end, clients leave, the bounds
stop the rest, and what must not stop is stated as a liveness property instead.

The instances of `objects` differ in who fires what, whose ship is hit, how many
ships packets may create and how many different asteroid updates are sent. A spark is
one particle on the server and none on the client, and `LevelRatio` (5 in the code)
and `AST_SHIP_RATIO` are small, so that the pool fills up, the level rises and ships are won
within a few kills. Eight slots hold two ships, four asteroids, a projectile and a
particle: a repeated PLAYER_NEW is enough to fill them in the middle of a split.

`session` has an action constraint, `OneKind`: everybody may come and go and nobody has
fired or died so far, or one client plays and fights while the server's player looks on,
or the server's player fires and sends asteroids while one client comes and goes. A
session that is more than one of these is larger than the run may be. The constraint
names no client, so that the symmetry of the clients stays sound.

In `frame` and `objects` the pool can be full: missiles, the asteroid, its pieces and the ship fill
the 5 slots, and what is created then is lost. Frames of one half of a millisecond are those in
which nothing moves. The window is smaller than a bullet's way in one frame. A `SpeedLimit` of 0
leaves an asteroid a speed of at most a unit, `velOffset` gives its pieces one of two, which is
as much as `ShortFrames` allows for this window. Shots live for 2 ms, which is four of the shortest
frames: a missile sees the slot of its target freed, and used again by a particle or by what is fired next.

`clock` lets the game end, and the server's ship be hit, only when the clients have
left (`EndsAlone`): the two questions share no state but the frames. Its timers keep
the order of the constants of the code (a frame is shorter than `alive_timer`, the
immortality ends a frame before `timer_to_disconect` could).

In `asteroids` four slots are too few for three ships, two asteroids, a pickup and two
bullets, so that the pool is full in the middle of a spawn and in either thread.
`AsteroidTime` is TRUE although the committed `ASTEROID_TIME` is 0: with the committed
value there are no asteroids to hit. The checks of the pure algorithms are
conjoined with `AtFirst`, so that TLC judges them in the initial state only: `CollisionIsExact`, and
`EverythingInPlace`, which is `ShipStaysInWindow` of `AsteroidsMotion` with the statements about
pickups and asteroids of `AsteroidsSpawn`.

In `lobby` two slots are the smallest lobby that is not full at once. `NumbersAgree`
excepts the number `MaxPlayers`: a client whose connecting thread reads the start
signal as its answer stores the number of players, and two clients may both do that.

**Fairness.** It is assumed only where a property needs it.

- `SaveUsLink!FairSpec`: frames go on, hence weak fairness of retransmission;
  a datagram that is sent for ever is received for ever, hence strong fairness
  of receiving.
- `TaskQueue!FairSpec`: the operating system runs every runnable thread, and
  the actions in the queue return. No spurious wakeup is assumed to occur.
- `AsteroidsLobby!FairSpec`: the data thread of a client runs (its `recvfrom` has a timeout), and sends or
  ends with an error; `RelayContinues` speaks of clients whose data thread still runs; and of the data it sends for ever some is received.
- `SaveUsClock!FairSpec`: time passes and every process that runs goes round its loop.
  The network promises nothing; a FIN may always be lost.
- `SaveUsFrame!FairSpec`: while the program plays, some frames last a millisecond. Without
  it no shot ages: the game's clock drops what is shorter. It is written over the
  history variable `whole`, which says so of the last frame.
- `AsteroidsGame!FairSpec`: the main loop runs (`MainLoops`; some action of the main thread is
  enabled as long as the program runs, and `progress` changes with each of them), and
  a bullet that flies leaves the window in some frame (strong fairness of `Leaves`), but only one
  that keeps its velocity: `Leaves` says nothing of `Steered` slots, and neither does `BulletsLeave`.
  The data thread needs no fairness: it may stop for ever, as when its `sendto` fails.
- `SaveUsSession`, `SaveUsObjects`: safety only, no fairness.

## 5. Proofs

All proofs are for every value of the constants that the modules' assumptions
allow: any set of clients, any ports, any bounds.

**SaveUsLink_proofs.** `TypeCorrect`; `ToClientIsSafe` and `ToServerIsSafe`: each
direction implements `AtLeastOnce!Safe`, which together is `LinkIsSafe`. A step that erases entry `n` is an
acknowledgement of `n` on the network, so the refinement needs to know that an
acknowledgement on the network means that the packet was played, and a packet on
the network was posted. `DownInv` and `UpInv` say this for the two directions,
together with the fact that an erased entry was played; they are
inductive given `TypeOK`. The handshake's entry 0 shares the map with the
packets, and lemma `Distinct` keeps the datagrams apart.

**SaveUsSession_proofs.**

- `SessionTypeCorrect`: `Spec => []TypeOK`. One lemma per helper, then one per
  group of actions; a broadcast is treated by the types of the packets it posts.
- `ShipsAreConnected`, `SessionsAreUnique`, `RemovedIdsStayRemoved`: the invariant
  `ServerShipsConnected`, the invariant `OneSessionPerAddress` and the action
  property `RemovedForGood`. `RemovedForGood` is not provable from the two
  invariants alone: a removed id could be the one given next. The inductive
  invariant `Membership` adds `mClients \subseteq 1 .. clients_count`. Its proof
  classifies every step (`MembershipStep`): it leaves the membership alone and adds
  at most ships of connected clients (`Kept`), or forgets a client together with
  its ship (`Removed`), or gives the next id to an address without a session
  (`Admitted`).

- `SessionWire` and `IdsAreUnique`, the invariant `UniqueIds`. Two clients could only get
  one id through the network, so the invariant `Wire` adds to `Membership` what the
  network holds: `Addressed` (an id belongs for good to the address it was given to; a
  SYN_ACK on the network goes there; a client carries no other id) and `ToServer` (the server is
  sent only the types of packets that clients send, and acknowledgements of ids it gave out).

- `ScoresAreEarned`: `ScoresEarned` is inductive once it
  speaks of games and of the network at once, because tables travel from a game to a packet
  and back. The proof works with the set `Earned` of tables nobody can object to:
  every handler maps earned tables to an earned table, and `Earned` only grows
  because `kills` does.
- `WinnersHaveEarned`, the invariant `WinnerEarned`: by `ToServer` no packet to the server is
  GAME_WON, and the scores the server reads are earned. It speaks of the server's winner; a client shows
  id 0 whoever has won (section 6).
- `MembershipReplicated`, the invariant `PlayersReplicated`: the ships the server shows reach every
  client. This is one inclusion; the other one, that a client shows no more, is false (`ghost_ship`). It follows from the inductive invariant
  `Deliveries` (theorem `SessionDeliveries`). Its parts: `Numbers` (a number stands for one
  packet of one session), `Acknowledged` (an acknowledgement on the network means that its
  packet was played), `Answered` (the ships of a SYN_ACK that is not used yet, with what is
  still retransmitted, are all the ships), `AboutPlayers` and `Replicated`. The proof attempt showed
  that the property needs its hypothesis `OnlySession`: without it, a client whose SYN was
  repeated has two sessions that number their packets alike. When the first one times
  out and the client joins with the id of the second, an acknowledgement from the time of the first
  erases a PLAYER_NEW of the second that was never played (`server.cpp:200`).

**SaveUsObjects_proofs.** `ObjectsTypeCorrect`, `PoolsStayListed`, `AsteroidsAreAccounted`,
`AsteroidsInBudget` and `ReplicasLag`: the invariants `TypeOK`, `PoolListed`, `AsteroidsAccounted`,
`AsteroidBudget` and `ReplicaLags` for any number of players, slots, asteroids, sizes and particles.
The inductive invariant `IInv` has these parts.

- `AllGood`: every game is well typed, `Listing` (an id is listed exactly when an asteroid in the
  pool carries it) and `ShipsAt` hold of it. A slot belongs to one kind of object at a time, so the lemmas
  say of each helper which objects it leaves alone: `Untouched` for asteroids, `ShipsKept` for
  ships, `Occupied` for all.
- `PacketsRight`: no packet is sent to the player it is about. Otherwise PLAYER_DEATH
  would free the ship `spShip` still points to.
- `Ahead`, while the server runs: `asteroids_id` is the number of asteroids alive and destroyed; only
  ids given out are listed; and every table of sizes, whether a client shows it or an
  update on the network carries it, is `Behind` the server's game. `ReplicaLags` alone is
  not inductive: an update under way is not part of it, and neither is an id that no
  longer exists on the server. The server's steps are shown to lead to a game that `Evolves` from the one before: what is
  not new does not grow. A step of a client only shows what it or an update showed before (`Follows`).
- `Stopped`: a server that has stopped has an empty game.
- `AsteroidBudget` itself. `Pieces` adds up the slots one after the other, and two lemmas say what matters
  of the sum: `PiecesCompared`, that it changes by what one slot does when the others gain nothing, and
  `PiecesBounded`, that it is at most the number of asteroids times what the largest can be split
  into. Most steps are `Thrifty`: they add no pieces and `sAstNum` does not fall. A complete split is, since
  three children and the source that shrinks weigh what the source did; a new asteroid is not,
  but `sAstCtr < sAstNum` and `Listing` leave room for one of the largest. This is where the budget needs
  the counter to agree with the pool.

TLC checked `IInv` on the instance of `objects` before it was proved. The loop over the asteroids of an update and the
one that creates the first asteroids are recursive functions, as in `AsteroidsGame_proofs`.

**TaskQueue_proofs.** `QueueTypeCorrect`, `QueueIsBoundedBuffer` and `NoWakeupIsLost`, for any number of
producers, workers and slots. The second one is the refinement of `BoundedBuffer`. No mutex protects the
three counters together, so the invariant has to say what is in between:
`SlotsAdd` (free slots, items in the buffer, producers about to push and workers about
to release add up to the slots) and `ItemsAdd` (the buffer holds the announced items, those
about to be announced and those a worker is about to pop). The second one is why `front` is
never called on an empty buffer, the first one why the buffer never outgrows its slots.
`Distinct` says that an item is in one place, from which it follows that none is taken
twice. The lemmas first count threads (`CountMoved`), then treat one action each. The invariant `WakeupsSuffice` is inductive given the types: an action
that takes a slot or an item takes it with a thread that was awake (`EnoughTaken`), and one that gives it back
wakes one (`EnoughAdded`), unless none is blocked.

**AsteroidsGame_proofs.** `TypeCorrect`, `ShipSafe` and `ScoreHonest`: the invariants `TypeOK`,
`ShipKept` and `ScoreTrue` for any pool, players and shots, though both threads take slots
without a lock. `MainPlaces` and `DataPlaces` say where a thread may be with which slot in its
hand; `Written` what is in `pObject` between the two stores; `ShipInv` that this slot is never the own ship's once the
ship is there; `EarnedInv` that the score, the bullets in the pool or on their way into it (`Bullets`) and a shot
that has found no slot yet or not filled it (`Unfilled`) together never exceed the shots fired and the mixed ones; `Listed` bounds `bullet_list` in the same way; `ShownInv` relates what is printed to the
score. The collision loop and the spawning of several objects are recursive functions, for
which the module proves what it needs of induction (`Least`, `InductionUpTo`, `RecursionUpTo`).

The second half of the module is about the pure algorithms. `ShipStays`: for every acceleration and window in which the
highest speed crosses at most the window in one frame, the ship is in the window after
every frame; at one unit more `AEWrap` leaves it outside. `PickedUp` and `Outside`: the same for
where pickups and asteroids appear, for every draw; with `ShipStays` this is `InPlace`.
`NothingMissed` and `NothingInvented`, together `Exact`: the run compares
`CollisionIntersection_RectRect` with its reference on a grid, the theorems for rectangles and speeds
of any size. If two rectangles overlap at some time, each of the times the code computes for
an axis is on the right side of that time; if the code reports a collision, `tFirst` is a time at
which they touch. The reference divides a frame into `Parts` that depend on the speeds, so
that it contains every time at which an edge meets an edge.

**AsteroidsLobby_proofs.** `LobbyTypeCorrect`, `LobbyNumbersAgree` and `LobbySocketsInOrder`: the
invariants `TypeOK`, `NumbersAgree` and `SocketsInOrder` for any number of clients and slots.
`SlotsTold` says that whatever tells a client a number (an answer on the network or in a
thread, or what it stored) is about a slot that has its address, and `OneOwner` that a number is
told to one client, which also holds when the relay has overwritten the slots. `Acquired` says
what the server holds of Winsock in each phase, `Connected` that the other threads are past the calls that close the
socket when the data thread waits on it.

**SaveUsClock_proofs.** `ClockTypeCorrect`, `SilentOnesDropped` (the action property
`DroppedForSilence`) and `EndsInTime` (`EndIsTimely`), for frames and timers of any length.
`CountsSilence` compares `quiet` with the server's timer of a client and the length of the frame in
progress, and holds after an error of `recvfrom` as well, because what is left unread is in the socket; `CountsEnd` compares `shown` with `timer`, which the immortality resets on the way. The proof
attempt corrected the bound: with frames longer than an immortality the end is shown
for up to two frames more, not one, while half of the immortality is enough for the rest.

**SaveUsFrame_proofs.** `FrameTypeCorrect`, `NothingEscapes` and `MissilesFollowAsteroids`:
the invariants `TypeOK`, `InWindow` and `MissileAims` for any pool, window, keys and
length of frames within `ShortFrames`. A frame is one action, so the work is in what each pass
leaves to the next one. The inductive invariant is `Rest /\ Playing(world)`.

- `Playing` says that every object of the pool is `Sound` (its type, speed and place), that `spShip`
  is the only ship, and that no missile points to anything but `Rubble`: an asteroid, a particle or a free slot. Within a frame weaker
  forms hold, which the lemmas name: after `Physics` things may be a frame's way outside the range, after
  `Updated` they are inside again. `Input` may give the slot a missile points to to a shot; `Updated` makes the
  missile drop that target, and what `Collided` does to a slot that missiles point to (`Damage`) only turns
  rubble into rubble.
- The four loops over the slots (`Updated`, `Collided`, the loop of a bomb, the first asteroids) are
  recursive functions; `InductionUpTo` and `RecursionUpTo` say what holds after the last slot.

The attempts to prove the invariants corrected the model five times. The type of two constants was
not stated. The bounds of the speeds only held for frames of up to a millisecond. The
speed limit was exact, which the code's is not. The pieces of a split started at the place of their source,
and `InWindow` said more than the code keeps. The first asteroids all flew in one direction.

## 6. Disagreements between the code and what it says

Each is a run whose property TLC violates, and a finding in `PROJECT.json`.

| Run | The text | The code |
|---|---|---|
| `ack_crash` | `client.cpp:224` resends a lost acknowledgement of the SYN_ACK | when it arrives after `RemoveClient`, `server.cpp:176` dereferences a null client |
| `ghost_ship` | `server.cpp:152`: the client is removed "from every simulation" | a late or repeated PLAYER_NEW brings its ship back on other clients |
| `lost_syn` | `client.cpp:153`: "update timer until we ask server for connection again" | the timer adds 0, nothing is asked again |
| `early_start` | `README.txt:71`: the game starts "once all clients are connected" | the answer to a repeated hello is taken for the start signal |

Also seen while modelling, in the models as the code has them, without a run of
their own:

- `server.cpp` (`CheckDuplicateClient`): the address is compared with itself, so a second
  client with an equal port on another host is taken for the first one and its
  SYN is answered to the first one's address.
- `networking.cpp:127`: PLAYER_SHOT before the acknowledgement of the SYN_ACK, or
  after the ship's death, dereferences a missing ship (`NullShip`).
- `networking.cpp:488`: `RemovePlayer` returns before it erases the score of a
  player without a ship, whose row stays in the table.
- `networking.cpp:436`: a duplicated acknowledgement creates the ship again and
  resets the player's points.
- `state_ingame.cpp:989`: a forced creation in a full pool wants to replace a
  particle, but tests for `RED <= type <= WHITE` while the types run from WHITE to RED:
  it replaces none. New ships and asteroids then get no slot, and
  `networking.cpp:84`, `:181` and `state_ingame.cpp:340` write through the null pointer.
- `state_ingame.cpp:1058`-`1070`: a split that finds no slot for a piece leaves the
  source at its size, next to the pieces made so far.
- `networking.cpp:172`: an asteroid update that arrives after the destruction of the
  asteroid creates it again on the client, where it stays.
- `networking.cpp:74`: a repeated PLAYER_NEW leaves the first ship object in the pool.
- `state_ingame.cpp:525`: points of any player give the server's player extra ships.
- `networking.cpp:340`: GAME_WON is sent without its payload; clients show id 0.
- `server.cpp:125`: a packet of an unknown id ends `Update` before the timers run.
- `client.cpp:67`: a FIN is forgotten when another datagram follows in the frame.
- `taskqueue.hpp:131`: `disconnect` notifies nobody, so that a destructor that runs while
  every worker waits joins them for ever. `main` creates no queue.
- `state_ingame.cpp:148`: a player without a ship sends nothing of its own and is dropped
  for silence although it watches; in `SaveUsClock` its data may just not arrive.
- `state_ingame.cpp:456`: a missile turns by the cosine of a cosine instead of the angle.
- `state_ingame.cpp:620`: asteroids never push each other, because the test for overlap
  returns a bool and the code waits for a negative number.
- `GameState_Asteroids.cpp:936`: the main thread in `initMultiPlayer` and the data thread
  may find the same free slot, and a player's ship becomes a bullet, which each table then moves; an asteroid may become a
  bullet in the same way, and a shot score twice.
- `GameState_Asteroids.cpp:596`-`647`: an asteroid that was destroyed in the loop goes on
  colliding; `bullet_list` keeps the bullet and is searched for the asteroid.
- `GameState_Asteroids.cpp:666`: a pickup does not set `onValueChange`, and the lives shown
  are those before it.
- `Collision.cpp:36`: one of the four comparisons always holds, so that the static test
  never decides, which is not what its comment says (line 33: "Otherwise you
  return collision true"). With a relative velocity of 0 on one axis the
  division makes rectangles that overlap not collide.
- `GameState_Asteroids.cpp:889`: `sGameObjInstNum` is always 0, so that Free frees nothing.
- `GameState_Asteroids.cpp:1010`: an asteroid appears beyond the range that wraps and is
  on the other side one frame later.
- `GameState_Asteroids.cpp:1062` says that `spawnLives` picks a "random position, outside the window"; the code
  picks one inside, which is what `PickedUpInside` says.
- `GameState_Asteroids.cpp:53` and `server.cpp:43` call `ASTEROID_SPEED` the "maximum asteroid speed"; the code
  adds up to as much again, so that it is the least speed on an axis, which is what `SpawnedOutside` says.
- `state_ingame.cpp:666` says "2 seconds" of immortality where the constant is 3.
- `GameState_Asteroids.cpp:1164`: after an error of `sendto` the data thread closes the socket and ends, while the
  client plays on alone (`SendFails`).
- `taskqueue.hpp:31`: a producer that waits may find its slot taken by others without end.
- `server.cpp:96`: after an error of `recvfrom` the timers run although the clients' data waits unread; a client
  may be dropped that was not silent (`StopsAtError`).
- `README.md:4` says 10 seconds where `state_ingame.h:116` has 30.
- `Main.cpp`: the space bar during `ConnectToServer` lets a late answer set
  `av_connected` in a single player game; `av_connected` is set before `av_player_num`.

## 7. What is only checked, and what is not modelled

Only model-checked:

- The liveness properties `Delivers`, `JoinCompletes`, `Progress`, `WorkersTerminate`, `RelayContinues`,
  `BulletsLeave`, `LeavingIsNoticed` and `ShotsLeave`, and what rests on ENABLED: TLAPS proves no
  liveness under fairness. Every other property of a passing run is a theorem.
- The properties of the runs that end in a violation are false of the code, as section 6 says.

The general induction rules of the library cannot be instantiated by the installed provers; where
a recursive function over numbers up to a bound occurs in a module with proofs, `InductionUpTo` and
`RecursionUpTo` derive what is needed from the well-foundedness of the natural numbers.

Not modelled:

- The packets that only move ships: they assign a position, which no property
  tells apart.
- `resolveCollision`: unreachable, see section 6.
- Two dimensions, floating point and its rounding: `SaveUsFrame` and `AsteroidsMotion`
  have one axis and whole numbers, `AsteroidsCollision` two axes and exact fractions.
  That a value is a NaN or that a sum is rounded is in none of them.
- Score tables of clients in `SaveUsObjects`: they are in `SaveUsSession`, where
  `ScoresEarned` says that they never credit more than was earned.
- `PathSmoother.cpp` and the smoothing of `GameState_Asteroids.cpp`: `lerpData` is never
  filled and no object is marked as lagging, so that no run reaches it.
- The contents of a relayed table in `AsteroidsLobby`; `AsteroidsGame` takes any table.
- Engine, fonts, shaders, windows; the Alpha Engine.
- The TCP functions, `HandleClientConnection` and the asteroid broadcast of
  `server.cpp`: `main` does not call them. They, drawing and the engine are most of the
  lines the map does not name.

## 8. Plan

Done: all modules of section 3 and the proofs of section 5. What would come next is a bound on the
length of frames in `SaveUsFrame` that is not assumed but taken from the clock of `SaveUsClock`.
