----------------------------- MODULE SaveUsLink -----------------------------
(***************************************************************************)
(* One connection of "2.0 Save Us" between a client and the server's       *)
(* servers_client for it, over a network that loses, delays and reorders   *)
(* datagrams: the three-way handshake, the numbered packets of either side *)
(* (BaseNetwork::SendMsg), their retransmission (UpdateSendedPackets) and  *)
(* their acknowledgements.  What a packet does to the game is abstracted   *)
(* to its being played; module SaveUsSession models that.                  *)
(*                                                                         *)
(* A timer of sended_packets that reaches acknowledge_timer is an action   *)
(* that may happen in any frame.  A datagram is consumed when it is        *)
(* received; duplicates come from retransmission.                          *)
(***************************************************************************)
EXTENDS Integers

CONSTANTS
  MaxSeq   \* bound on m_seq of either side

ASSUME LinkAssumption == MaxSeq \in Nat

Num == 1 .. MaxSeq

\* A datagram: flag, the sender's id and the number it carries.
\* "UPDATE" stands for every packet sent without expect_ack.
Datagram(flag, id, n) == [flag |-> flag, id |-> id, sequence |-> n]

Syn            == Datagram("SYN", 0, 0)
SynAck         == Datagram("SYN_ACK", 1, 0)
ConnectAck(id) == Datagram("CONNECT_ACK", id, 0)
Seq(n)         == Datagram("SEQ", 0, n)
Ack(id, n)     == Datagram("ACK", id, n)
Update         == Datagram("UPDATE", 0, 0)

VARIABLES
  session,   \* the servers_client: "none", "open", "dropped"; or "crashed"
  joined,    \* the server has created this player's ship
  seq,       \* m_seq of the servers_client
  sended,    \* sequences in its sended_packets, 0 for the SYN_ACK
  s_played,  \* history: packets of the client the server has played
  pc,        \* the client: "connecting" or "playing"
  m_id,      \* the client's id: 1, or 0 when it never got one
  c_seq,     \* m_seq of the client
  c_sended,  \* sequences in its sended_packets, 0 for the SYN
  c_played,  \* history: packets of the server the client has played
  up,        \* datagrams on their way to the server
  down       \* datagrams on their way to the client

server == <<session, joined, seq, sended, s_played>>
client == <<pc, m_id, c_seq, c_sended, c_played>>
vars   == <<server, client, up, down>>

Upward   == {Syn} \cup {ConnectAck(id) : id \in {0, 1}}
                  \cup {Seq(n) : n \in Num}
                  \cup {Ack(id, n) : id \in {0, 1}, n \in Num}
Downward == {SynAck, Update} \cup {Seq(n) : n \in Num}
                             \cup {Ack(0, n) : n \in Num}

TypeOK ==
  /\ session \in {"none", "open", "dropped", "crashed"}
  /\ joined \in BOOLEAN
  /\ seq \in 0 .. MaxSeq /\ c_seq \in 0 .. MaxSeq
  /\ sended \subseteq 0 .. seq /\ c_sended \subseteq 0 .. c_seq
  /\ s_played \subseteq Num /\ c_played \subseteq Num
  /\ pc \in {"connecting", "playing"}
  /\ m_id \in {0, 1}
  /\ up \subseteq Upward
  /\ down \subseteq Downward

\* ConnectToServer has sent its SYN.
Init ==
  /\ session = "none" /\ joined = FALSE /\ seq = 0 /\ sended = {}
  /\ pc = "connecting" /\ m_id = 0 /\ c_seq = 0 /\ c_sended = {0}
  /\ s_played = {} /\ c_played = {}
  /\ up = {Syn} /\ down = {}

-----------------------------------------------------------------------------
(* Server.                                                                 *)

\* The first SYN opens the session; a later one is answered again.  A SYN
\* that arrives after the session was dropped would open one with a new id:
\* that is beyond this module's one connection.
ServerReceiveSyn ==
  /\ session # "crashed"
  /\ Syn \in up
  /\ up' = up \ {Syn}
  /\ IF session = "dropped"
     THEN UNCHANGED <<session, sended, down>>
     ELSE /\ session' = "open"
          /\ sended' = sended \cup {0}
          /\ down' = down \cup {SynAck}
  /\ UNCHANGED <<joined, seq, s_played, client>>

ServerReceiveConnectAck(id) ==
  /\ session # "crashed"
  /\ ConnectAck(id) \in up
  /\ up' = up \ {ConnectAck(id)}
  /\ IF session = "open" /\ id = 1
     THEN /\ joined' = TRUE
          /\ sended' = sended \ {0}
          /\ UNCHANGED session
     ELSE /\ session' = "crashed"        \* mClients[id] is a null pointer
          /\ UNCHANGED <<joined, sended>>
  /\ UNCHANGED <<seq, s_played, client, down>>

\* Mutant: the acknowledgement is sent before the id is looked up
AckBeforeLookup(n) ==
  /\ session # "crashed"
  /\ Seq(n) \in up
  /\ up' = up \ {Seq(n)}
  /\ down' = down \cup {Ack(0, n)}
  /\ s_played' = IF session = "open" THEN s_played \cup {n} ELSE s_played
  /\ UNCHANGED <<session, joined, seq, sended, client>>

\* Update drops the packets of an id that is not in mClients.
ServerReceiveSeq(n) ==
  /\ session # "crashed"
  /\ Seq(n) \in up
  /\ up' = up \ {Seq(n)}
  /\ IF session = "open"
     THEN /\ down' = down \cup {Ack(0, n)}
          /\ s_played' = s_played \cup {n}
     ELSE UNCHANGED <<down, s_played>>
  /\ UNCHANGED <<session, joined, seq, sended, client>>

ServerReceiveAck(id, n) ==
  /\ session # "crashed"
  /\ Ack(id, n) \in up
  /\ up' = up \ {Ack(id, n)}
  /\ sended' = IF session = "open" /\ id = 1 THEN sended \ {n} ELSE sended
  /\ UNCHANGED <<session, joined, seq, s_played, client, down>>

ServerPost ==
  /\ session = "open"
  /\ seq < MaxSeq
  /\ seq' = seq + 1
  /\ sended' = sended \cup {seq + 1}
  /\ down' = down \cup {Seq(seq + 1)}
  /\ UNCHANGED <<session, joined, s_played, client, up>>

ServerUpdate ==
  /\ session = "open"
  /\ down' = down \cup {Update}
  /\ UNCHANGED <<server, client, up>>

\* Mutant: a packet is sent again under the next number
ResendRenumbered(n) ==
  /\ session = "open"
  /\ n \in sended
  /\ down' = down \cup {Seq(n + 1)}
  /\ UNCHANGED <<server, client, up>>

\* UpdateSendedPackets: the timer of entry n has reached acknowledge_timer
ServerResend(n) ==
  /\ session = "open"
  /\ n \in sended
  /\ down' = down \cup {IF n = 0 THEN SynAck ELSE Seq(n)}
  /\ UNCHANGED <<server, client, up>>

\* RemoveClient, after a FIN or 20 seconds of silence
ServerDrop ==
  /\ session = "open"
  /\ session' = "dropped"
  /\ UNCHANGED <<joined, seq, sended, s_played, client, up, down>>

-----------------------------------------------------------------------------
(* Client.                                                                 *)

\* ConnectToServer: the SYN_ACK comes first ...
ClientConnect ==
  /\ pc = "connecting"
  /\ SynAck \in down
  /\ pc' = "playing"
  /\ m_id' = 1
  /\ c_sended' = c_sended \ {0}
  /\ down' = down \ {SynAck}
  /\ up' = up \cup {ConnectAck(1)}
  /\ UNCHANGED <<server, c_seq, c_played>>

\* ... or something else does, and the client plays on without an id.
\* sended_packets.erase(sequence) then leaves the SYN stored.
ClientConnectFails ==
  /\ pc = "connecting"
  /\ \E m \in down \ {SynAck} : down' = down \ {m}
  /\ pc' = "playing"
  /\ UNCHANGED <<server, m_id, c_seq, c_sended, c_played, up>>

\* Mutant: a SYN_ACK that comes again is ignored
IgnoreSynAck ==
  /\ pc = "playing"
  /\ SynAck \in down
  /\ down' = down \ {SynAck}
  /\ UNCHANGED <<server, client, up>>

ClientReceiveSynAck ==
  /\ pc = "playing"
  /\ SynAck \in down
  /\ down' = down \ {SynAck}
  /\ up' = up \cup {ConnectAck(m_id)}
  /\ UNCHANGED <<server, client>>

\* Mutant: only a packet that was not played before is acknowledged
ClientAcksOnce(n) ==
  /\ pc = "playing"
  /\ Seq(n) \in down
  /\ down' = down \ {Seq(n)}
  /\ up' = IF n \in c_played THEN up ELSE up \cup {Ack(m_id, n)}
  /\ c_played' = c_played \cup {n}
  /\ UNCHANGED <<server, pc, m_id, c_seq, c_sended>>

ClientReceiveSeq(n) ==
  /\ pc = "playing"
  /\ Seq(n) \in down
  /\ down' = down \ {Seq(n)}
  /\ up' = up \cup {Ack(m_id, n)}
  /\ c_played' = c_played \cup {n}
  /\ UNCHANGED <<server, pc, m_id, c_seq, c_sended>>

ClientReceiveAck(n) ==
  /\ pc = "playing"
  /\ Ack(0, n) \in down
  /\ down' = down \ {Ack(0, n)}
  /\ c_sended' = c_sended \ {n}
  /\ UNCHANGED <<server, pc, m_id, c_seq, c_played, up>>

ClientReceiveUpdate ==
  /\ pc = "playing"
  /\ Update \in down
  /\ down' = down \ {Update}
  /\ UNCHANGED <<server, client, up>>

\* Only a client that got an id has a ship, and so anything to report.
ClientPost ==
  /\ pc = "playing"
  /\ m_id # 0
  /\ c_seq < MaxSeq
  /\ c_seq' = c_seq + 1
  /\ c_sended' = c_sended \cup {c_seq + 1}
  /\ up' = up \cup {Seq(c_seq + 1)}
  /\ UNCHANGED <<server, pc, m_id, c_played, down>>

\* UpdateSendedPackets runs in client::Update.  ConnectToServer has a timer of
\* its own for the SYN, but before the first frame GetDt() is 0 and it stands.
ClientResend(n) ==
  /\ pc = "playing"
  /\ n \in c_sended
  /\ up' = up \cup {IF n = 0 THEN Syn ELSE Seq(n)}
  /\ UNCHANGED <<server, client, down>>

-----------------------------------------------------------------------------
Lose ==
  /\ \/ \E m \in up   : up'   = up \ {m}   /\ UNCHANGED down
     \/ \E m \in down : down' = down \ {m} /\ UNCHANGED up
  /\ UNCHANGED <<server, client>>

Next ==
  \/ ServerReceiveSyn
  \/ \E id \in {0, 1} : ServerReceiveConnectAck(id)
  \/ \E n \in Num : ServerReceiveSeq(n) \/ ClientReceiveSeq(n)
  \/ \E id \in {0, 1}, n \in Num : ServerReceiveAck(id, n)
  \/ \E n \in Num : ClientReceiveAck(n)
  \/ ServerPost \/ ServerUpdate \/ ServerDrop
  \/ \E n \in 0 .. MaxSeq : ServerResend(n) \/ ClientResend(n)
  \/ ClientConnect \/ ClientConnectFails
  \/ ClientReceiveSynAck \/ ClientReceiveUpdate \/ ClientPost
  \/ Lose

(* Frames go on, so a stored packet is sent again and again (WF), and a    *)
(* datagram that is sent again and again is not lost every time (SF).      *)
Fairness ==
  /\ \A n \in 0 .. MaxSeq : WF_vars(ServerResend(n)) /\ WF_vars(ClientResend(n))
  /\ SF_vars(ServerReceiveSyn)
  /\ \A id \in {0, 1} : SF_vars(ServerReceiveConnectAck(id))
  /\ SF_vars(ClientConnect) /\ SF_vars(ClientReceiveSynAck)
  /\ \A n \in Num :
       /\ SF_vars(ServerReceiveSeq(n)) /\ SF_vars(ClientReceiveSeq(n))
       /\ SF_vars(ServerReceiveAck(1, n)) /\ SF_vars(ClientReceiveAck(n))

Spec     == Init /\ [][Next]_vars
FairSpec == Spec /\ Fairness

-----------------------------------------------------------------------------
(* Properties.                                                             *)

(* The connection is broken once the server has dropped it or is down, or  *)
(* the client plays without an id.                                         *)
Broken == \/ session \in {"dropped", "crashed"}
          \/ pc = "playing" /\ m_id = 0

ToClient == INSTANCE AtLeastOnce
              WITH posted <- 1 .. seq, played <- c_played,
                   confirmed <- (1 .. seq) \ sended, broken <- Broken

ToServer == INSTANCE AtLeastOnce
              WITH posted <- 1 .. c_seq, played <- s_played,
                   confirmed <- (1 .. c_seq) \ c_sended, broken <- Broken

(* Both directions keep the promise of AtLeastOnce: a packet leaves         *)
(* sended_packets only after its peer has played it ...                    *)
ToClientSafe == ToClient!Safe
ToServerSafe == ToServer!Safe

Safe == ToClientSafe /\ ToServerSafe

(* ... and unless the connection breaks everything posted is played and    *)
(* leaves sended_packets, whatever is lost.                                *)
Delivers == ToClient!Spec /\ ToServer!Spec

(* client.cpp:224: once the server has a session, its player gets into the *)
(* game and the server learns of it, however often the SYN_ACK and its     *)
(* acknowledgement are lost: the client has no timer of its own while it   *)
(* connects, and one that plays must answer every SYN_ACK again.           *)
JoinCompletes == session = "open" ~> joined \/ Broken

(* client.cpp:153: "update timer until we ask server for connection again".*)
(* A client whose SYN is lost should ask again and get into the game.      *)
SynIsRetried == pc = "connecting" ~> pc = "playing"
=============================================================================
