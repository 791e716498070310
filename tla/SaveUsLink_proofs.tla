------------------------- MODULE SaveUsLink_proofs -------------------------
(***************************************************************************)
(* Proofs about SaveUsLink, for every bound MaxSeq: the type invariant and *)
(* that both directions implement the safety part of AtLeastOnce.          *)
(***************************************************************************)
EXTENDS SaveUsLink, TLAPS

(* Datagrams are equal only if their fields are. *)
LEMMA DatagramEq ==
  ASSUME NEW f, NEW g, NEW i, NEW j, NEW m, NEW n
  PROVE  Datagram(f, i, m) = Datagram(g, j, n) <=> f = g /\ i = j /\ m = n
<1>1. ASSUME Datagram(f, i, m) = Datagram(g, j, n)
      PROVE  f = g /\ i = j /\ m = n
  <2>1. /\ Datagram(f, i, m).flag = Datagram(g, j, n).flag
        /\ Datagram(f, i, m).id = Datagram(g, j, n).id
        /\ Datagram(f, i, m).sequence = Datagram(g, j, n).sequence
    BY <1>1
  <2>2. QED  BY <2>1 DEF Datagram
<1>2. QED  BY <1>1 DEF Datagram

(* The datagrams each action sends are of the right kind. *)
LEMMA HandshakeDatagrams ==
  /\ Syn \in Upward
  /\ \A id \in {0, 1} : ConnectAck(id) \in Upward
  /\ SynAck \in Downward
  /\ Update \in Downward
BY DEF Upward, Downward

LEMMA NumberedDatagrams ==
  ASSUME NEW n \in Num
  PROVE  /\ Seq(n) \in Upward
         /\ \A id \in {0, 1} : Ack(id, n) \in Upward
         /\ Seq(n) \in Downward
         /\ Ack(0, n) \in Downward
BY DEF Upward, Downward

(* Type correctness of SaveUsLink. *)
THEOREM TypeCorrect == Spec => []TypeOK
<1> USE LinkAssumption DEF LinkAssumption
<1>1. Init => TypeOK
  <2> SUFFICES ASSUME Init PROVE TypeOK
    OBVIOUS
  <2>1. up \subseteq Upward /\ down \subseteq Downward
    BY HandshakeDatagrams DEF Init
  <2>2. sended \subseteq 0 .. seq /\ c_sended \subseteq 0 .. c_seq
    BY DEF Init
  <2>3. seq \in 0 .. MaxSeq /\ c_seq \in 0 .. MaxSeq
    BY DEF Init
  <2>4. QED  BY <2>1, <2>2, <2>3, Zenon DEF Init, TypeOK
<1>2. TypeOK /\ [Next]_vars => TypeOK'
  <2> SUFFICES ASSUME TypeOK, [Next]_vars PROVE TypeOK'
    OBVIOUS
  <2> USE DEF TypeOK, server, client
  <2>1. CASE ServerReceiveSyn
    <3>1. up' \subseteq Upward /\ down' \subseteq Downward
      BY <2>1, HandshakeDatagrams DEF ServerReceiveSyn
    <3>2. sended' \subseteq 0 .. seq'
      <4>1. 0 \in 0 .. seq  OBVIOUS
      <4>2. seq' = seq /\ sended' \subseteq sended \cup {0}
        BY <2>1 DEF ServerReceiveSyn
      <4>3. QED  BY <4>1, <4>2
    <3>3. QED  BY <2>1, <3>1, <3>2 DEF ServerReceiveSyn
  <2>2. ASSUME NEW id \in {0, 1}, ServerReceiveConnectAck(id) PROVE TypeOK'
    BY <2>2 DEF ServerReceiveConnectAck
  <2>3. ASSUME NEW n \in Num, ServerReceiveSeq(n) PROVE TypeOK'
    BY <2>3, NumberedDatagrams DEF ServerReceiveSeq
  <2>4. ASSUME NEW n \in Num, ClientReceiveSeq(n) PROVE TypeOK'
    BY <2>4, NumberedDatagrams DEF ClientReceiveSeq
  <2>5. ASSUME NEW id \in {0, 1}, NEW n \in Num, ServerReceiveAck(id, n)
        PROVE TypeOK'
    BY <2>5 DEF ServerReceiveAck
  <2>6. ASSUME NEW n \in Num, ClientReceiveAck(n) PROVE TypeOK'
    BY <2>6 DEF ClientReceiveAck
  <2>7. CASE ServerPost
    <3>1. seq + 1 \in Num  BY <2>7 DEF ServerPost, Num
    <3>2. QED  BY <3>1, <2>7, NumberedDatagrams DEF ServerPost, Num
  <2>8. CASE ServerUpdate
    BY <2>8, HandshakeDatagrams DEF ServerUpdate
  <2>9. CASE ServerDrop
    BY <2>9 DEF ServerDrop
  <2>10. ASSUME NEW n \in 0 .. MaxSeq, ServerResend(n) PROVE TypeOK'
    <3>1. n = 0 \/ n \in Num  BY DEF Num
    <3>2. QED  BY <3>1, <2>10, HandshakeDatagrams, NumberedDatagrams DEF ServerResend
  <2>11. ASSUME NEW n \in 0 .. MaxSeq, ClientResend(n) PROVE TypeOK'
    <3>1. n = 0 \/ n \in Num  BY DEF Num
    <3>2. QED  BY <3>1, <2>11, HandshakeDatagrams, NumberedDatagrams DEF ClientResend
  <2>12. CASE ClientConnect
    BY <2>12, HandshakeDatagrams DEF ClientConnect
  <2>13. CASE ClientConnectFails
    BY <2>13 DEF ClientConnectFails
  <2>14. CASE ClientReceiveSynAck
    BY <2>14, HandshakeDatagrams DEF ClientReceiveSynAck
  <2>15. CASE ClientReceiveUpdate
    BY <2>15 DEF ClientReceiveUpdate
  <2>16. CASE ClientPost
    <3>1. c_seq + 1 \in Num  BY <2>16 DEF ClientPost, Num
    <3>2. QED  BY <3>1, <2>16, NumberedDatagrams DEF ClientPost, Num
  <2>17. CASE Lose
    BY <2>17 DEF Lose
  <2>18. CASE UNCHANGED vars
    BY <2>18 DEF vars
  <2>19. QED
    BY <2>1, <2>2, <2>3, <2>4, <2>5, <2>6, <2>7, <2>8, <2>9, <2>10, <2>11,
       <2>12, <2>13, <2>14, <2>15, <2>16, <2>17, <2>18 DEF Next
<1>3. QED  BY <1>1, <1>2, PTL DEF Spec

-----------------------------------------------------------------------------
(* From the server to the client.  The invariant that makes the step proof *)
(* go through: nothing is played or acknowledged before it was posted and  *)
(* played, and sended_packets forgets only what was played.                *)
DownInv ==
  /\ \A n \in Num : Seq(n) \in down => n <= seq
  /\ c_played \subseteq 1 .. seq
  /\ \A n \in 1 .. seq : n \notin sended => n \in c_played
  /\ \A id \in {0, 1}, n \in Num : Ack(id, n) \in up => n \in c_played

(* The same from the client to the server. *)
UpInv ==
  /\ \A n \in Num : Seq(n) \in up => n <= c_seq
  /\ s_played \subseteq 1 .. c_seq
  /\ \A n \in 1 .. c_seq : n \notin c_sended => n \in s_played
  /\ \A n \in Num : Ack(0, n) \in down => n \in s_played

(* Numbered packets and acknowledgements are told apart from everything    *)
(* else that is sent, and from each other by their numbers.                *)
LEMMA Distinct ==
  /\ \A n, k : Seq(n) = Seq(k) <=> n = k
  /\ \A id, n, jd, k : Ack(id, n) = Ack(jd, k) <=> id = jd /\ n = k
  /\ \A id, n, k : Ack(id, n) # Seq(k)
  /\ \A n : Seq(n) \notin {Syn, SynAck, Update}
  /\ \A id, n : Seq(n) # ConnectAck(id)
  /\ \A id, n : Ack(id, n) \notin {Syn, SynAck, Update}
  /\ \A id, n, jd : Ack(id, n) # ConnectAck(jd)
BY DatagramEq DEF Seq, Ack, Syn, SynAck, Update, ConnectAck

(* DownInv is inductive. *)
LEMMA DownInvStep == TypeOK /\ DownInv /\ [Next]_vars => DownInv'
<1> SUFFICES ASSUME TypeOK, DownInv, [Next]_vars PROVE DownInv'
  OBVIOUS
<1> USE Distinct DEF DownInv, server, client
<1>1. CASE ServerReceiveSyn
  BY <1>1 DEF ServerReceiveSyn, TypeOK
<1>2. ASSUME NEW id \in {0, 1}, ServerReceiveConnectAck(id) PROVE DownInv'
  BY <1>2 DEF ServerReceiveConnectAck, TypeOK
<1>3. ASSUME NEW n \in Num, ServerReceiveSeq(n) PROVE DownInv'
  BY <1>3 DEF ServerReceiveSeq
<1>4. ASSUME NEW n \in Num, ClientReceiveSeq(n) PROVE DownInv'
  BY <1>4, LinkAssumption DEF ClientReceiveSeq, TypeOK, Num, LinkAssumption
<1>5. ASSUME NEW id \in {0, 1}, NEW n \in Num, ServerReceiveAck(id, n)
      PROVE DownInv'
  BY <1>5 DEF ServerReceiveAck
<1>6. ASSUME NEW n \in Num, ClientReceiveAck(n) PROVE DownInv'
  BY <1>6 DEF ClientReceiveAck
<1>7. CASE ServerPost
  BY <1>7, LinkAssumption DEF ServerPost, TypeOK, Num, LinkAssumption
<1>8. CASE ServerUpdate
  BY <1>8 DEF ServerUpdate
<1>9. CASE ServerDrop
  BY <1>9 DEF ServerDrop
<1>10. ASSUME NEW n \in 0 .. MaxSeq, ServerResend(n) PROVE DownInv'
  BY <1>10, LinkAssumption DEF ServerResend, TypeOK, Num, LinkAssumption
<1>11. ASSUME NEW n \in 0 .. MaxSeq, ClientResend(n) PROVE DownInv'
  BY <1>11 DEF ClientResend
<1>12. CASE ClientConnect
  BY <1>12 DEF ClientConnect
<1>13. CASE ClientConnectFails
  BY <1>13 DEF ClientConnectFails
<1>14. CASE ClientReceiveSynAck
  BY <1>14 DEF ClientReceiveSynAck
<1>15. CASE ClientReceiveUpdate
  BY <1>15 DEF ClientReceiveUpdate
<1>16. CASE ClientPost
  BY <1>16 DEF ClientPost
<1>17. CASE Lose
  BY <1>17 DEF Lose
<1>18. CASE UNCHANGED vars
  BY <1>18 DEF vars
<1>19. QED
  BY <1>1, <1>2, <1>3, <1>4, <1>5, <1>6, <1>7, <1>8, <1>9, <1>10, <1>11,
     <1>12, <1>13, <1>14, <1>15, <1>16, <1>17, <1>18 DEF Next

(* A packet leaves the servers_client's sended_packets only after the      *)
(* client has played it: the server's direction implements AtLeastOnce.    *)
THEOREM ToClientIsSafe == Spec => ToClientSafe
<1> DEFINE map == <<1 .. seq, c_played, (1 .. seq) \ sended, Broken>>
<1>1. Init => DownInv /\ ToClient!Init
  <2> SUFFICES ASSUME Init PROVE DownInv /\ ToClient!Init
    OBVIOUS
  <2>1. 1 .. seq = {} /\ c_played = {} /\ up = {Syn} /\ down = {}
    BY DEF Init
  <2>2. DownInv
    BY <2>1, Distinct DEF DownInv
  <2>3. ~Broken
    BY DEF Init, Broken
  <2>4. QED  BY <2>1, <2>2, <2>3 DEF ToClient!Init
<1>2. TypeOK /\ DownInv /\ [Next]_vars => [ToClient!Next]_(ToClient!vars)
  <2> SUFFICES ASSUME TypeOK, DownInv, [Next]_vars
               PROVE  ToClient!Next \/ UNCHANGED map
    BY DEF ToClient!vars
  <2> USE DEF server, client
  <2>1. CASE ServerReceiveSyn
    BY <2>1 DEF ServerReceiveSyn, TypeOK, Broken
  <2>2. ASSUME NEW id \in {0, 1}, ServerReceiveConnectAck(id)
        PROVE  ToClient!Next \/ UNCHANGED map
    <3>1. CASE session = "open" /\ id = 1
      BY <3>1, <2>2 DEF ServerReceiveConnectAck, TypeOK, Broken
    <3>2. CASE ~(session = "open" /\ id = 1)
      <4>1. ToClient!Break
        BY <3>2, <2>2 DEF ServerReceiveConnectAck, Broken, ToClient!Break
      <4>2. QED  BY <4>1 DEF ToClient!Next
    <3>3. QED  BY <3>1, <3>2
  <2>3. ASSUME NEW n \in Num, ServerReceiveSeq(n) PROVE UNCHANGED map
    BY <2>3 DEF ServerReceiveSeq, Broken
  <2>4. ASSUME NEW n \in Num, ClientReceiveSeq(n)
        PROVE  ToClient!Next \/ UNCHANGED map
    <3>1. n \in 1 .. seq
      BY <2>4, LinkAssumption DEF ClientReceiveSeq, DownInv, TypeOK, Num, LinkAssumption
    <3>2. c_played' = c_played \cup {n}
      BY <2>4 DEF ClientReceiveSeq
    <3>3. UNCHANGED <<seq, sended, Broken>>
      BY <2>4 DEF ClientReceiveSeq, Broken
    <3>4. CASE n \in c_played
      BY <3>4, <3>2, <3>3
    <3>5. CASE n \notin c_played
      <4>1. ToClient!Play(n)
        BY <3>1, <3>2, <3>3, <3>5 DEF ToClient!Play
      <4>2. QED  BY <4>1 DEF ToClient!Next
    <3>6. QED  BY <3>4, <3>5
  <2>5. ASSUME NEW id \in {0, 1}, NEW n \in Num, ServerReceiveAck(id, n)
        PROVE  ToClient!Next \/ UNCHANGED map
    <3>1. n \in c_played /\ n \in 1 .. seq
      BY <2>5 DEF ServerReceiveAck, DownInv
    <3>2. UNCHANGED <<seq, c_played, Broken>>
      BY <2>5 DEF ServerReceiveAck, Broken
    <3>3. CASE sended' = sended
      BY <3>3, <3>2
    <3>4. CASE sended' # sended
      <4>1. sended' = sended \ {n} /\ n \in sended
        BY <3>4, <2>5 DEF ServerReceiveAck
      <4>2. ToClient!Confirm(n)
        BY <3>1, <3>2, <4>1 DEF ToClient!Confirm
      <4>3. QED  BY <4>2 DEF ToClient!Next
    <3>5. QED  BY <3>3, <3>4
  <2>6. ASSUME NEW n \in Num, ClientReceiveAck(n) PROVE UNCHANGED map
    BY <2>6 DEF ClientReceiveAck, Broken
  <2>7. CASE ServerPost
    <3>1. seq + 1 \in Num \ (1 .. seq)
      BY <2>7, LinkAssumption DEF ServerPost, Num, TypeOK, LinkAssumption
    <3>2. 1 .. seq' = (1 .. seq) \cup {seq + 1}
      BY <2>7 DEF ServerPost, TypeOK
    <3>3. (1 .. seq') \ sended' = (1 .. seq) \ sended
      BY <3>1, <3>2, <2>7 DEF ServerPost
    <3>4. UNCHANGED <<c_played, Broken>>
      BY <2>7 DEF ServerPost, Broken
    <3>5. ToClient!Post(seq + 1)
      BY <3>1, <3>2, <3>3, <3>4 DEF ToClient!Post
    <3>6. QED  BY <3>1, <3>5 DEF ToClient!Next
  <2>8. CASE ServerUpdate
    BY <2>8 DEF ServerUpdate, Broken
  <2>9. CASE ServerDrop
    <3>1. ToClient!Break
      BY <2>9 DEF ServerDrop, Broken, ToClient!Break
    <3>2. QED  BY <3>1 DEF ToClient!Next
  <2>10. ASSUME NEW n \in 0 .. MaxSeq, ServerResend(n) PROVE UNCHANGED map
    BY <2>10 DEF ServerResend, Broken
  <2>11. ASSUME NEW n \in 0 .. MaxSeq, ClientResend(n) PROVE UNCHANGED map
    BY <2>11 DEF ClientResend, Broken
  <2>12. CASE ClientConnect
    BY <2>12 DEF ClientConnect, Broken
  <2>13. CASE ClientConnectFails
    <3>1. UNCHANGED <<seq, c_played, sended>>
      BY <2>13 DEF ClientConnectFails
    <3>2. CASE Broken' = Broken
      BY <3>1, <3>2
    <3>3. CASE Broken' # Broken
      <4>1. Broken'
        BY <3>3, <2>13 DEF ClientConnectFails, Broken
      <4>2. ToClient!Break
        BY <3>1, <4>1 DEF ToClient!Break
      <4>3. QED  BY <4>2 DEF ToClient!Next
    <3>4. QED  BY <3>2, <3>3
  <2>14. CASE ClientReceiveSynAck
    BY <2>14 DEF ClientReceiveSynAck, Broken
  <2>15. CASE ClientReceiveUpdate
    BY <2>15 DEF ClientReceiveUpdate, Broken
  <2>16. CASE ClientPost
    BY <2>16 DEF ClientPost, Broken
  <2>17. CASE Lose
    BY <2>17 DEF Lose, Broken
  <2>18. CASE UNCHANGED vars
    BY <2>18 DEF vars, Broken
  <2>19. QED
    BY <2>1, <2>2, <2>3, <2>4, <2>5, <2>6, <2>7, <2>8, <2>9, <2>10, <2>11,
       <2>12, <2>13, <2>14, <2>15, <2>16, <2>17, <2>18 DEF Next
<1>3. QED
  BY <1>1, <1>2, DownInvStep, TypeCorrect, PTL
  DEF Spec, ToClientSafe, ToClient!Safe

-----------------------------------------------------------------------------
(* From the client to the server.  UpInv is inductive. *)
LEMMA UpInvStep == TypeOK /\ UpInv /\ [Next]_vars => UpInv'
<1> SUFFICES ASSUME TypeOK, UpInv, [Next]_vars PROVE UpInv'
  OBVIOUS
<1> USE Distinct DEF UpInv, server, client
<1>1. CASE ServerReceiveSyn
  BY <1>1 DEF ServerReceiveSyn
<1>2. ASSUME NEW id \in {0, 1}, ServerReceiveConnectAck(id) PROVE UpInv'
  BY <1>2 DEF ServerReceiveConnectAck
<1>3. ASSUME NEW n \in Num, ServerReceiveSeq(n) PROVE UpInv'
  <2>1. n \in 1 .. c_seq
    BY <1>3, LinkAssumption DEF ServerReceiveSeq, TypeOK, Num, LinkAssumption
  <2>2. /\ s_played \subseteq s_played'
        /\ s_played' \subseteq s_played \cup {n}
        /\ \A k \in Num : Ack(0, k) \in down' => Ack(0, k) \in down \/ k \in s_played'
        /\ up' \subseteq up
    BY <1>3 DEF ServerReceiveSeq
  <2>3. UNCHANGED <<c_seq, c_sended>>
    BY <1>3 DEF ServerReceiveSeq
  <2>4. QED  BY <2>1, <2>2, <2>3
<1>4. ASSUME NEW n \in Num, ClientReceiveSeq(n) PROVE UpInv'
  BY <1>4 DEF ClientReceiveSeq
<1>5. ASSUME NEW id \in {0, 1}, NEW n \in Num, ServerReceiveAck(id, n)
      PROVE UpInv'
  BY <1>5 DEF ServerReceiveAck
<1>6. ASSUME NEW n \in Num, ClientReceiveAck(n) PROVE UpInv'
  BY <1>6 DEF ClientReceiveAck
<1>7. CASE ServerPost
  BY <1>7 DEF ServerPost
<1>8. CASE ServerUpdate
  BY <1>8 DEF ServerUpdate
<1>9. CASE ServerDrop
  BY <1>9 DEF ServerDrop
<1>10. ASSUME NEW n \in 0 .. MaxSeq, ServerResend(n) PROVE UpInv'
  BY <1>10 DEF ServerResend
<1>11. ASSUME NEW n \in 0 .. MaxSeq, ClientResend(n) PROVE UpInv'
  BY <1>11, LinkAssumption DEF ClientResend, TypeOK, Num, LinkAssumption
<1>12. CASE ClientConnect
  BY <1>12 DEF ClientConnect, TypeOK
<1>13. CASE ClientConnectFails
  BY <1>13 DEF ClientConnectFails
<1>14. CASE ClientReceiveSynAck
  BY <1>14 DEF ClientReceiveSynAck
<1>15. CASE ClientReceiveUpdate
  BY <1>15 DEF ClientReceiveUpdate
<1>16. CASE ClientPost
  BY <1>16, LinkAssumption DEF ClientPost, TypeOK, Num, LinkAssumption
<1>17. CASE Lose
  BY <1>17 DEF Lose
<1>18. CASE UNCHANGED vars
  BY <1>18 DEF vars
<1>19. QED
  BY <1>1, <1>2, <1>3, <1>4, <1>5, <1>6, <1>7, <1>8, <1>9, <1>10, <1>11,
     <1>12, <1>13, <1>14, <1>15, <1>16, <1>17, <1>18 DEF Next

(* A packet leaves the client's sended_packets only after the server has   *)
(* played it: the client's direction implements AtLeastOnce.               *)
THEOREM ToServerIsSafe == Spec => ToServerSafe
<1> DEFINE map == <<1 .. c_seq, s_played, (1 .. c_seq) \ c_sended, Broken>>
<1>1. Init => UpInv /\ ToServer!Init
  <2> SUFFICES ASSUME Init PROVE UpInv /\ ToServer!Init
    OBVIOUS
  <2>1. 1 .. c_seq = {} /\ s_played = {} /\ up = {Syn} /\ down = {}
    BY DEF Init
  <2>2. UpInv
    BY <2>1, Distinct DEF UpInv
  <2>3. ~Broken
    BY DEF Init, Broken
  <2>4. QED  BY <2>1, <2>2, <2>3 DEF ToServer!Init
<1>2. TypeOK /\ UpInv /\ [Next]_vars => [ToServer!Next]_(ToServer!vars)
  <2> SUFFICES ASSUME TypeOK, UpInv, [Next]_vars
               PROVE  ToServer!Next \/ UNCHANGED map
    BY DEF ToServer!vars
  <2> USE DEF server, client
  <2>1. CASE ServerReceiveSyn
    BY <2>1 DEF ServerReceiveSyn, Broken
  <2>2. ASSUME NEW id \in {0, 1}, ServerReceiveConnectAck(id)
        PROVE  ToServer!Next \/ UNCHANGED map
    <3>1. CASE session = "open" /\ id = 1
      BY <3>1, <2>2 DEF ServerReceiveConnectAck, Broken
    <3>2. CASE ~(session = "open" /\ id = 1)
      <4>1. ToServer!Break
        BY <3>2, <2>2 DEF ServerReceiveConnectAck, Broken, ToServer!Break
      <4>2. QED  BY <4>1 DEF ToServer!Next
    <3>3. QED  BY <3>1, <3>2
  <2>3. ASSUME NEW n \in Num, ServerReceiveSeq(n)
        PROVE  ToServer!Next \/ UNCHANGED map
    <3>1. n \in 1 .. c_seq
      BY <2>3, LinkAssumption DEF ServerReceiveSeq, UpInv, TypeOK, Num, LinkAssumption
    <3>2. UNCHANGED <<c_seq, c_sended, Broken>>
      BY <2>3 DEF ServerReceiveSeq, Broken
    <3>3. CASE s_played' = s_played
      BY <3>3, <3>2
    <3>4. CASE s_played' # s_played
      <4>1. s_played' = s_played \cup {n} /\ n \notin s_played
        BY <3>4, <2>3 DEF ServerReceiveSeq
      <4>2. ToServer!Play(n)
        BY <3>1, <3>2, <4>1 DEF ToServer!Play
      <4>3. QED  BY <4>2 DEF ToServer!Next
    <3>5. QED  BY <3>3, <3>4
  <2>4. ASSUME NEW n \in Num, ClientReceiveSeq(n) PROVE UNCHANGED map
    BY <2>4 DEF ClientReceiveSeq, Broken
  <2>5. ASSUME NEW id \in {0, 1}, NEW n \in Num, ServerReceiveAck(id, n)
        PROVE  UNCHANGED map
    BY <2>5 DEF ServerReceiveAck, Broken
  <2>6. ASSUME NEW n \in Num, ClientReceiveAck(n)
        PROVE  ToServer!Next \/ UNCHANGED map
    <3>1. n \in s_played /\ n \in 1 .. c_seq
      BY <2>6 DEF ClientReceiveAck, UpInv
    <3>2. UNCHANGED <<c_seq, s_played, Broken>> /\ c_sended' = c_sended \ {n}
      BY <2>6 DEF ClientReceiveAck, Broken
    <3>3. CASE n \notin c_sended
      BY <3>3, <3>2
    <3>4. CASE n \in c_sended
      <4>1. ToServer!Confirm(n)
        BY <3>1, <3>2, <3>4 DEF ToServer!Confirm
      <4>2. QED  BY <4>1 DEF ToServer!Next
    <3>5. QED  BY <3>3, <3>4
  <2>7. CASE ServerPost
    BY <2>7 DEF ServerPost, Broken
  <2>8. CASE ServerUpdate
    BY <2>8 DEF ServerUpdate, Broken
  <2>9. CASE ServerDrop
    <3>1. ToServer!Break
      BY <2>9 DEF ServerDrop, Broken, ToServer!Break
    <3>2. QED  BY <3>1 DEF ToServer!Next
  <2>10. ASSUME NEW n \in 0 .. MaxSeq, ServerResend(n) PROVE UNCHANGED map
    BY <2>10 DEF ServerResend, Broken
  <2>11. ASSUME NEW n \in 0 .. MaxSeq, ClientResend(n) PROVE UNCHANGED map
    BY <2>11 DEF ClientResend, Broken
  <2>12. CASE ClientConnect
    BY <2>12 DEF ClientConnect, Broken, TypeOK
  <2>13. CASE ClientConnectFails
    <3>1. UNCHANGED <<c_seq, s_played, c_sended>>
      BY <2>13 DEF ClientConnectFails
    <3>2. CASE Broken' = Broken
      BY <3>1, <3>2
    <3>3. CASE Broken' # Broken
      <4>1. Broken'
        BY <3>3, <2>13 DEF ClientConnectFails, Broken
      <4>2. ToServer!Break
        BY <3>1, <4>1 DEF ToServer!Break
      <4>3. QED  BY <4>2 DEF ToServer!Next
    <3>4. QED  BY <3>2, <3>3
  <2>14. CASE ClientReceiveSynAck
    BY <2>14 DEF ClientReceiveSynAck, Broken
  <2>15. CASE ClientReceiveUpdate
    BY <2>15 DEF ClientReceiveUpdate, Broken
  <2>16. CASE ClientPost
    <3>1. c_seq + 1 \in Num \ (1 .. c_seq)
      BY <2>16, LinkAssumption DEF ClientPost, Num, TypeOK, LinkAssumption
    <3>2. 1 .. c_seq' = (1 .. c_seq) \cup {c_seq + 1}
      BY <2>16 DEF ClientPost, TypeOK
    <3>3. (1 .. c_seq') \ c_sended' = (1 .. c_seq) \ c_sended
      BY <3>1, <3>2, <2>16 DEF ClientPost
    <3>4. UNCHANGED <<s_played, Broken>>
      BY <2>16 DEF ClientPost, Broken
    <3>5. ToServer!Post(c_seq + 1)
      BY <3>1, <3>2, <3>3, <3>4 DEF ToServer!Post
    <3>6. QED  BY <3>1, <3>5 DEF ToServer!Next
  <2>17. CASE Lose
    BY <2>17 DEF Lose, Broken
  <2>18. CASE UNCHANGED vars
    BY <2>18 DEF vars, Broken
  <2>19. QED
    BY <2>1, <2>2, <2>3, <2>4, <2>5, <2>6, <2>7, <2>8, <2>9, <2>10, <2>11,
       <2>12, <2>13, <2>14, <2>15, <2>16, <2>17, <2>18 DEF Next
<1>3. QED
  BY <1>1, <1>2, UpInvStep, TypeCorrect, PTL
  DEF Spec, ToServerSafe, ToServer!Safe

-----------------------------------------------------------------------------
(* Both directions of a connection implement the safety part of            *)
(* AtLeastOnce.                                                            *)
THEOREM LinkIsSafe == Spec => Safe
  BY ToClientIsSafe, ToServerIsSafe, PTL DEF Safe
=============================================================================
