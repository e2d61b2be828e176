--------------------------- MODULE PresenceProofs ----------------------------
(***************************************************************************)
(* Proofs about Presence, for any connections and nodes, every TTL and     *)
(* every shorter interval, and any number of failed requests and crashes.  *)
(***************************************************************************)
EXTENDS Presence, TLAPS

USE PresenceAssumption DEF handlers, bucket, presenceHistory

-----------------------------------------------------------------------------
(* Requests under way *)

\* A node's requests after one is added.
LEMMA SentWire ==
    ASSUME PresenceTypeOK, NEW c \in Conns, NEW op \in Ops, Send(c, op)
    PROVE  /\ wire' \in [Nodes -> Seq(Ops \X Conns)]
           /\ \A n \in Nodes : n # NodeOf[c] => wire'[n] = wire[n]
           /\ Len(wire'[NodeOf[c]]) = Len(wire[NodeOf[c]]) + 1
           /\ wire'[NodeOf[c]][Len(wire[NodeOf[c]]) + 1] = <<op, c>>
           /\ \A i \in 1 .. Len(wire[NodeOf[c]]) : wire'[NodeOf[c]][i] = wire[NodeOf[c]][i]
  <1>1. NodeOf[c] \in Nodes /\ wire[NodeOf[c]] \in Seq(Ops \X Conns) /\ <<op, c>> \in Ops \X Conns
    BY DEF PresenceTypeOK
  <1>2. wire'[NodeOf[c]] = Append(wire[NodeOf[c]], <<op, c>>)
    BY <1>1 DEF Send, PresenceTypeOK
  <1>3. wire' \in [Nodes -> Seq(Ops \X Conns)]
    BY <1>1 DEF Send, PresenceTypeOK
  <1> QED
    BY <1>1, <1>2, <1>3 DEF Send, PresenceTypeOK

\* A node's requests after the first one is answered.
LEMMA TakenWire ==
    ASSUME PresenceTypeOK, NEW n \in Nodes, Answered(n)
    PROVE  /\ wire' \in [Nodes -> Seq(Ops \X Conns)]
           /\ \A k \in Nodes : k # n => wire'[k] = wire[k]
           /\ Len(wire[n]) \in Nat \ {0} /\ Len(wire'[n]) = Len(wire[n]) - 1
           /\ \A i \in 1 .. Len(wire[n]) - 1 : wire'[n][i] = wire[n][i + 1]
           /\ Head(wire[n]) = wire[n][1] /\ Head(wire[n]) \in Ops \X Conns
  <1>1. wire[n] \in Seq(Ops \X Conns) /\ wire[n] # <<>>
    BY DEF PresenceTypeOK, Answered
  <1>2. wire'[n] = Tail(wire[n]) /\ Tail(wire[n]) \in Seq(Ops \X Conns)
    BY <1>1 DEF Answered, PresenceTypeOK
  <1>3. /\ wire' \in [Nodes -> Seq(Ops \X Conns)]
        /\ \A k \in Nodes : k # n => wire'[k] = wire[k]
    BY <1>2 DEF Answered, PresenceTypeOK
  <1> QED
    BY <1>1, <1>2, <1>3

\* What a handler that awaits nothing sends is the one request it awaits then;
\* a heartbeat may join any requests.
LEMMA AwaitedSend ==
    ASSUME PresenceInv, NEW c \in Conns, NEW op \in Ops, Send(c, op),
           NEW what, Now(c, what),
           \/ op = "beat" /\ what = doing[c]
           \/ op = "put" /\ doing[c] \in {"idle", "subscribed"} /\ what = "subscribing"
           \/ /\ op = "delete" /\ doing[c] \in {"idle", "subscribed"}
              /\ what \in {"unsubscribing", "closing"}
    PROVE  AwaitedOnce'
  <1> DEFINE N == NodeOf[c]
             L == Len(wire[N])
  <1>0. /\ PresenceTypeOK /\ AwaitedOnce
        /\ N \in Nodes /\ wire[N] \in Seq(Ops \X Conns) /\ L \in Nat
    BY DEF PresenceInv, PresenceTypeOK
  <1>1. /\ \A n \in Nodes : n # N => wire'[n] = wire[n]
        /\ Len(wire'[N]) = L + 1 /\ wire'[N][L + 1] = <<op, c>>
        /\ \A i \in 1 .. L : wire'[N][i] = wire[N][i]
    BY <1>0, SentWire
  <1>2. /\ \A d \in Conns : d # c => doing'[d] = doing[d]
        /\ doing'[c] = what
    BY <1>0 DEF Now, PresenceTypeOK
  <1>3. ASSUME NEW n \in Nodes, NEW i \in 1 .. Len(wire[n])
        PROVE  /\ wire[n][i] \in Ops \X Conns /\ NodeOf[wire[n][i][2]] = n
               /\ wire[n][i][1] # "beat" => Awaits(wire[n][i])
               /\ wire[n][i][1] # "beat" /\ op # "beat" => wire[n][i][2] # c
    BY <1>0 DEF PresenceTypeOK, AwaitedOnce, Awaits
  <1>4. ASSUME NEW j \in 1 .. L
        PROVE  /\ wire'[N][j] = wire[N][j]
               /\ wire[N][j] \in Ops \X Conns /\ NodeOf[wire[N][j][2]] = N
               /\ wire[N][j][1] # "beat" => Awaits(wire[N][j])
               /\ wire[N][j][1] # "beat" /\ op # "beat" => wire[N][j][2] # c
    <2>1. wire'[N][j] = wire[N][j]
      BY <1>1
    <2>2. N \in Nodes /\ j \in 1 .. Len(wire[N])
      BY <1>0
    <2>3. wire[N][j] \in Ops \X Conns /\ NodeOf[wire[N][j][2]] = N
      BY <1>3, <2>2
    <2>4. ASSUME wire[N][j][1] # "beat"
          PROVE  Awaits(wire[N][j]) /\ (op # "beat" => wire[N][j][2] # c)
      BY <1>0, <2>2, <2>4 DEF AwaitedOnce, Awaits
    <2> QED
      BY <2>1, <2>3, <2>4
  <1>5. op # "beat" => Awaits(<<op, c>>)'
    BY <1>2 DEF Awaits
  <1>6. ASSUME NEW r \in Ops \X Conns, op # "beat" => r[2] # c, Awaits(r) PROVE Awaits(r)'
    BY <1>2, <1>6 DEF Awaits
  <1> SUFFICES ASSUME NEW n \in Nodes, NEW i \in 1 .. Len(wire'[n])
               PROVE  /\ NodeOf[wire'[n][i][2]] = n
                      /\ wire'[n][i][1] # "beat" =>
                           /\ Awaits(wire[n][i])'
                           /\ \A j \in 1 .. Len(wire'[n]) :
                                wire'[n][j][2] = wire'[n][i][2] /\ wire'[n][j][1] # "beat" => j = i
    BY DEF AwaitedOnce
  <1>7. CASE n # N
    BY <1>0, <1>1, <1>3, <1>7, <1>6 DEF AwaitedOnce
  <1>8. CASE n = N /\ i = L + 1
    <2>1. wire'[n][i] = <<op, c>>
      BY <1>1, <1>8
    <2>2. ASSUME op # "beat", NEW j \in 1 .. L + 1, wire'[N][j][2] = c, wire'[N][j][1] # "beat"
          PROVE  j = L + 1
      <3>1. CASE j \in 1 .. L
        BY <1>4, <2>2, <3>1
      <3> QED
        BY <1>0, <3>1
    <2> QED
      BY <1>0, <1>1, <1>5, <1>8, <2>1, <2>2 DEF Awaits
  <1>9. CASE n = N /\ i # L + 1
    <2>1. i \in 1 .. L /\ wire'[n][i] = wire[n][i]
      BY <1>0, <1>1, <1>9
    <2>2. ASSUME wire'[n][i][1] # "beat"
          PROVE  \A j \in 1 .. L + 1 :
                   wire'[N][j][2] = wire'[n][i][2] /\ wire'[N][j][1] # "beat" => j = i
      <3>1. ASSUME NEW j \in 1 .. L, wire'[N][j][2] = wire'[n][i][2], wire'[N][j][1] # "beat"
            PROVE  j = i
        BY <1>0, <1>1, <1>9, <2>1, <2>2, <3>1 DEF AwaitedOnce
      <3>2. op # "beat" => wire'[N][L + 1][2] # wire'[n][i][2]
        BY <1>1, <1>9, <1>4, <2>1, <2>2
      <3>3. \A j \in 1 .. L + 1 : j \in 1 .. L \/ j = L + 1
        BY <1>0
      <3> QED
        BY <1>1, <3>1, <3>2, <3>3
    <2> QED
      <3>1. wire[N][i][1] # "beat" => Awaits(wire[N][i])'
        BY <1>9, <1>6, <1>4, <2>1
      <3> QED
        BY <1>1, <1>9, <1>4, <2>1, <2>2, <3>1
  <1> QED
    BY <1>7, <1>8, <1>9

\* A heartbeat under way stays so when another request is sent, and the one that
\* is sent is.
LEMMA BeatSent ==
    ASSUME PresenceTypeOK, NEW c \in Conns, NEW op \in Ops, Send(c, op)
    PROVE  /\ \A d \in Conns : BeatUnderWay(d) => BeatUnderWay(d)'
           /\ op = "beat" => BeatUnderWay(c)'
  <1>1. wire[NodeOf[c]] \in Seq(Ops \X Conns) /\ Len(wire[NodeOf[c]]) \in Nat
    BY DEF PresenceTypeOK
  <1>2. ASSUME NEW d \in Conns, BeatUnderWay(d) PROVE BeatUnderWay(d)'
    <2>1. CASE NodeOf[d] # NodeOf[c]
      BY <1>2, <2>1, SentWire DEF BeatUnderWay
    <2>2. CASE NodeOf[d] = NodeOf[c]
      <3>1. PICK i \in 1 .. Len(wire[NodeOf[c]]) : wire[NodeOf[c]][i] = <<"beat", d>>
        BY <1>2, <2>2 DEF BeatUnderWay
      <3>2. wire'[NodeOf[c]][i] = <<"beat", d>>
        BY <3>1, SentWire
      <3>3. i \in 1 .. Len(wire'[NodeOf[c]])
        <4>1. Len(wire'[NodeOf[c]]) = Len(wire[NodeOf[c]]) + 1
          BY SentWire
        <4> QED
          BY <1>1, <4>1
      <3> QED
        BY <2>2, <3>2, <3>3 DEF BeatUnderWay
    <2> QED
      BY <2>1, <2>2
  <1>3. Len(wire[NodeOf[c]]) + 1 \in 1 .. Len(wire'[NodeOf[c]])
    BY <1>1, SentWire
  <1> QED
    BY <1>2, <1>3, SentWire DEF BeatUnderWay

-----------------------------------------------------------------------------
(* The steps *)

\* A handler subscribes, unsubscribes or closes.
LEMMA HandlerInv ==
    ASSUME PresenceInv, NEW c \in Conns, Subscribe(c) \/ Unsubscribe(c) \/ Disconnect(c)
    PROVE  PresenceInv'
  <1> USE DEF Subscribe, Unsubscribe, Disconnect, DropHandle
  <1>0. /\ PresenceTypeOK /\ Beats /\ Fresh /\ Quiet
        /\ {"put", "delete"} \subseteq Ops
    BY DEF PresenceInv, Ops
  <1>1. PresenceTypeOK'
    <2>1. wire' \in [Nodes -> Seq(Ops \X Conns)]
      BY <1>0, SentWire
    <2>2. doing' \in [Conns -> {"idle", "subscribing", "subscribed", "unsubscribing", "closing"}]
      BY <1>0 DEF PresenceTypeOK, Now
    <2>3. beating' \subseteq Conns /\ quietFor' \in Nat
      BY <1>0 DEF PresenceTypeOK
    <2> QED
      BY <1>0, <2>1, <2>2, <2>3 DEF PresenceTypeOK
  <1>2. Beats'
    BY <1>0 DEF Beats, Now, PresenceTypeOK
  <1>3. AwaitedOnce'
    BY <1>0, AwaitedSend
  <1>4. Fresh'
    <2>1. \A d \in Conns : BeatUnderWay(d) => BeatUnderWay(d)'
      BY <1>0, BeatSent
    <2>2. beating' \subseteq beating /\ beating \subseteq Conns
      BY <1>0 DEF PresenceTypeOK
    <2> QED
      BY <1>0, <2>1, <2>2 DEF Fresh
  <1>5. Quiet'
    BY <1>0 DEF Quiet, PresenceTypeOK
  <1> QED
    BY <1>1, <1>2, <1>3, <1>4, <1>5 DEF PresenceInv

\* The heartbeat task of c fires.
LEMMA HeartbeatInv == ASSUME PresenceInv, NEW c \in Conns, Heartbeat(c) PROVE PresenceInv'
  <1> USE DEF Heartbeat, Due
  <1>0. PresenceTypeOK /\ Beats /\ Fresh /\ Quiet /\ "beat" \in Ops
    BY DEF PresenceInv, Ops
  <1>1. PresenceTypeOK'
    <2>1. wire' \in [Nodes -> Seq(Ops \X Conns)]
      BY <1>0, SentWire
    <2> QED
      BY <1>0, <2>1 DEF PresenceTypeOK
  <1>2. Beats'
    BY <1>0 DEF Beats
  <1>3. AwaitedOnce'
    <2>1. Now(c, doing[c])
      BY <1>0 DEF Now, PresenceTypeOK
    <2> QED
      BY <1>0, <2>1, AwaitedSend
  <1>4. Fresh'
    <2>1. BeatUnderWay(c)' /\ \A d \in Conns : BeatUnderWay(d) => BeatUnderWay(d)'
      BY <1>0, BeatSent
    <2>2. beating \subseteq Conns /\ \A d \in Conns : d # c => sinceBeat'[d] = sinceBeat[d]
      BY <1>0 DEF PresenceTypeOK
    <2> QED
      BY <1>0, <2>1, <2>2 DEF Fresh
  <1>5. Quiet'
    <2>1. quietFor = 0
      BY <1>0 DEF Beats, Quiet, PresenceTypeOK
    <2> QED
      BY <1>0, <2>1 DEF Quiet
  <1> QED
    BY <1>1, <1>2, <1>3, <1>4, <1>5 DEF PresenceInv

\* A request is answered, with success or an error: its handler goes on.
LEMMA AnsweredInv ==
    ASSUME PresenceInv, NEW n \in Nodes, Answered(n)
    PROVE  /\ wire' \in [Nodes -> Seq(Ops \X Conns)]
           /\ doing' \in [Conns -> {"idle", "subscribing", "subscribed", "unsubscribing", "closing"}]
           /\ beating' \subseteq Conns /\ sinceBeat' \in [Conns -> 0 .. Interval]
           /\ Beats' /\ AwaitedOnce'
           /\ quietFor = 0
  <1> DEFINE op == Head(wire[n])[1]
             c == Head(wire[n])[2]
             L == Len(wire[n])
  <1>0. PresenceTypeOK /\ Beats /\ AwaitedOnce /\ Quiet
    BY DEF PresenceInv
  <1>1. /\ wire' \in [Nodes -> Seq(Ops \X Conns)]
        /\ \A k \in Nodes : k # n => wire'[k] = wire[k]
        /\ L \in Nat \ {0} /\ Len(wire'[n]) = L - 1
        /\ \A i \in 1 .. L - 1 : wire'[n][i] = wire[n][i + 1]
        /\ Head(wire[n]) = wire[n][1]
    BY <1>0, TakenWire
  <1>2. op \in Ops /\ c \in Conns /\ Head(wire[n]) = <<op, c>>
    BY <1>0, TakenWire
  <1>3. Resume(op, c)
    BY DEF Answered
  <1>4. NodeOf[c] = n /\ (op # "beat" => Awaits(Head(wire[n])))
    BY <1>0, <1>1 DEF AwaitedOnce
  <1>5. /\ op = "put" => doing[c] = "subscribing"
        /\ op = "delete" => doing[c] \in {"unsubscribing", "closing"}
    BY <1>4 DEF Awaits
  <1>6. quietFor = 0
    BY <1>0 DEF Quiet, PresenceTypeOK, Answered
  <1>7. /\ doing' \in [Conns -> {"idle", "subscribing", "subscribed", "unsubscribing", "closing"}]
        /\ beating' \subseteq Conns /\ sinceBeat' \in [Conns -> 0 .. Interval]
    <2> HIDE DEF op, c
    <2>1. 0 \in 0 .. Interval
      OBVIOUS
    <2>2. CASE op = "put"
      BY <1>0, <1>2, <1>3, <2>1, <2>2 DEF Resume, Now, PresenceTypeOK
    <2>3. CASE op = "delete"
      BY <1>0, <1>2, <1>3, <2>3 DEF Resume, Now, DropHandle, PresenceTypeOK
    <2>4. CASE op = "beat"
      BY <1>0, <1>3, <2>4 DEF Resume, PresenceTypeOK
    <2> QED
      BY <1>2, <2>2, <2>3, <2>4 DEF Ops
  <1>8. Beats'
    BY <1>0, <1>2, <1>3, <1>5 DEF Resume, Now, DropHandle, PresenceTypeOK, Beats
  <1>9. /\ \A d \in Conns : d # c => doing'[d] = doing[d]
        /\ op = "beat" => doing' = doing
    BY <1>0, <1>2, <1>3 DEF Resume, Now, PresenceTypeOK
  <1>10. ASSUME NEW r \in Ops \X Conns, Awaits(r), op = "beat" \/ r[2] # c PROVE Awaits(r)'
    BY <1>9, <1>10 DEF Awaits
  <1>11. ASSUME NEW k \in Nodes, k # n PROVE \A i \in 1 .. Len(wire[k]) : wire[k][i][2] # c
    BY <1>0, <1>4, <1>11 DEF AwaitedOnce
  <1>12. ASSUME NEW i \in 2 .. L, wire[n][i][1] # "beat", op # "beat" PROVE wire[n][i][2] # c
    <2>1. 1 \in 1 .. Len(wire[n]) /\ i \in 1 .. Len(wire[n]) /\ i # 1
      BY <1>1
    <2>2. wire[n][1] = <<op, c>>
      BY <1>1, <1>2
    <2> HIDE DEF op, c
    <2>3. wire[n][i][2] = wire[n][1][2] /\ wire[n][1][1] # "beat" => 1 = i
      BY <1>0, <1>12, <2>1 DEF AwaitedOnce
    <2> QED
      BY <1>12, <2>1, <2>2, <2>3
  <1>13. AwaitedOnce'
    <2> SUFFICES ASSUME NEW k \in Nodes, NEW i \in 1 .. Len(wire'[k])
                 PROVE  /\ NodeOf[wire'[k][i][2]] = k
                        /\ wire'[k][i][1] # "beat" =>
                             /\ Awaits(wire[k][i])'
                             /\ \A j \in 1 .. Len(wire'[k]) :
                                  wire'[k][j][2] = wire'[k][i][2] /\ wire'[k][j][1] # "beat" => j = i
      BY DEF AwaitedOnce
    <2>1. CASE k # n
      <3>0. wire'[k] = wire[k] /\ wire[k] \in Seq(Ops \X Conns)
        BY <1>0, <1>1, <2>1 DEF PresenceTypeOK
      <3>1. wire'[k] = wire[k] /\ i \in 1 .. Len(wire[k]) /\ wire[k][i] \in Ops \X Conns
        BY <3>0
      <3>2. wire[k][i][1] # "beat" => Awaits(wire[k][i])'
        <4>1. wire[k][i][1] # "beat" => Awaits(wire[k][i])
          BY <1>0, <3>1 DEF AwaitedOnce
        <4>2. wire[k][i][2] # c
          <5> HIDE DEF c
          <5> QED
            BY <1>11, <2>1, <3>1
        <4> QED
          BY <1>10, <3>1, <4>1, <4>2
      <3> QED
        BY <1>0, <3>1, <3>2 DEF AwaitedOnce
    <2>2. CASE k = n
      <3>1. i \in 1 .. L - 1 /\ wire'[n][i] = wire[n][i + 1]
        BY <1>1, <2>2
      <3>2. /\ i + 1 \in 1 .. Len(wire[n]) /\ i + 1 \in 2 .. L
            /\ wire[n][i + 1] \in Ops \X Conns
        BY <1>0, <1>1, <3>1 DEF PresenceTypeOK
      <3>3. NodeOf[wire[n][i + 1][2]] = n
        BY <1>0, <3>2 DEF AwaitedOnce
      <3>4. ASSUME wire[n][i + 1][1] # "beat" PROVE Awaits(wire[n][i])'
        <4>1. Awaits(wire[n][i + 1])
          BY <1>0, <3>2, <3>4 DEF AwaitedOnce
        <4>2. op = "beat" \/ wire[n][i + 1][2] # c
          BY <1>12, <3>2, <3>4
        <4> QED
          BY <1>10, <3>1, <3>2, <4>1, <4>2
      <3>5. ASSUME wire[n][i + 1][1] # "beat", NEW j \in 1 .. L - 1,
                   wire'[n][j][2] = wire[n][i + 1][2], wire'[n][j][1] # "beat"
            PROVE  j = i
        <4>1. j + 1 \in 1 .. Len(wire[n]) /\ wire'[n][j] = wire[n][j + 1]
          BY <1>1
        <4>2. j + 1 = i + 1
          BY <1>0, <3>2, <3>5, <4>1 DEF AwaitedOnce
        <4> QED
          BY <1>1, <3>1, <4>2
      <3> QED
        BY <1>1, <2>2, <3>1, <3>3, <3>4, <3>5
    <2> QED
      BY <2>1, <2>2
  <1> QED
    BY <1>1, <1>6, <1>7, <1>8, <1>13

\* A heartbeat under way stays so when another kind of request is answered.
LEMMA BeatKept ==
    ASSUME PresenceTypeOK, NEW n \in Nodes, Answered(n), Head(wire[n])[1] = "delete",
           NEW d \in Conns, BeatUnderWay(d)
    PROVE  BeatUnderWay(d)'
  <1>1. CASE NodeOf[d] # n
    BY <1>1, TakenWire DEF BeatUnderWay
  <1>2. CASE NodeOf[d] = n
    <2>1. PICK i \in 1 .. Len(wire[n]) : wire[n][i] = <<"beat", d>>
      BY <1>2 DEF BeatUnderWay
    <2>2. /\ Len(wire[n]) \in Nat \ {0} /\ Len(wire'[n]) = Len(wire[n]) - 1
          /\ \A j \in 1 .. Len(wire[n]) - 1 : wire'[n][j] = wire[n][j + 1]
          /\ Head(wire[n]) = wire[n][1]
      BY TakenWire
    <2>3. i # 1
      BY <2>1, <2>2
    <2>4. i - 1 \in 1 .. Len(wire'[n]) /\ wire'[n][i - 1] = wire[n][i]
      BY <2>2, <2>3
    <2> QED
      BY <1>2, <2>1, <2>4 DEF BeatUnderWay
  <1> QED
    BY <1>1, <1>2

\* A request succeeds: the key is as old as that, or gone.
LEMMA ApplyInv == ASSUME PresenceInv, NEW n \in Nodes, Apply(n) PROVE PresenceInv'
  <1> USE DEF Apply
  <1>0. PresenceTypeOK /\ Fresh /\ Answered(n)
    BY DEF PresenceInv
  <1>1. /\ wire' \in [Nodes -> Seq(Ops \X Conns)]
        /\ doing' \in [Conns -> {"idle", "subscribing", "subscribed", "unsubscribing", "closing"}]
        /\ beating' \subseteq Conns /\ sinceBeat' \in [Conns -> 0 .. Interval]
        /\ Beats' /\ AwaitedOnce' /\ quietFor = 0
    BY <1>0, AnsweredInv
  <1>2. PresenceTypeOK'
    <2>1. present' \in BOOLEAN /\ unsure' \in BOOLEAN
      BY <1>0, Zenon DEF PresenceTypeOK
    <2>2. age' \in 0 .. Ttl /\ absentFor' \in Nat /\ quietFor' \in Nat /\ faults' \in 0 .. MaxFaults
      BY <1>0 DEF PresenceTypeOK
    <2> QED
      BY <1>1, <2>1, <2>2 DEF PresenceTypeOK
  <1>3. Fresh'
    <2>1. CASE present'
      BY <1>1, <2>1 DEF Fresh
    <2>2. CASE ~present'
      <3>1. Head(wire[n])[1] = "delete"
        BY <2>2
      <3>2. beating' \subseteq beating /\ sinceBeat' = sinceBeat
        BY <1>0, <3>1 DEF Answered, Resume, DropHandle
      <3>3. \A d \in Conns : BeatUnderWay(d) => BeatUnderWay(d)'
        BY <1>0, <3>1, BeatKept
      <3>4. age' = 0 /\ absentFor' = absentFor /\ unsure' = unsure
        BY <2>2
      <3> QED
        BY <1>0, <1>1, <3>2, <3>3, <3>4 DEF Fresh
    <2> QED
      BY <2>1, <2>2
  <1>4. Quiet'
    BY <1>1 DEF Quiet
  <1> QED
    BY <1>1, <1>2, <1>3, <1>4 DEF PresenceInv

\* A request fails: if it was to put the key, that is remembered.
LEMMA FailInv == ASSUME PresenceInv, NEW n \in Nodes, Fail(n) PROVE PresenceInv'
  <1> USE DEF Fail
  <1>0. PresenceTypeOK /\ Fresh /\ Quiet /\ Answered(n)
    BY DEF PresenceInv
  <1>1. /\ wire' \in [Nodes -> Seq(Ops \X Conns)]
        /\ doing' \in [Conns -> {"idle", "subscribing", "subscribed", "unsubscribing", "closing"}]
        /\ beating' \subseteq Conns /\ sinceBeat' \in [Conns -> 0 .. Interval]
        /\ Beats' /\ AwaitedOnce' /\ quietFor = 0
    BY <1>0, AnsweredInv
  <1>2. PresenceTypeOK'
    <2>1. unsure' \in BOOLEAN
      BY <1>0, Zenon DEF PresenceTypeOK
    <2>2. faults' \in 0 .. MaxFaults
      BY <1>0 DEF PresenceTypeOK
    <2> QED
      BY <1>0, <1>1, <2>1, <2>2 DEF PresenceTypeOK
  <1>3. Fresh'
    <2>1. CASE Head(wire[n])[1] # "delete"
      BY <2>1 DEF Fresh
    <2>2. CASE Head(wire[n])[1] = "delete"
      <3>1. beating' \subseteq beating /\ sinceBeat' = sinceBeat
        BY <1>0, <2>2 DEF Answered, Resume, DropHandle
      <3>2. \A d \in Conns : BeatUnderWay(d) => BeatUnderWay(d)'
        BY <1>0, <2>2, BeatKept
      <3>3. age' = age /\ absentFor' = absentFor /\ (unsure => unsure')
        OBVIOUS
      <3> QED
        BY <1>0, <1>1, <3>1, <3>2, <3>3 DEF Fresh
    <2> QED
      BY <2>1, <2>2
  <1>4. Quiet'
    BY <1>0, <1>1 DEF Quiet
  <1> QED
    BY <1>1, <1>2, <1>3, <1>4 DEF PresenceInv

\* A node dies: its handlers, tasks and requests are gone together.
LEMMA CrashInv == ASSUME PresenceInv, NEW n \in Nodes, Crash(n) PROVE PresenceInv'
  <1> USE DEF Crash
  <1>0. PresenceTypeOK /\ Beats /\ AwaitedOnce /\ Fresh /\ Quiet
    BY DEF PresenceInv
  <1>1. /\ wire'[n] = <<>> /\ \A k \in Nodes : k # n => wire'[k] = wire[k]
        /\ \A c \in Conns : doing'[c] = IF NodeOf[c] = n THEN "idle" ELSE doing[c]
    BY <1>0 DEF PresenceTypeOK
  <1>2. PresenceTypeOK'
    <2>1. faults' \in 0 .. MaxFaults /\ wire' \in [Nodes -> Seq(Ops \X Conns)]
      BY <1>0 DEF PresenceTypeOK
    <2> QED
      BY <1>0, <2>1 DEF PresenceTypeOK
  <1>3. Beats'
    BY <1>0, <1>1 DEF Beats
  <1>4. AwaitedOnce'
    <2> SUFFICES ASSUME NEW k \in Nodes, NEW i \in 1 .. Len(wire'[k])
                 PROVE  /\ NodeOf[wire'[k][i][2]] = k
                        /\ wire'[k][i][1] # "beat" =>
                             /\ Awaits(wire[k][i])'
                             /\ \A j \in 1 .. Len(wire'[k]) :
                                  wire'[k][j][2] = wire'[k][i][2] /\ wire'[k][j][1] # "beat" => j = i
      BY DEF AwaitedOnce
    <2>1. k # n
      BY <1>1
    <2>2. wire'[k] = wire[k] /\ wire[k] \in Seq(Ops \X Conns)
      BY <1>0, <1>1, <2>1 DEF PresenceTypeOK
    <2>3. i \in 1 .. Len(wire[k]) /\ wire[k][i] \in Ops \X Conns /\ NodeOf[wire[k][i][2]] = k
      BY <1>0, <2>2 DEF AwaitedOnce
    <2>4. doing'[wire[k][i][2]] = doing[wire[k][i][2]]
      BY <1>1, <2>1, <2>3
    <2>5. wire[k][i][1] # "beat" => Awaits(wire[k][i])'
      BY <1>0, <2>2, <2>3, <2>4 DEF AwaitedOnce, Awaits
    <2> QED
      BY <1>0, <2>2, <2>3, <2>5 DEF AwaitedOnce
  <1>5. Fresh'
    <2>1. ASSUME NEW c \in beating', BeatUnderWay(c) PROVE BeatUnderWay(c)'
      BY <1>0, <1>1, <2>1 DEF BeatUnderWay, PresenceTypeOK
    <2> QED
      BY <1>0, <2>1 DEF Fresh
  <1>6. Quiet'
    BY <1>0, <1>1 DEF Quiet
  <1> QED
    BY <1>2, <1>3, <1>4, <1>5, <1>6 DEF PresenceInv

\* Time passes: with no request under way, every heartbeat is younger than the
\* interval, and so is the key unless a put has failed.
LEMMA TickInv == ASSUME PresenceInv, Tick PROVE PresenceInv'
  <1> USE DEF Tick, Due
  <1>0. PresenceTypeOK /\ Beats /\ AwaitedOnce /\ Fresh /\ Quiet
    BY DEF PresenceInv
  <1>1. \A c \in beating : /\ c \in Conns /\ ~BeatUnderWay(c)
                           /\ sinceBeat[c] \in Nat /\ sinceBeat[c] < Interval
                           /\ sinceBeat'[c] = sinceBeat[c] + 1
    BY <1>0 DEF PresenceTypeOK, BeatUnderWay
  <1>2. present' => present /\ age + 1 < Ttl /\ age' = age + 1
    <2>1. present' => present /\ age + 1 < Ttl
      BY Zenon
    <2> QED
      BY <2>1
  <1>3. /\ age' <= age + 1 /\ age' \in 0 .. Ttl
        /\ absentFor' <= absentFor + 1 /\ absentFor' \in Nat /\ quietFor' \in Nat
        /\ quietFor' <= quietFor + 1
    <2>1. absentFor' \in {0, absentFor, absentFor + 1} /\ quietFor' \in {0, quietFor, quietFor + 1}
      BY DEF Upto
    <2>2. (age' = age + 1 /\ age + 1 < Ttl) \/ age' = 0
      BY <1>2
    <2> QED
      BY <1>0, <2>1, <2>2 DEF PresenceTypeOK
  <1>4. PresenceTypeOK'
    <2>1. sinceBeat' \in [Conns -> 0 .. Interval]
      BY <1>0, <1>1 DEF PresenceTypeOK
    <2>2. present' \in BOOLEAN
      BY <1>0, Zenon DEF PresenceTypeOK
    <2> QED
      BY <1>0, <1>3, <2>1, <2>2 DEF PresenceTypeOK
  <1>5. Beats' /\ AwaitedOnce'
    BY <1>0 DEF Beats, AwaitedOnce, Awaits
  <1>6. Fresh'
    <2> SUFFICES ASSUME ~unsure, NEW c \in beating
                 PROVE  age' <= sinceBeat'[c] /\ absentFor' <= sinceBeat'[c] /\ absentFor' <= Interval
      BY DEF Fresh
    <2>1. age <= sinceBeat[c] /\ absentFor <= sinceBeat[c]
      BY <1>0, <1>1 DEF Fresh
    <2>2. age \in Nat /\ absentFor \in Nat
      BY <1>0 DEF PresenceTypeOK
    <2> HIDE DEF Tick
    <2> QED
      BY <1>1, <1>3, <2>1, <2>2
  <1>7. Quiet'
    <2>1. present' => age' < Ttl /\ quietFor' <= age'
      BY <1>0, <1>3, <1>2 DEF Quiet, PresenceTypeOK
    <2>2. quietFor' > 0 => \A c \in Conns : doing[c] = "idle"
      OBVIOUS
    <2> QED
      BY <2>1, <2>2 DEF Quiet
  <1> QED
    BY <1>4, <1>5, <1>6, <1>7 DEF PresenceInv

-----------------------------------------------------------------------------
(* Theorems *)

\* The inductive invariant holds in every reachable state, whatever requests
\* fail, nodes crash, and connections share the key.
THEOREM PresenceInvariance == PresenceSpec => []PresenceInv
  <1>1. PresenceInit => PresenceInv
    <2> SUFFICES ASSUME PresenceInit PROVE PresenceInv
      OBVIOUS
    <2>1. PresenceTypeOK
      <3>1. <<>> \in Seq(Ops \X Conns) /\ 0 \in 0 .. Interval /\ 0 \in 0 .. Ttl /\ 0 \in 0 .. MaxFaults
        OBVIOUS
      <3> QED
        BY <3>1 DEF PresenceInit, PresenceTypeOK
    <2>2. Beats /\ AwaitedOnce /\ Fresh /\ Quiet
      BY DEF PresenceInit, Beats, AwaitedOnce, Fresh, Quiet
    <2> QED
      BY <2>1, <2>2 DEF PresenceInv
  <1>2. PresenceInv /\ [PresenceNext]_presenceVars => PresenceInv'
    <2>1. ASSUME PresenceInv, UNCHANGED presenceVars PROVE PresenceInv'
      <3>1. PresenceTypeOK'
        BY <2>1 DEF presenceVars, PresenceInv, PresenceTypeOK
      <3>2. Beats' /\ AwaitedOnce'
        BY <2>1 DEF presenceVars, PresenceInv, Beats, AwaitedOnce, Awaits
      <3>3. Fresh' /\ Quiet'
        BY <2>1 DEF presenceVars, PresenceInv, Fresh, BeatUnderWay, Quiet
      <3> QED
        BY <3>1, <3>2, <3>3 DEF PresenceInv
    <2> QED
      BY <2>1, HandlerInv, HeartbeatInv, ApplyInv, FailInv, CrashInv, TickInv DEF PresenceNext
  <1> QED
    BY <1>1, <1>2, PTL DEF PresenceSpec

\* A key deleted under a subscribed connection is back within the interval of
\* its heartbeat, unless a put has failed.
THEOREM Healing == PresenceSpec => []AbsenceHeals
  <1>1. PresenceInv => AbsenceHeals
    BY DEF PresenceInv, Beats, Fresh, AbsenceHeals, Subscribed
  <1> QED
    BY <1>1, PresenceInvariance, PTL

\* No presence outlives the user's last connection by the TTL.
THEOREM GhostsExpire == PresenceSpec => []GhostExpires
  <1>1. PresenceInv => GhostExpires
    BY DEF PresenceInv, PresenceTypeOK, Quiet, GhostExpires
  <1> QED
    BY <1>1, PresenceInvariance, PTL

\* The key does not expire under a subscribed connection, unless a put has
\* failed: HEARTBEAT_INTERVAL_SECS below PRESENCE_TTL_SECS is all it takes.
THEOREM NeverLapses == PresenceSpec => NoLapse
  <1>1. PresenceInv /\ [PresenceNext]_presenceVars
          => [Tick /\ present /\ ~present' => ~Subscribed \/ unsure]_presenceVars
    <2> SUFFICES ASSUME PresenceInv, Tick, present, ~present', ~unsure,
                        NEW c \in Conns, doing[c] = "subscribed"
                 PROVE  FALSE
      BY DEF Subscribed
    <2>1. c \in beating /\ ~BeatUnderWay(c) /\ sinceBeat[c] < Interval
      BY DEF PresenceInv, Beats, PresenceTypeOK, Tick, Due, BeatUnderWay
    <2>2. age <= sinceBeat[c]
      BY <2>1 DEF PresenceInv, Fresh
    <2>3. age \in Nat /\ sinceBeat[c] \in Nat
      BY DEF PresenceInv, PresenceTypeOK
    <2>4. age + 1 < Ttl
      BY <2>1, <2>2, <2>3
    <2> QED
      BY <2>4, Zenon DEF Tick
  <1> QED
    BY <1>1, PresenceInvariance, PTL DEF PresenceSpec, NoLapse
=============================================================================
