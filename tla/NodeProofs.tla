----------------------------- MODULE NodeProofs -----------------------------
(***************************************************************************)
(* Theorems about Node for any binds, connections, addresses and clones.   *)
(***************************************************************************)
EXTENDS Node, FiniteSetTheorems, TLAPS

-----------------------------------------------------------------------------
(* Types and the end of the stream.                                        *)

\* The invariant of the first two theorems: a bind that is pending has no
\* task, and recv returns None only after new returned.
StreamInv ==
    /\ TypeOK
    /\ new = "binding" => inbound = "open"
    /\ inbound = "drained" => new = "ok"
    /\ \A b \in Binds : bind[b] = "pending" => task[b] = "none"
    /\ DrainedForGood

\* The state in which new starts (node.rs, 71-138).
LEMMA StreamInit == Init => StreamInv
<1> SUFFICES ASSUME Init PROVE StreamInv
  OBVIOUS
<1>1. addrs \in [Binds -> 0 .. MaxAddrs]
  BY BoundsAssumption DEF Init
<1>2. clones \in 0 .. MaxClones
  BY BoundsAssumption DEF Init
<1>3. took \in [Binds -> Seq(Conns)] /\ got \in Seq(Conns)
  BY DEF Init
<1>4. TypeOK
  BY <1>1, <1>2, <1>3 DEF Init, TypeOK
<1> QED
  BY <1>4 DEF Init, StreamInv, DrainedForGood

\* A failing new drops the receiver, and with it what is in the channel
\* (node.rs, 140-141).
LEMMA NewFailsKeeps ==
    ASSUME StreamInv, NEW b \in Binds, NewFails(b), bind[b] = "pending",
           UNCHANGED task \/ task' = [task EXCEPT ![b] = "taking"]
    PROVE  StreamInv'
<1> USE ConnsAssumption DEF StreamInv, NewFails, Close, owner
<1>1. TypeOK'
  BY DEF TypeOK
<1> QED
  BY <1>1 DEF TypeOK, DrainedForGood

\* A task that leaves its hand empty, or drops what is in it, ends or goes on
\* (node.rs, 291-298; util.rs, 58-75).
LEMMA LetGoKeeps ==
    ASSUME StreamInv, NEW b \in Binds, task[b] \in {"taking", "sending"}, LetGo(b),
           task' \in {[task EXCEPT ![b] = "ended"], [task EXCEPT ![b] = "taking"]},
           conn' \in [Conns -> {"outside", "held", "queued", "taken", "open", "closed"}],
           slot' \in Conns \cup {None}, UNCHANGED <<startup, took, inbound, got, owner>>
    PROVE  StreamInv'
<1> USE ConnsAssumption DEF StreamInv, LetGo, startup, owner
<1>1. TypeOK'
  BY DEF TypeOK
<1>2. inbound # "drained"
  BY DEF DrainedForGood
<1> QED
  BY <1>1, <1>2 DEF TypeOK, DrainedForGood

\* Every step keeps the invariant.
LEMMA StreamNext == StreamInv /\ [Next]_vars => StreamInv'
<1> SUFFICES ASSUME StreamInv, [Next]_vars PROVE StreamInv'
  OBVIOUS
<1> USE ConnsAssumption, BoundsAssumption
    DEF StreamInv, TypeOK, DrainedForGood, startup, channel, tasks, owner
<1>1. ASSUME NEW b \in Binds, BindOk(b) PROVE StreamInv'
  BY <1>1 DEF BindOk
<1>2. ASSUME NEW b \in Binds, RelayAddrFails(b) PROVE StreamInv'
  BY <1>2 DEF RelayAddrFails
<1>3. ASSUME NEW b \in Binds, BindFails(b) \/ BindPanics(b) PROVE StreamInv'
  BY <1>3, NewFailsKeeps DEF BindFails, BindPanics
<1>4. ASSUME NEW b \in Binds, NEW c \in Conns, Take(b, c) PROVE StreamInv'
  BY <1>4 DEF Take
<1>5. ASSUME NEW b \in Binds, ControlEnds(b) PROVE StreamInv'
  BY <1>5 DEF ControlEnds
<1>6. ASSUME NEW b \in Binds, Send(b) PROVE StreamInv'
  <2>1. /\ slot' \in Conns \cup {None}
        /\ conn' \in [Conns -> {"outside", "held", "queued", "taken", "open", "closed"}]
    BY <1>6 DEF Send
  <2> QED
    BY <1>6, <2>1, LetGoKeeps DEF Send
<1>7. ASSUME NEW b \in Binds, SendFails(b) \/ Cancel(b) PROVE StreamInv'
  <2>1. conn' \in [Conns -> {"outside", "held", "queued", "taken", "open", "closed"}]
    BY <1>7 DEF SendFails, Cancel, Close
  <2> QED
    BY <1>7, <2>1, LetGoKeeps DEF SendFails, Cancel, AfterFailedSend, Cancellable
<1>8. CASE NewOk
  BY <1>8 DEF NewOk
<1>9. CASE Recv
  BY <1>9 DEF Recv
<1>10. CASE RecvNone
  BY <1>10 DEF RecvNone, HasSender
<1>11. CASE DropInbound
  BY <1>11 DEF DropInbound, Close
<1>12. CASE CloneNode \/ DropNode
  <2>1. clones' \in 0 .. MaxClones
    BY <1>12 DEF CloneNode, DropNode
  <2>2. term' = term \/ term' = TRUE
    BY <1>12 DEF CloneNode, DropNode
  <2>3. UNCHANGED <<startup, tasks, channel, conn, got>>
    BY <1>12 DEF CloneNode, DropNode
  <2> QED
    BY <2>1, <2>2, <2>3
<1>13. ASSUME NEW c \in Conns, Accept(c) PROVE StreamInv'
  BY <1>13 DEF Accept
<1>14. CASE UNCHANGED vars
  BY <1>14 DEF vars
<1> QED
  BY <1>1, <1>2, <1>3, <1>4, <1>5, <1>6, <1>7, <1>8, <1>9, <1>10, <1>11, <1>12,
     <1>13, <1>14 DEF Next

\* Types are right in every state of the node, and a task has a connection in
\* hand exactly while it sends (node.rs, 55-60, 267-301, 362-412).
THEOREM NodeTypeOK == Spec => []TypeOK
  BY StreamInit, StreamNext, PTL DEF Spec, StreamInv

\* When recv has returned None nothing can arrive any more, for any number of
\* binds that fail, end or are cancelled in any order (node.rs, 37-43).
THEOREM NodeDrainedForGood == Spec => []DrainedForGood
  BY StreamInit, StreamNext, PTL DEF Spec, StreamInv

-----------------------------------------------------------------------------
(* What is lost is bounded.                                                *)

\* Every connection that the node took and the application did not get is
\* that of the channel, x, or the last one of a task, f[b], which has had no
\* other since; what a bind took is not outside any more.
AccountedBy(x, f) ==
    /\ inbound # "dropped" => x = slot
    /\ \A b \in Binds : task[b] = "sending" => f[b] = hand[b]
    /\ \A b \in Binds : task[b] \in {"none", "taking"} => f[b] = None
    /\ \A b \in Binds : f[b] # None => conn[f[b]] # "outside"
    /\ \A b \in Binds : \A i \in DOMAIN took[b] : conn[took[b][i]] # "outside"
    /\ Swallowed \subseteq {x} \cup {f[b] : b \in Binds}
    /\ \A b \in Binds : SwallowedOf(b) \subseteq {x, f[b]}

SwallowInv ==
    \E x \in Conns \cup {None}, f \in [Binds -> Conns \cup {None}] : AccountedBy(x, f)

\* Every step keeps it: a step that takes a connection accounts for it, and
\* no other step adds one (node.rs, 140-157, 267-298, 362-409).
LEMMA SwallowNext == StreamInv /\ SwallowInv /\ [Next]_vars => SwallowInv'
<1> SUFFICES ASSUME StreamInv, [Next]_vars,
                    NEW x \in Conns \cup {None}, NEW f \in [Binds -> Conns \cup {None}],
                    AccountedBy(x, f)
             PROVE  SwallowInv'
  BY DEF SwallowInv
<1> USE ConnsAssumption DEF StreamInv, TypeOK, startup, channel, tasks, owner
\* The steps that take no connection, leave the channel alone, and leave f so.
<1>a. ASSUME UNCHANGED <<slot, inbound, got, took>>,
             \A b \in Binds : task'[b] = "sending" => task[b] = "sending" /\ hand'[b] = hand[b],
             \A b \in Binds : task'[b] \in {"none", "taking"} => task[b] \in {"none", "taking"},
             \A c \in Conns : conn'[c] # "outside" <=> conn[c] # "outside"
      PROVE  SwallowInv'
  <2>1. Swallowed' = Swallowed /\ \A b \in Binds : SwallowedOf(b)' = SwallowedOf(b)
    BY <1>a DEF Swallowed, SwallowedOf
  <2>2. AccountedBy(x, f)'
    BY <1>a, <2>1 DEF AccountedBy
  <2> QED
    BY <2>2 DEF SwallowInv
\* Those after which nothing can be received.
<1>b. ASSUME inbound # "dropped", inbound' = "dropped", Close({slot}), UNCHANGED <<hand, got, took>>,
             \A b \in Binds : task'[b] \in {task[b], "taking"},
             \A b \in Binds : task'[b] # task[b] => task[b] = "none"
      PROVE  SwallowInv'
  <2>1. Swallowed' \subseteq Swallowed \cup {x}
    BY <1>b DEF AccountedBy, Swallowed, Close
  <2>2. \A c \in Conns : conn[c] # "outside" => conn'[c] # "outside"
    BY <1>b DEF Close
  <2>3. \A b \in Binds : SwallowedOf(b)' \subseteq SwallowedOf(b) \cup {x}
    BY <1>b, <2>1 DEF SwallowedOf
  <2>4. \A b \in Binds : \A i \in DOMAIN took[b] : took[b][i] \in Conns
    OBVIOUS
  <2>5. AccountedBy(x, f)'
    BY <1>b, <2>1, <2>2, <2>3, <2>4 DEF AccountedBy
  <2> QED
    BY <2>5 DEF SwallowInv
<1>1. ASSUME NEW b \in Binds, BindOk(b) \/ RelayAddrFails(b) \/ ControlEnds(b) PROVE SwallowInv'
  BY <1>1, <1>a DEF BindOk, RelayAddrFails, ControlEnds
<1>2. ASSUME NEW b \in Binds, BindFails(b) \/ BindPanics(b) PROVE SwallowInv'
  BY <1>2, <1>b DEF BindFails, BindPanics, NewFails, owner
<1>3. ASSUME NEW b \in Binds, NEW c \in Conns, Take(b, c) PROVE SwallowInv'
  <2> DEFINE g == [f EXCEPT ![b] = c]
  <2>1. Swallowed' \subseteq Swallowed \cup {c}
    BY <1>3 DEF Take, Swallowed
  <2>2. f[b] = None /\ None \notin Swallowed
    BY <1>3 DEF Take, AccountedBy, Swallowed
  <2>3. Swallowed' \subseteq {x} \cup {g[d] : d \in Binds}
    BY <2>1, <2>2 DEF AccountedBy
  <2>4. /\ \A d \in Binds : d # b => took'[d] = took[d]
        /\ took'[b] = Append(took[b], c)
        /\ \A d \in Conns : conn'[d] # "outside" <=> d = c \/ conn[d] # "outside"
    BY <1>3 DEF Take
  <2>5. \A i \in DOMAIN took'[b] : took'[b][i] = c \/ \E j \in DOMAIN took[b] : took'[b][i] = took[b][j]
    BY <2>4
  <2>6. \A d \in Binds : d # b => SwallowedOf(d)' \subseteq SwallowedOf(d)
    <3> SUFFICES ASSUME NEW d \in Binds, d # b, NEW e \in SwallowedOf(d)'
                 PROVE  e \in SwallowedOf(d)
      OBVIOUS
    <3>1. e # c
      BY <1>3, <2>4 DEF SwallowedOf, AccountedBy, Take
    <3> QED
      BY <2>1, <2>4, <3>1 DEF SwallowedOf
  <2>7. SwallowedOf(b)' \subseteq SwallowedOf(b) \cup {c}
    BY <2>1, <2>5 DEF SwallowedOf
  <2>8. \A d \in Binds : SwallowedOf(d)' \subseteq {x, g[d]}
    <3>1. None \notin SwallowedOf(b)
      BY <2>2 DEF SwallowedOf
    <3> QED
      BY <2>2, <2>6, <2>7, <3>1 DEF AccountedBy
  <2>9. \A d \in Binds : \A i \in DOMAIN took'[d] : conn'[took'[d][i]] # "outside"
    <3>1. \A d \in Binds : \A i \in DOMAIN took[d] : took[d][i] \in Conns
      OBVIOUS
    <3>2. \A d \in Binds : \A i \in DOMAIN took[d] : conn'[took[d][i]] # "outside"
      BY <2>4, <3>1 DEF AccountedBy
    <3>3. ASSUME NEW d \in Binds, NEW i \in DOMAIN took'[d]
          PROVE  conn'[took'[d][i]] # "outside"
      <4>1. CASE d # b
        BY <2>4, <3>2, <4>1
      <4>2. CASE d = b
        <5>1. took'[b][i] = c \/ \E j \in DOMAIN took[b] : took'[b][i] = took[b][j]
          BY <2>5, <4>2
        <5>2. conn'[c] # "outside"
          BY <2>4
        <5> QED
          BY <3>2, <4>2, <5>1, <5>2
      <4> QED
        BY <4>1, <4>2
    <3> QED
      BY <3>3
  <2>10. /\ \A d \in Binds : task'[d] = "sending" => g[d] = hand'[d]
         /\ \A d \in Binds : task'[d] \in {"none", "taking"} => g[d] = None
         /\ inbound' # "dropped" => x = slot'
    BY <1>3 DEF Take, AccountedBy
  <2>11. \A d \in Binds : g[d] # None => conn'[g[d]] # "outside"
    BY <2>4 DEF AccountedBy
  <2>12. AccountedBy(x, g)'
    BY <2>3, <2>8, <2>9, <2>10, <2>11 DEF AccountedBy
  <2> QED
    BY <2>12 DEF SwallowInv
<1>4. ASSUME NEW b \in Binds, Send(b) PROVE SwallowInv'
  <2> DEFINE g == [f EXCEPT ![b] = None]
  <2>0. PICK h \in Conns : h = hand[b]
    BY <1>4 DEF Send
  <2>1. x = None /\ f[b] = h /\ conn[h] # "outside"
    BY <1>4, <2>0 DEF Send, SlotFree, AccountedBy
  <2>2. /\ \A c \in Conns : conn'[c] # "outside" <=> conn[c] # "outside"
        /\ UNCHANGED <<took, got, inbound>> /\ slot' = h
    BY <1>4, <2>0, <2>1 DEF Send
  <2>3. /\ Swallowed' = Swallowed /\ None \notin Swallowed
        /\ \A d \in Binds : SwallowedOf(d)' = SwallowedOf(d) /\ None \notin SwallowedOf(d)
    BY <2>2 DEF Swallowed, SwallowedOf
  <2>4. Swallowed' \subseteq {h} \cup {g[d] : d \in Binds}
    BY <2>1, <2>3 DEF AccountedBy
  <2>5. \A d \in Binds : SwallowedOf(d)' \subseteq {h, g[d]}
    BY <2>1, <2>3 DEF AccountedBy
  <2>6. /\ \A d \in Binds : task'[d] = "sending" => g[d] = hand'[d]
        /\ \A d \in Binds : task'[d] \in {"none", "taking"} => g[d] = None
    BY <1>4, <2>0 DEF Send, LetGo, AccountedBy
  <2>7. /\ \A d \in Binds : g[d] # None => conn'[g[d]] # "outside"
        /\ \A d \in Binds : \A i \in DOMAIN took'[d] : conn'[took'[d][i]] # "outside"
    <3>1. \A d \in Binds : \A i \in DOMAIN took[d] : took[d][i] \in Conns
      OBVIOUS
    <3> QED
      BY <2>2, <3>1 DEF AccountedBy
  <2>8. AccountedBy(h, g)'
    BY <2>2, <2>4, <2>5, <2>6, <2>7 DEF AccountedBy
  <2> QED
    BY <2>1, <2>8 DEF SwallowInv
<1>5. ASSUME NEW b \in Binds, SendFails(b) \/ Cancel(b) PROVE SwallowInv'
  <2>1. hand[b] = None \/ (hand[b] = f[b] /\ conn[hand[b]] # "outside")
    BY DEF AccountedBy
  <2>2. \A c \in Conns : conn'[c] # "outside" <=> conn[c] # "outside"
    BY <1>5, <2>1 DEF SendFails, Cancel, Close
  <2> QED
    BY <1>5, <1>a, <2>2 DEF SendFails, Cancel, Cancellable, LetGo, AfterFailedSend
<1>6. CASE Recv
  <2>1. slot \in Conns /\ x = slot
    BY <1>6 DEF Recv, AccountedBy
  <2>2. Swallowed' \subseteq Swallowed \ {slot}
    <3>1. \A i \in DOMAIN got : i \in DOMAIN got' /\ got'[i] = got[i]
      BY <1>6 DEF Recv
    <3>2. Len(got) + 1 \in DOMAIN got' /\ got'[Len(got) + 1] = slot
      BY <1>6, <2>1 DEF Recv
    <3>3. \A c \in Conns : c # slot => conn'[c] = conn[c]
      BY <1>6 DEF Recv
    <3> QED
      BY <3>1, <3>2, <3>3 DEF Swallowed
  <2>3. UNCHANGED <<took, task, hand, inbound>> /\ slot' = None
    BY <1>6 DEF Recv
  <2>4. \A b \in Binds : SwallowedOf(b)' \subseteq SwallowedOf(b) \ {slot}
    BY <2>2, <2>3 DEF SwallowedOf
  <2>5. \A c \in Conns : conn[c] # "outside" => conn'[c] # "outside"
    BY <1>6 DEF Recv
  <2>6. \A b \in Binds : \A i \in DOMAIN took[b] : took[b][i] \in Conns
    OBVIOUS
  <2>7. AccountedBy(None, f)'
    BY <2>1, <2>2, <2>3, <2>4, <2>5, <2>6 DEF AccountedBy
  <2> QED
    BY <2>7 DEF SwallowInv
<1>7. CASE RecvNone
  <2>1. UNCHANGED <<took, task, hand, slot, conn, got>> /\ inbound # "dropped"
    BY <1>7 DEF RecvNone
  <2>2. Swallowed' = Swallowed /\ \A b \in Binds : SwallowedOf(b)' = SwallowedOf(b)
    BY <2>1 DEF Swallowed, SwallowedOf
  <2>3. AccountedBy(x, f)'
    BY <2>1, <2>2 DEF AccountedBy
  <2> QED
    BY <2>3 DEF SwallowInv
<1>8. CASE DropInbound
  BY <1>8, <1>b DEF DropInbound
<1>9. CASE NewOk \/ CloneNode \/ DropNode
  BY <1>9, <1>a DEF NewOk, CloneNode, DropNode
<1>10. ASSUME NEW c \in Conns, Accept(c) PROVE SwallowInv'
  BY <1>10, <1>a DEF Accept
<1>11. CASE UNCHANGED vars
  BY <1>11, <1>a DEF vars
<1> QED
  BY <1>1, <1>2, <1>3, <1>4, <1>5, <1>6, <1>7, <1>8, <1>9, <1>10, <1>11 DEF Next

\* At most two are accounted for of a bind.
LEMMA SwallowedOfCounts ==
    ASSUME NEW x, NEW f, AccountedBy(x, f), NEW b \in Binds
    PROVE  Cardinality(SwallowedOf(b)) <= 2
<1> DEFINE y == f[b]
<1>1. IsFiniteSet({x}) /\ Cardinality({x}) = 1
  BY FS_Singleton
<1>2. /\ IsFiniteSet({x} \cup {y})
      /\ Cardinality({x} \cup {y}) = IF y \in {x} THEN 1 ELSE 1 + 1
  BY <1>1, FS_AddElement
<1>3. SwallowedOf(b) \in SUBSET ({x} \cup {y})
  BY DEF AccountedBy
<1>4. /\ IsFiniteSet(SwallowedOf(b))
      /\ Cardinality(SwallowedOf(b)) <= Cardinality({x} \cup {y})
  BY <1>2, <1>3, FS_Subset
<1>5. Cardinality(SwallowedOf(b)) \in Nat
  BY <1>4, FS_CardinalityType
<1> HIDE DEF y
<1> QED
  BY <1>2, <1>4, <1>5

\* The inductive invariant counts.
LEMMA SwallowCounts == SwallowInv => SwallowedBounded
<1> SUFFICES ASSUME NEW x \in Conns \cup {None}, NEW f \in [Binds -> Conns \cup {None}],
                    AccountedBy(x, f)
             PROVE  SwallowedBounded
  BY DEF SwallowInv
<1> DEFINE F == {f[b] : b \in Binds}
<1>1. f \in Surjection(Binds, F)
  BY DEF Surjection
<1>2. IsFiniteSet(F) /\ Cardinality(F) <= Cardinality(Binds)
  BY <1>1, BindsAssumption, FS_Surjection
<1>3. IsFiniteSet(F \cup {x}) /\ Cardinality(F \cup {x}) <= Cardinality(F) + 1
  <2>1. Cardinality(F) \in Nat
    BY <1>2, FS_CardinalityType
  <2>2. /\ IsFiniteSet(F \cup {x})
        /\ Cardinality(F \cup {x}) = IF x \in F THEN Cardinality(F) ELSE Cardinality(F) + 1
    BY <1>2, FS_AddElement
  <2> HIDE DEF F
  <2> QED
    BY <2>1, <2>2
<1>4. Swallowed \in SUBSET (F \cup {x})
  BY DEF AccountedBy
<1>5. Cardinality(Swallowed) <= Cardinality(F \cup {x}) /\ IsFiniteSet(Swallowed)
  BY <1>3, <1>4, FS_Subset
<1>6. /\ Cardinality(Swallowed) \in Nat /\ Cardinality(F) \in Nat
      /\ Cardinality(F \cup {x}) \in Nat /\ Cardinality(Binds) \in Nat
  BY <1>2, <1>3, <1>5, BindsAssumption, FS_CardinalityType
<1>7. Cardinality(Swallowed) <= Cardinality(Binds) + 1
  BY <1>2, <1>3, <1>5, <1>6
<1> QED
  BY <1>7, SwallowedOfCounts DEF SwallowedBounded

\* A node that fails to start, is dropped or is no longer received from takes
\* at most one connection per bind and one more off the network, and at most
\* two for any bind
\* (node.rs, 291-297, 402-408).
THEOREM NodeSwallowedBounded == Spec => []SwallowedBounded
<1>1. Init => SwallowInv
  <2> SUFFICES ASSUME Init PROVE AccountedBy(None, [b \in Binds |-> None])
    BY DEF SwallowInv
  <2> QED
    BY DEF Init, AccountedBy, Swallowed, SwallowedOf
<1> QED
  BY <1>1, StreamInit, StreamNext, SwallowNext, SwallowCounts, PTL DEF Spec
-----------------------------------------------------------------------------
(* Nothing is doubled, skipped or out of order.                            *)

\* What Append leaves alone and adds.
LEMMA AppendFacts ==
    ASSUME NEW S, NEW s \in Seq(S), NEW c \in S
    PROVE  /\ Append(s, c) \in Seq(S) /\ Append(s, c) # <<>>
           /\ Len(Append(s, c)) = Len(s) + 1 /\ Append(s, c)[Len(s) + 1] = c
           /\ \A i \in DOMAIN Append(s, c) :
                 Append(s, c)[i] = c \/ (i \in DOMAIN s /\ Append(s, c)[i] = s[i])
  OBVIOUS

\* What goes into the channel next, after the first n of a bind.
LEMMA FirstOfNext ==
    ASSUME NEW t \in Seq(Conns), NEW n \in 0 .. Len(t), n < Len(t),
           NEW s \in Seq(Conns), FirstOf(t, n, s)
    PROVE  FirstOf(t, n + 1, s \o <<t[n + 1]>>)
<1> DEFINE u == s \o <<t[n + 1]>>
<1>1. PICK at \in [1 .. n -> DOMAIN s] :
        /\ \A i \in 1 .. n : s[at[i]] = t[i]
        /\ \A i, j \in 1 .. n : i < j => at[i] < at[j]
        /\ \A p \in DOMAIN s : (\E k \in DOMAIN t : t[k] = s[p]) => \E i \in 1 .. n : at[i] = p
  BY DEF FirstOf
<1> DEFINE bt == [i \in 1 .. n + 1 |-> IF i = n + 1 THEN Len(s) + 1 ELSE at[i]]
<1>2. /\ DOMAIN u = 1 .. Len(s) + 1 /\ u[Len(s) + 1] = t[n + 1]
      /\ \A p \in DOMAIN s : u[p] = s[p] /\ p \in DOMAIN u
  OBVIOUS
<1> HIDE DEF u
<1>3. /\ bt \in [1 .. n + 1 -> DOMAIN u] /\ bt[n + 1] = Len(s) + 1
      /\ \A i \in 1 .. n : bt[i] = at[i] /\ bt[i] \in 1 .. Len(s)
  BY <1>2
<1>4. \A i \in 1 .. n + 1 : i \in 1 .. n \/ i = n + 1
  OBVIOUS
<1> HIDE DEF bt
<1>5. \A i \in 1 .. n + 1 : u[bt[i]] = t[i]
  BY <1>1, <1>2, <1>3, <1>4
<1>6. \A i, j \in 1 .. n + 1 : i < j => bt[i] < bt[j]
  BY <1>1, <1>3, <1>4
<1>7. \A p \in DOMAIN u : p \in DOMAIN s \/ p = Len(s) + 1
  BY <1>2
<1>8. \A p \in DOMAIN u :
        (\E k \in DOMAIN t : t[k] = u[p]) => \E i \in 1 .. n + 1 : bt[i] = p
  <2> SUFFICES ASSUME NEW p \in DOMAIN u, \E k \in DOMAIN t : t[k] = u[p]
               PROVE  \E i \in 1 .. n + 1 : bt[i] = p
    OBVIOUS
  <2>1. CASE p \in DOMAIN s
    <3>1. PICK i \in 1 .. n : at[i] = p
      BY <1>1, <1>2, <2>1
    <3> QED
      BY <1>3, <3>1
  <2>2. CASE p = Len(s) + 1
    BY <1>3, <2>2
  <2> QED
    BY <1>7, <2>1, <2>2
<1>9. FirstOf(t, n + 1, u)
  BY <1>3, <1>5, <1>6, <1>8 DEF FirstOf
<1> QED
  BY <1>9 DEF u

\* What another bind sends leaves a bind's alone, and so does what the bind
\* has taken since: neither is in both.
LEMMA FirstOfOther ==
    ASSUME NEW t \in Seq(Conns), NEW n \in 0 .. Len(t), NEW s \in Seq(Conns),
           FirstOf(t, n, s), NEW c \in Conns
    PROVE  /\ (\A k \in DOMAIN t : t[k] # c) => FirstOf(t, n, s \o <<c>>)
           /\ (\A p \in DOMAIN s : s[p] # c) => FirstOf(Append(t, c), n, s)
<1>1. PICK at \in [1 .. n -> DOMAIN s] :
        /\ \A i \in 1 .. n : s[at[i]] = t[i]
        /\ \A i, j \in 1 .. n : i < j => at[i] < at[j]
        /\ \A p \in DOMAIN s : (\E k \in DOMAIN t : t[k] = s[p]) => \E i \in 1 .. n : at[i] = p
  BY DEF FirstOf
<1>2. ASSUME \A k \in DOMAIN t : t[k] # c PROVE FirstOf(t, n, s \o <<c>>)
  <2> DEFINE u == s \o <<c>>
  <2>1. /\ DOMAIN u = 1 .. Len(s) + 1 /\ u[Len(s) + 1] = c
        /\ \A p \in DOMAIN s : u[p] = s[p] /\ p \in DOMAIN u
        /\ \A p \in DOMAIN u : p \in DOMAIN s \/ p = Len(s) + 1
    OBVIOUS
  <2> HIDE DEF u
  <2>2. at \in [1 .. n -> DOMAIN u] /\ \A i \in 1 .. n : u[at[i]] = t[i]
    BY <1>1, <2>1
  <2>3. \A p \in DOMAIN u :
          (\E k \in DOMAIN t : t[k] = u[p]) => \E i \in 1 .. n : at[i] = p
    BY <1>1, <1>2, <2>1
  <2>4. FirstOf(t, n, u)
    BY <1>1, <2>2, <2>3 DEF FirstOf
  <2> QED
    BY <2>4 DEF u
<1>3. ASSUME \A p \in DOMAIN s : s[p] # c PROVE FirstOf(Append(t, c), n, s)
  <2> DEFINE u == Append(t, c)
  <2>1. /\ \A k \in DOMAIN u : k \in DOMAIN t \/ u[k] = c
        /\ \A k \in DOMAIN t : u[k] = t[k]
        /\ 1 .. n \subseteq DOMAIN t
    OBVIOUS
  <2> HIDE DEF u
  <2>2. \A i \in 1 .. n : s[at[i]] = u[i]
    BY <1>1, <2>1
  <2>3. \A p \in DOMAIN s :
          (\E k \in DOMAIN u : u[k] = s[p]) => \E i \in 1 .. n : at[i] = p
    BY <1>1, <1>3, <2>1
  <2>4. FirstOf(u, n, s)
    BY <1>1, <2>2, <2>3 DEF FirstOf
  <2> QED
    BY <2>4 DEF u
<1> QED
  BY <1>2, <1>3

\* The receiver is dropped with the connection in the channel.
LEMMA FirstOfPrefix ==
    ASSUME NEW t \in Seq(Conns), NEW n \in 0 .. Len(t), NEW s \in Seq(Conns),
           NEW c \in Conns, FirstOf(t, n, s \o <<c>>)
    PROVE  \E m \in 0 .. n : FirstOf(t, m, s)
<1> DEFINE u == s \o <<c>>
<1>1. PICK at \in [1 .. n -> DOMAIN u] :
        /\ \A i \in 1 .. n : u[at[i]] = t[i]
        /\ \A i, j \in 1 .. n : i < j => at[i] < at[j]
        /\ \A p \in DOMAIN u : (\E k \in DOMAIN t : t[k] = u[p]) => \E i \in 1 .. n : at[i] = p
  BY DEF FirstOf
<1>2. /\ DOMAIN u = 1 .. Len(s) + 1
      /\ \A p \in DOMAIN s : u[p] = s[p] /\ p \in DOMAIN u
  OBVIOUS
<1> HIDE DEF u
<1>3. ASSUME NEW m \in 0 .. n, \A i \in 1 .. m : at[i] \in DOMAIN s,
             \A i \in 1 .. n : at[i] \in DOMAIN s => i \in 1 .. m
      PROVE  FirstOf(t, m, s)
  <2> DEFINE bt == [i \in 1 .. m |-> at[i]]
  <2>1. /\ bt \in [1 .. m -> DOMAIN s] /\ \A i \in 1 .. m : s[bt[i]] = t[i]
        /\ \A i, j \in 1 .. m : i < j => bt[i] < bt[j]
    BY <1>1, <1>2, <1>3
  <2>2. \A p \in DOMAIN s :
          (\E k \in DOMAIN t : t[k] = s[p]) => \E i \in 1 .. m : bt[i] = p
    BY <1>1, <1>2, <1>3
  <2> HIDE DEF bt
  <2> QED
    BY <2>1, <2>2 DEF FirstOf
<1>4. CASE n = 0
  BY <1>3, <1>4
<1>5. CASE n > 0 /\ at[n] = Len(s) + 1
  <2>1. \A i \in 1 .. n - 1 : at[i] \in DOMAIN s
    <3> SUFFICES ASSUME NEW i \in 1 .. n - 1 PROVE at[i] \in DOMAIN s
      OBVIOUS
    <3>1. at[i] < at[n] /\ at[i] \in 1 .. Len(s) + 1
      BY <1>1, <1>2, <1>5
    <3> QED
      BY <1>5, <3>1
  <2>2. n - 1 \in 0 .. n /\ \A i \in 1 .. n : at[i] \in DOMAIN s => i \in 1 .. n - 1
    BY <1>5
  <2>3. FirstOf(t, n - 1, s)
    BY <1>3, <2>1, <2>2
  <2> QED
    BY <2>2, <2>3
<1>6. CASE n > 0 /\ at[n] # Len(s) + 1
  <2>1. \A i \in 1 .. n : at[i] \in DOMAIN s
    <3> SUFFICES ASSUME NEW i \in 1 .. n PROVE at[i] \in DOMAIN s
      OBVIOUS
    <3>1. /\ at[n] \in 1 .. Len(s) + 1 /\ at[i] \in 1 .. Len(s) + 1
          /\ i < n => at[i] < at[n]
      BY <1>1, <1>2, <1>6
    <3> QED
      BY <1>6, <3>1
  <2>2. FirstOf(t, n, s)
    BY <1>3, <2>1
  <2> QED
    BY <2>2
<1> QED
  BY <1>4, <1>5, <1>6

\* A connection is taken by one bind, and only what was taken is sent; a task
\* sends the last one it took.
TakenInv ==
    /\ \A b \in Binds : \A i \in DOMAIN took[b] : conn[took[b][i]] # "outside"
    /\ \A p \in DOMAIN got : conn[got[p]] # "outside"
    /\ slot # None => conn[slot] # "outside"
    /\ \A b, d \in Binds : b # d =>
          \A i \in DOMAIN took[b], j \in DOMAIN took[d] : took[b][i] # took[d][j]
    /\ \A b \in Binds : task[b] = "sending" =>
          took[b] # <<>> /\ hand[b] = took[b][Len(took[b])]

Passed == got \o One(slot)

\* How many of a bind's went into the channel: all, but for the one its task
\* is sending, while they can be received and the task was not cancelled.
PassedOf(b, n) ==
    /\ FirstOf(took[b], n, Passed)
    /\ inbound # "dropped" /\ task[b] \in {"none", "taking"} => n = Len(took[b])
    /\ inbound # "dropped" /\ task[b] = "sending" => n = Len(took[b]) - 1
    /\ inbound # "dropped" /\ task[b] = "ended" /\ ~term => n = Len(took[b])

OrderInv == TakenInv /\ \A b \in Binds : \E n \in 0 .. Len(took[b]) : PassedOf(b, n)

\* A step that takes nothing and passes nothing on keeps the order, if a task
\* that it ends was cancelled or has nothing in hand.
LEMMA OrderKept ==
    ASSUME StreamInv, OrderInv, UNCHANGED <<took, Passed>>,
           inbound' # "dropped" => inbound # "dropped",
           got' = got \/ (slot \in Conns /\ got' = Append(got, slot)),
           slot' = None \/ slot' = slot,
           \A c \in Conns : conn[c] # "outside" => conn'[c] # "outside",
           \A b \in Binds : task'[b] = "sending" => task[b] = "sending" /\ hand'[b] = hand[b],
           \A b \in Binds : task'[b] \in {"none", "taking"} =>
              task[b] \in {"none", "taking"} \/ inbound' = "dropped",
           \A b \in Binds : task'[b] = "ended" => task[b] # "sending" \/ term' \/ inbound' = "dropped",
           term => term'
    PROVE  OrderInv'
<1> USE ConnsAssumption DEF StreamInv, TypeOK
<1>1. TakenInv'
  <2>1. \A b \in Binds : \A i \in DOMAIN took'[b] : conn'[took'[b][i]] # "outside"
    BY DEF OrderInv, TakenInv
  <2>2. \A p \in DOMAIN got' : got'[p] \in Conns /\ conn[got'[p]] # "outside"
    <3>1. CASE got' = got
      BY <3>1 DEF OrderInv, TakenInv
    <3>2. CASE slot \in Conns /\ got' = Append(got, slot)
      <4>1. /\ got \in Seq(Conns) /\ conn[slot] # "outside"
            /\ \A p \in DOMAIN got : conn[got[p]] # "outside"
        BY <3>2 DEF OrderInv, TakenInv
      <4>2. \A p \in DOMAIN got' : got'[p] = slot \/ (p \in DOMAIN got /\ got'[p] = got[p])
        BY <3>2, <4>1
      <4> QED
        BY <3>2, <4>1, <4>2
    <3> QED
      BY <3>1, <3>2
  <2>3. \A p \in DOMAIN got' : conn'[got'[p]] # "outside"
    BY <2>2
  <2>4. slot' # None => conn'[slot'] # "outside"
    BY DEF OrderInv, TakenInv
  <2> QED
    BY <2>1, <2>3, <2>4 DEF OrderInv, TakenInv
<1>2. ASSUME NEW b \in Binds PROVE \E n \in 0 .. Len(took'[b]) : PassedOf(b, n)'
  <2>1. PICK n \in 0 .. Len(took[b]) : PassedOf(b, n)
    BY DEF OrderInv
  <2>2. FirstOf(took[b], n, Passed)' <=> FirstOf(took[b], n, Passed)
    BY DEF FirstOf
  <2>3. PassedOf(b, n)'
    BY <2>1, <2>2 DEF PassedOf
  <2> QED
    BY <2>3
<1> QED
  BY <1>1, <1>2 DEF OrderInv

\* The receiver is dropped, and with it what is in the channel.
LEMMA OrderDropped ==
    ASSUME StreamInv, OrderInv, inbound # "dropped", inbound' = "dropped",
           slot' = None, Close({slot}), UNCHANGED <<got, took, hand>>,
           \A b \in Binds : task'[b] = "sending" => task[b] = "sending"
    PROVE  OrderInv'
<1> USE ConnsAssumption DEF StreamInv, TypeOK
<1>1. \A c \in Conns : conn[c] # "outside" => conn'[c] # "outside"
  BY DEF Close
<1>2. TakenInv'
  <2>1. \A b \in Binds : \A i \in DOMAIN took[b] : took[b][i] \in Conns
    OBVIOUS
  <2>2. \A p \in DOMAIN got : got[p] \in Conns
    OBVIOUS
  <2> QED
    BY <1>1, <2>1, <2>2 DEF OrderInv, TakenInv
<1>3. ASSUME NEW b \in Binds PROVE \E n \in 0 .. Len(took'[b]) : PassedOf(b, n)'
  <2>1. PICK n \in 0 .. Len(took[b]) : FirstOf(took[b], n, Passed)
    BY DEF OrderInv, PassedOf
  <2>2. took[b] \in Seq(Conns) /\ got \in Seq(Conns) /\ took'[b] = took[b]
    OBVIOUS
  <2>3. Passed' = got /\ Passed = IF slot = None THEN got ELSE got \o <<slot>>
    BY DEF Passed, One
  <2>4. \E m \in 0 .. n : FirstOf(took[b], m, got)
    BY <2>1, <2>2, <2>3, FirstOfPrefix
  <2>5. PICK m \in 0 .. n : FirstOf(took[b], m, got)
    BY <2>4
  <2>6. FirstOf(took[b], m, Passed)'
    BY <2>2, <2>3, <2>5
  <2>7. m \in 0 .. Len(took'[b]) /\ PassedOf(b, m)'
    BY <2>2, <2>6 DEF PassedOf
  <2> QED
    BY <2>7
<1> QED
  BY <1>2, <1>3 DEF OrderInv

\* A task takes a connection that was never seen before, so it is nowhere in
\* the channel, and it is the next to be passed on.
LEMMA OrderTake ==
    ASSUME StreamInv, OrderInv, NEW b \in Binds, NEW c \in Conns, Take(b, c)
    PROVE  OrderInv'
<1> USE ConnsAssumption
<1>0. /\ took \in [Binds -> Seq(Conns)] /\ took[b] \in Seq(Conns)
      /\ got \in Seq(Conns) /\ slot \in Conns \cup {None} /\ TypeOK
  BY DEF StreamInv, TypeOK
<1>1. /\ task[b] = "taking" /\ conn[c] = "outside" /\ conn'[c] = "held"
      /\ \A d \in Conns : d # c => conn'[d] = conn[d]
      /\ took'[b] = Append(took[b], c)
      /\ \A d \in Binds : d # b => took'[d] = took[d] /\ task'[d] = task[d] /\ hand'[d] = hand[d]
      /\ task'[b] = "sending" /\ hand'[b] = c
      /\ UNCHANGED <<got, slot, inbound, term>>
  BY <1>0 DEF Take, TypeOK, channel, owner
<1>2. \A d \in Binds : \A i \in DOMAIN took[d] : took[d][i] \in Conns /\ took[d][i] # c
  BY <1>0, <1>1 DEF OrderInv, TakenInv
<1>3. \A i \in DOMAIN took'[b] : took'[b][i] = c \/ (i \in DOMAIN took[b] /\ took'[b][i] = took[b][i])
  BY <1>0, <1>1, AppendFacts
<1>4. \A p \in DOMAIN Passed : Passed[p] # c
  <2>1. \A p \in DOMAIN got : got[p] # c
    BY <1>1 DEF OrderInv, TakenInv
  <2>2. slot # c
    BY <1>1 DEF OrderInv, TakenInv
  <2> QED
    BY <1>0, <2>1, <2>2 DEF Passed, One
<1>5. TakenInv'
  <2>1. \A d \in Binds : \A i \in DOMAIN took'[d] : conn'[took'[d][i]] # "outside"
    <3>1. ASSUME NEW d \in Binds, NEW i \in DOMAIN took[d]
          PROVE  conn'[took[d][i]] # "outside"
      BY <1>1, <1>2 DEF OrderInv, TakenInv
    <3>2. ASSUME NEW i \in DOMAIN took'[b] PROVE conn'[took'[b][i]] # "outside"
      BY <1>1, <1>3, <3>1
    <3> QED
      BY <1>1, <3>1, <3>2
  <2>2. /\ \A p \in DOMAIN got' : conn'[got'[p]] # "outside"
        /\ slot' # None => conn'[slot'] # "outside"
    <3>1. ASSUME NEW d \in Conns, conn[d] # "outside" PROVE conn'[d] # "outside"
      BY <1>1, <3>1
    <3>2. ASSUME NEW p \in DOMAIN got PROVE got[p] \in Conns /\ conn[got[p]] # "outside"
      BY <1>0 DEF OrderInv, TakenInv
    <3>3. slot # None => slot \in Conns /\ conn[slot] # "outside"
      BY <1>0 DEF OrderInv, TakenInv
    <3> QED
      BY <1>1, <3>1, <3>2, <3>3
  <2>3. ASSUME NEW d \in Binds, NEW e \in Binds, d # e,
               NEW i \in DOMAIN took'[d], NEW j \in DOMAIN took'[e]
        PROVE  took'[d][i] # took'[e][j]
    <3>1. CASE d # b /\ e # b
      BY <1>1, <2>3, <3>1 DEF OrderInv, TakenInv
    <3>2. CASE d = b
      <4>1. j \in DOMAIN took[e] /\ took'[e][j] = took[e][j] /\ took[e][j] # c
        BY <1>1, <1>2, <2>3, <3>2
      <4>2. took'[d][i] = c \/ (i \in DOMAIN took[d] /\ took'[d][i] = took[d][i])
        BY <1>3, <2>3, <3>2
      <4> QED
        BY <2>3, <4>1, <4>2 DEF OrderInv, TakenInv
    <3>3. CASE e = b
      <4>1. i \in DOMAIN took[d] /\ took'[d][i] = took[d][i] /\ took[d][i] # c
        BY <1>1, <1>2, <2>3, <3>3
      <4>2. took'[e][j] = c \/ (j \in DOMAIN took[e] /\ took'[e][j] = took[e][j])
        BY <1>3, <2>3, <3>3
      <4> QED
        BY <2>3, <4>1, <4>2 DEF OrderInv, TakenInv
    <3> QED
      BY <3>1, <3>2, <3>3
  <2>4. took'[b] # <<>> /\ hand'[b] = took'[b][Len(took'[b])]
    BY <1>0, <1>1, AppendFacts
  <2>5. \A d \in Binds : task'[d] = "sending" =>
          took'[d] # <<>> /\ hand'[d] = took'[d][Len(took'[d])]
    BY <1>1, <2>4 DEF OrderInv, TakenInv
  <2> QED
    BY <2>1, <2>2, <2>3, <2>5 DEF TakenInv
<1>6. Passed' = Passed /\ Passed \in Seq(Conns)
  BY <1>0, <1>1 DEF Passed, One
<1>7. ASSUME NEW d \in Binds PROVE \E n \in 0 .. Len(took'[d]) : PassedOf(d, n)'
  <2>1. PICK n \in 0 .. Len(took[d]) : PassedOf(d, n)
    BY DEF OrderInv
  <2>2. CASE d # b
    BY <1>1, <1>6, <2>1, <2>2 DEF PassedOf
  <2>3. CASE d = b
    <3>2. FirstOf(Append(took[b], c), n, Passed)
      BY <1>0, <1>4, <1>6, <2>1, <2>3, FirstOfOther DEF PassedOf
    <3>3. n \in 0 .. Len(took'[b]) /\ Len(took'[b]) = Len(took[b]) + 1
      BY <1>0, <1>1, <2>3, AppendFacts
    <3>4. PassedOf(b, n)'
      BY <1>1, <1>6, <2>1, <2>3, <3>2, <3>3 DEF PassedOf
    <3> QED
      BY <2>3, <3>3, <3>4
  <2> QED
    BY <2>2, <2>3
<1> QED
  BY <1>5, <1>7 DEF OrderInv

\* What a task sends is the next of its bind, and of no other.
LEMMA OrderSend ==
    ASSUME StreamInv, OrderInv, NEW b \in Binds, Send(b)
    PROVE  OrderInv'
<1> USE ConnsAssumption
<1>0. /\ took \in [Binds -> Seq(Conns)] /\ got \in Seq(Conns) /\ TypeOK
  BY DEF StreamInv, TypeOK
<1>1. PICK c \in Conns : c = hand[b]
  BY <1>0 DEF Send, TypeOK
<1>2. /\ task[b] = "sending" /\ inbound # "dropped" /\ slot = None /\ slot' = c
      /\ \A d \in Conns : conn[d] # "outside" => conn'[d] # "outside"
      /\ task'[b] = "taking"
      /\ \A d \in Binds : d # b => task'[d] = task[d] /\ hand'[d] = hand[d]
      /\ UNCHANGED <<got, took, inbound, term>>
  BY <1>0, <1>1 DEF Send, SlotFree, LetGo, TypeOK, startup, owner
<1>3. /\ took[b] # <<>> /\ c = took[b][Len(took[b])]
      /\ Len(took[b]) \in DOMAIN took[b]
  BY <1>0, <1>1, <1>2 DEF OrderInv, TakenInv
<1>4. Passed' = Passed \o <<c>> /\ Passed \in Seq(Conns)
  BY <1>0, <1>2 DEF Passed, One
<1>5. TakenInv'
  <2>1. \A d \in Binds : \A i \in DOMAIN took[d] : took[d][i] \in Conns
    BY <1>0
  <2>2. \A p \in DOMAIN got : got[p] \in Conns
    BY <1>0
  <2>3. conn'[c] # "outside"
    BY <1>2, <1>3 DEF OrderInv, TakenInv
  <2>4. \A d \in Binds : task'[d] = "sending" => d # b
    BY <1>2
  <2> QED
    BY <1>1, <1>2, <2>1, <2>2, <2>3, <2>4 DEF OrderInv, TakenInv
<1>6. ASSUME NEW d \in Binds PROVE \E n \in 0 .. Len(took'[d]) : PassedOf(d, n)'
  <2>1. PICK n \in 0 .. Len(took[d]) : PassedOf(d, n)
    BY DEF OrderInv
  <2>2. took[d] \in Seq(Conns)
    BY <1>0
  <2>3. CASE d # b
    <3>1. \A k \in DOMAIN took[d] : took[d][k] # c
      BY <1>3, <2>3 DEF OrderInv, TakenInv
    <3>2. FirstOf(took[d], n, Passed \o <<c>>)
      BY <1>4, <2>1, <2>2, <3>1, FirstOfOther DEF PassedOf
    <3> QED
      BY <1>2, <1>4, <2>1, <2>3, <3>2 DEF PassedOf
  <2>4. CASE d = b
    <3>1. n = Len(took[b]) - 1 /\ n + 1 = Len(took[b]) /\ n < Len(took[b])
      BY <1>2, <1>3, <2>1, <2>4 DEF PassedOf
    <3>2. FirstOf(took[b], n + 1, Passed \o <<c>>)
      BY <1>3, <1>4, <2>1, <2>2, <2>4, <3>1, FirstOfNext DEF PassedOf
    <3>3. PassedOf(b, n + 1)' /\ n + 1 \in 0 .. Len(took'[b])
      BY <1>2, <1>4, <2>1, <2>4, <3>1, <3>2 DEF PassedOf
    <3> QED
      BY <2>4, <3>3
  <2> QED
    BY <2>3, <2>4
<1> QED
  BY <1>5, <1>6 DEF OrderInv

\* Nothing was taken or passed on at first.
LEMMA OrderInit == Init => OrderInv
<1> SUFFICES ASSUME Init PROVE OrderInv
  OBVIOUS
<1>1. TakenInv
  BY DEF Init, TakenInv
<1>2. ASSUME NEW b \in Binds PROVE \E n \in 0 .. Len(took[b]) : PassedOf(b, n)
  <2>1. took[b] = <<>> /\ Passed = <<>> /\ task[b] = "none"
    BY DEF Init, Passed, One
  <2>2. FirstOf(<<>>, 0, <<>>)
    <3> DEFINE at == [i \in 1 .. 0 |-> 0]
    <3>1. at \in [1 .. 0 -> DOMAIN <<>>] /\ 1 .. 0 = {} /\ DOMAIN <<>> = {}
      OBVIOUS
    <3> HIDE DEF at
    <3>2. \A i \in 1 .. 0 : FALSE
      BY <3>1
    <3>3. \A p \in DOMAIN <<>> : FALSE
      BY <3>1
    <3> QED
      BY <3>1, <3>2, <3>3, Zenon DEF FirstOf
  <2> QED
    BY <2>1, <2>2 DEF PassedOf
<1> QED
  BY <1>1, <1>2 DEF OrderInv

\* Every step keeps the order (node.rs, 140-157, 267-298, 362-409).
LEMMA OrderNext == StreamInv /\ OrderInv /\ [Next]_vars => OrderInv'
<1> SUFFICES ASSUME StreamInv, OrderInv, [Next]_vars PROVE OrderInv'
  OBVIOUS
<1>0. TypeOK
  BY DEF StreamInv
<1> USE ConnsAssumption DEF startup, channel, tasks, owner
<1>1. ASSUME NEW b \in Binds, BindOk(b) \/ RelayAddrFails(b) \/ ControlEnds(b) PROVE OrderInv'
  <2>1. /\ UNCHANGED <<took, got, slot, inbound, conn, term, hand>>
        /\ \A d \in Binds : task'[d] = task[d]
              \/ (task'[d] = "taking" /\ task[d] = "none")
              \/ (task'[d] = "ended" /\ task[d] = "taking")
    BY <1>0, <1>1 DEF BindOk, RelayAddrFails, ControlEnds, TypeOK, StreamInv
  <2>2. UNCHANGED Passed
    BY <2>1 DEF Passed
  <2> QED
    BY <2>1, <2>2, OrderKept
<1>2. ASSUME NEW b \in Binds, BindFails(b) \/ BindPanics(b) PROVE OrderInv'
  <2>1. /\ inbound = "open" /\ inbound' = "dropped" /\ slot' = None /\ Close({slot})
        /\ UNCHANGED <<got, took, hand>>
        /\ \A d \in Binds : task'[d] \in {task[d], "taking"}
    BY <1>0, <1>2 DEF BindFails, BindPanics, NewFails, TypeOK, StreamInv
  <2> QED
    BY <2>1, OrderDropped
<1>3. ASSUME NEW b \in Binds, NEW c \in Conns, Take(b, c) PROVE OrderInv'
  BY <1>3, OrderTake
<1>4. ASSUME NEW b \in Binds, Send(b) PROVE OrderInv'
  BY <1>4, OrderSend
<1>5. ASSUME NEW b \in Binds, SendFails(b) \/ Cancel(b) PROVE OrderInv'
  <2>1. /\ UNCHANGED <<took, got, slot, inbound, term>>
        /\ \A d \in Binds : d # b => task'[d] = task[d] /\ hand'[d] = hand[d]
        /\ task'[b] = "ended" /\ (term \/ inbound = "dropped")
        /\ \A c \in Conns : conn'[c] \in {conn[c], "closed"}
    BY <1>0, <1>5 DEF SendFails, Cancel, LetGo, Close, AfterFailedSend, Cancellable, TypeOK
  <2>2. UNCHANGED Passed
    BY <2>1 DEF Passed
  <2> QED
    BY <2>1, <2>2, OrderKept
<1>6. CASE Recv
  <2>1. /\ slot \in Conns /\ got' = Append(got, slot) /\ slot' = None
        /\ UNCHANGED <<took, task, hand, inbound, term>>
        /\ \A c \in Conns : conn'[c] \in {conn[c], "taken"}
    BY <1>0, <1>6 DEF Recv, TypeOK
  <2>2. UNCHANGED Passed
    <3>1. got \in Seq(Conns)
      BY <1>0 DEF TypeOK
    <3> QED
      BY <2>1, <3>1 DEF Passed, One
  <2> QED
    BY <2>1, <2>2, OrderKept
<1>7. CASE RecvNone \/ NewOk \/ CloneNode \/ DropNode \/ UNCHANGED vars
  <2>1. /\ UNCHANGED <<took, got, slot, task, hand, conn>>
        /\ inbound' = inbound \/ (inbound = "open" /\ inbound' = "drained")
        /\ term => term'
    BY <1>0, <1>7 DEF RecvNone, NewOk, CloneNode, DropNode, vars, TypeOK
  <2>2. UNCHANGED Passed
    BY <2>1 DEF Passed
  <2> QED
    BY <2>1, <2>2, OrderKept
<1>8. CASE DropInbound
  BY <1>8, OrderDropped DEF DropInbound
<1>9. ASSUME NEW c \in Conns, Accept(c) PROVE OrderInv'
  <2>1. /\ UNCHANGED <<took, got, slot, inbound, task, hand, term>>
        /\ \A d \in Conns : conn[d] # "outside" => conn'[d] # "outside"
    BY <1>0, <1>9 DEF Accept, TypeOK
  <2>2. UNCHANGED Passed
    BY <2>1 DEF Passed
  <2> QED
    BY <2>1, <2>2, OrderKept
<1> QED
  BY <1>1, <1>2, <1>3, <1>4, <1>5, <1>6, <1>7, <1>8, <1>9 DEF Next

\* What the invariant says of the connections on their way.
LEMMA OrderExact == StreamInv /\ OrderInv => InboundExact
<1> SUFFICES ASSUME StreamInv, OrderInv, NEW b \in Binds
             PROVE  /\ \E n \in 0 .. Len(took[b]) : FirstOf(took[b], n, got)
                    /\ ~term /\ inbound # "dropped" =>
                          FirstOf(took[b], Len(took[b]), OnTheWay(b))
  BY DEF InboundExact
<1>1. /\ took[b] \in Seq(Conns) /\ got \in Seq(Conns) /\ slot \in Conns \cup {None}
      /\ hand[b] \in Conns \cup {None} /\ (hand[b] # None <=> task[b] = "sending")
      /\ task[b] \in {"none", "taking", "sending", "ended"}
  BY DEF StreamInv, TypeOK
<1>2. Passed = (IF slot = None THEN got ELSE got \o <<slot>>) /\ Passed \in Seq(Conns)
  BY <1>1, ConnsAssumption DEF Passed, One
<1>3. PICK n \in 0 .. Len(took[b]) : PassedOf(b, n)
  BY DEF OrderInv
<1>4. \E m \in 0 .. Len(took[b]) : FirstOf(took[b], m, got)
  <2>1. CASE slot = None
    BY <1>2, <1>3, <2>1 DEF PassedOf
  <2>2. CASE slot # None
    <3>1. \E m \in 0 .. n : FirstOf(took[b], m, got)
      BY <1>1, <1>2, <1>3, <2>2, FirstOfPrefix DEF PassedOf
    <3> QED
      BY <1>1, <3>1
  <2> QED
    BY <2>1, <2>2
<1>5. ASSUME ~term, inbound # "dropped" PROVE FirstOf(took[b], Len(took[b]), OnTheWay(b))
  <2>1. CASE task[b] # "sending"
    <3>1. OnTheWay(b) = Passed \o <<>>
      BY <1>1, <2>1 DEF OnTheWay, Passed, One
    <3>2. OnTheWay(b) = Passed
      <4> HIDE DEF Passed
      <4> QED
        BY <1>2, <3>1
    <3> QED
      BY <1>1, <1>3, <1>5, <2>1, <3>2 DEF PassedOf
  <2>2. CASE task[b] = "sending"
    <3>1. hand[b] \in Conns /\ OnTheWay(b) = Passed \o <<hand[b]>>
      BY <1>1, <1>2, <2>2, ConnsAssumption DEF OnTheWay, Passed, One
    <3>2. n + 1 = Len(took[b]) /\ n < Len(took[b]) /\ hand[b] = took[b][n + 1]
      BY <1>1, <1>3, <1>5, <2>2 DEF PassedOf, OrderInv, TakenInv
    <3>3. FirstOf(took[b], n + 1, Passed \o <<took[b][n + 1]>>)
      BY <1>1, <1>2, <1>3, <3>2, FirstOfNext DEF PassedOf
    <3> QED
      BY <3>1, <3>2, <3>3
  <2> QED
    BY <2>1, <2>2
<1> QED
  BY <1>4, <1>5

\* However many binds send into the one channel, and whichever fail, end or
\* are cancelled, the application receives what each bind took, once and in
\* its order, and nothing is lost while the node runs (node.rs, 268-298,
\* 365-409).
THEOREM NodeInboundExact == Spec => []InboundExact
  BY StreamInit, StreamNext, OrderInit, OrderNext, OrderExact, PTL DEF Spec
=============================================================================
