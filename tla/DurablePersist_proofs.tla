------------------------- MODULE DurablePersist_proofs -------------------------
(***************************************************************************)
(* Theorems about DurablePersist and their proofs.                         *)
(***************************************************************************)
EXTENDS DurablePersist, SequenceTheorems, TLAPS

-----------------------------------------------------------------------------
(* Sequences: what the two channels hold after a message is read or sent. *)

\* Reading the first message shifts the others.
LEMMA Read ==
  ASSUME NEW S, NEW s \in Seq(S), s # <<>>
  PROVE  /\ Tail(s) \in Seq(S) /\ Len(s) \in Nat /\ Len(s) >= 1 /\ Len(Tail(s)) = Len(s) - 1
         /\ Head(s) = s[1] /\ s[1] \in S
         /\ DOMAIN s = 1 .. Len(s) /\ DOMAIN Tail(s) = 1 .. (Len(s) - 1)
         /\ \A i \in 1 .. (Len(s) - 1) : Tail(s)[i] = s[i + 1]
<1>1. /\ Tail(s) \in Seq(S) /\ Len(Tail(s)) = Len(s) - 1 /\ Head(s) \in S
      /\ \A i \in 1 .. Len(Tail(s)) : Tail(s)[i] = s[i + 1]
  BY HeadTailProperties
<1>2. Len(s) \in Nat /\ Len(s) # 0 /\ DOMAIN s = 1 .. Len(s)
      /\ DOMAIN Tail(s) = 1 .. Len(Tail(s))
  BY <1>1, LenProperties, EmptySeq
<1>3. Head(s) = s[1]
  OBVIOUS
<1> QED
  BY <1>1, <1>2, <1>3

\* Sending one message leaves the earlier ones where they are.
LEMMA Sent ==
  ASSUME NEW S, NEW s \in Seq(S), NEW m \in S
  PROVE  /\ Append(s, m) \in Seq(S) /\ Len(s) \in Nat /\ Len(Append(s, m)) = Len(s) + 1
         /\ DOMAIN s = 1 .. Len(s) /\ DOMAIN Append(s, m) = 1 .. (Len(s) + 1)
         /\ \A i \in 1 .. Len(s) : Append(s, m)[i] = s[i]
         /\ Append(s, m)[Len(s) + 1] = m
<1>1. /\ Append(s, m) \in Seq(S) /\ Len(Append(s, m)) = Len(s) + 1
      /\ \A i \in 1 .. Len(s) : Append(s, m)[i] = s[i]
      /\ Append(s, m)[Len(s) + 1] = m
  BY AppendProperties
<1>2. Len(s) \in Nat /\ DOMAIN s = 1 .. Len(s)
      /\ DOMAIN Append(s, m) = 1 .. Len(Append(s, m))
  BY <1>1, LenProperties
<1> QED
  BY <1>1, <1>2

\* So does sending several.
LEMMA SentAll ==
  ASSUME NEW S, NEW s \in Seq(S), NEW t \in Seq(S)
  PROVE  /\ s \o t \in Seq(S) /\ Len(s) \in Nat /\ Len(t) \in Nat
         /\ Len(s \o t) = Len(s) + Len(t)
         /\ DOMAIN s = 1 .. Len(s) /\ DOMAIN t = 1 .. Len(t)
         /\ DOMAIN (s \o t) = 1 .. (Len(s) + Len(t))
         /\ \A i \in 1 .. (Len(s) + Len(t)) :
              (s \o t)[i] = IF i <= Len(s) THEN s[i] ELSE t[i - Len(s)]
<1>1. /\ s \o t \in Seq(S) /\ Len(s \o t) = Len(s) + Len(t)
      /\ \A i \in 1 .. (Len(s) + Len(t)) :
              (s \o t)[i] = IF i <= Len(s) THEN s[i] ELSE t[i - Len(s)]
  BY ConcatProperties
<1>2. Len(s) \in Nat /\ DOMAIN s = 1 .. Len(s) /\ Len(t) \in Nat /\ DOMAIN t = 1 .. Len(t)
      /\ DOMAIN (s \o t) = 1 .. Len(s \o t)
  BY <1>1, LenProperties
<1> QED
  BY <1>1, <1>2

LEMMA Unsent ==
  ASSUME NEW S
  PROVE  <<>> \in Seq(S) /\ DOMAIN <<>> = {} /\ Len(<<>>) = 0
  OBVIOUS

-----------------------------------------------------------------------------
(* Messages and projections. *)

LEMMA ProjectionShape ==
  /\ \A p \in Projection : p.keys \in [Keys -> Values] /\ p.use \in Nat
  /\ \A ks \in [Keys -> Values], u \in Nat :
       /\ [keys |-> ks, use |-> u] \in Projection
       /\ [keys |-> ks, use |-> u].keys = ks /\ [keys |-> ks, use |-> u].use = u
  /\ Nothing \notin Projection
<1>1. ASSUME NEW p \in Projection PROVE p # Nothing
  <2>1. DOMAIN p = {"keys", "use"}
    BY DEF Projection
  <2>2. DOMAIN Nothing = {"use"}
    BY DEF Nothing
  <2> QED
    BY <2>1, <2>2
<1> QED
  BY <1>1 DEF Projection

LEMMA MessageShape ==
  /\ \A m \in ToMain :
       /\ m.state \in Projection /\ m.type \in {"durable", "legacy"}
       /\ m.type = "durable" => m.id \in Nat \ {0} /\ m.revision \in Nat \ {0}
  /\ \A s \in Projection, id \in Nat \ {0}, rev \in Nat \ {0} :
       /\ Durable(s, id, rev) \in ToMain /\ Durable(s, id, rev).type = "durable"
       /\ Durable(s, id, rev).state = s /\ Durable(s, id, rev).id = id
       /\ Durable(s, id, rev).revision = rev
  /\ \A s \in Projection :
       Legacy(s) \in ToMain /\ Legacy(s).type = "legacy" /\ Legacy(s).state = s
<1>1. ASSUME NEW m \in ToMain
      PROVE  /\ m.state \in Projection /\ m.type \in {"durable", "legacy"}
             /\ m.type = "durable" => m.id \in Nat \ {0} /\ m.revision \in Nat \ {0}
  BY DEF ToMain
<1>2. ASSUME NEW s \in Projection, NEW id \in Nat \ {0}, NEW rev \in Nat \ {0}
      PROVE  /\ Durable(s, id, rev) \in ToMain /\ Durable(s, id, rev).type = "durable"
             /\ Durable(s, id, rev).state = s /\ Durable(s, id, rev).id = id
             /\ Durable(s, id, rev).revision = rev
  BY DEF ToMain, Durable
<1>3. ASSUME NEW s \in Projection
      PROVE  Legacy(s) \in ToMain /\ Legacy(s).type = "legacy" /\ Legacy(s).state = s
  BY DEF ToMain, Legacy
<1> QED
  BY <1>1, <1>2, <1>3

LEMMA AnswerShape ==
  ASSUME ledger \in Nat
  PROVE
  /\ \A r \in ToChild :
       /\ r.id \in Nat \ {0} /\ r.type \in {"ack", "rejected"}
       /\ r.type = "ack" => r.revision \in Nat \ {0}
       /\ r.type = "rejected" => r.ledger \in Nat /\ r.code \in {"revision", "write-failed"}
  /\ \A id \in Nat \ {0}, rev \in Nat \ {0} :
       /\ Ack(id, rev) \in ToChild /\ Ack(id, rev).type = "ack"
       /\ Ack(id, rev).id = id /\ Ack(id, rev).revision = rev
  /\ \A id \in Nat \ {0}, code \in {"revision", "write-failed"} :
       /\ Rejected(id, code) \in ToChild /\ Rejected(id, code).type = "rejected"
       /\ Rejected(id, code).id = id /\ Rejected(id, code).code = code
       /\ Rejected(id, code).ledger = ledger
<1>1. ASSUME NEW r \in ToChild
      PROVE  /\ r.id \in Nat \ {0} /\ r.type \in {"ack", "rejected"}
             /\ r.type = "ack" => r.revision \in Nat \ {0}
             /\ r.type = "rejected" => r.ledger \in Nat /\ r.code \in {"revision", "write-failed"}
  BY DEF ToChild
<1>2. ASSUME NEW id \in Nat \ {0}, NEW rev \in Nat \ {0}
      PROVE  /\ Ack(id, rev) \in ToChild /\ Ack(id, rev).type = "ack"
             /\ Ack(id, rev).id = id /\ Ack(id, rev).revision = rev
  BY DEF ToChild, Ack
<1>3. ASSUME NEW id \in Nat \ {0}, NEW code \in {"revision", "write-failed"}
      PROVE  /\ Rejected(id, code) \in ToChild /\ Rejected(id, code).type = "rejected"
             /\ Rejected(id, code).id = id /\ Rejected(id, code).code = code
             /\ Rejected(id, code).ledger = ledger
  BY DEF ToChild, Rejected
<1> QED
  BY <1>1, <1>2, <1>3

LEMMA MutationShape ==
  \A m \in Mutation :
    /\ m.id \in Nat \ {0} /\ m.key \in Keys /\ m.old \in Values /\ m.new \in Values
    /\ m.revision \in Nat \ {0} /\ m.attempt \in {1, 2} /\ m # NoMut
BY DEF Mutation, NoMut

LEMMA AskedShape ==
  ASSUME keys \in [Keys -> Values], requests \in Nat,
         NEW k \in Keys, NEW new \in Values, NEW rev \in Nat \ {0},
         NEW asked, asked = Asked(k, new, rev, 1)
  PROVE  /\ asked \in Mutation /\ asked.id = requests + 1 /\ asked.key = k
         /\ asked.old = keys[k] /\ asked.new = new
         /\ asked.revision = rev /\ asked.attempt = 1
<1>1. requests + 1 \in Nat \ {0}
  OBVIOUS
<1> QED
  BY <1>1 DEF Mutation, Asked

LEMMA AskedAgainShape ==
  ASSUME requests \in Nat, NEW m \in Mutation, NEW rev \in Nat \ {0},
         NEW again, again = [m EXCEPT !.id = requests + 1, !.revision = rev, !.attempt = 2]
  PROVE  /\ again \in Mutation /\ again.id = requests + 1 /\ again.key = m.key
         /\ again.old = m.old /\ again.new = m.new
         /\ again.revision = rev /\ again.attempt = 2
<1>1. requests + 1 \in Nat \ {0}
  OBVIOUS
<1> QED
  BY <1>1 DEF Mutation

\* The saves a settled mutation sends all carry the keys it settled on.
LEMMA SavesShape ==
  ASSUME NEW ks \in [Keys -> Values], NEW reconcile \in BOOLEAN,
         use \in Nat, deferred \in BOOLEAN
  PROVE  /\ SavesAfter(ks, reconcile) \in Seq(ToMain)
         /\ DOMAIN SavesAfter(ks, reconcile) = 1 .. Len(SavesAfter(ks, reconcile))
         /\ Len(SavesAfter(ks, reconcile)) \in Nat
         /\ \A i \in DOMAIN SavesAfter(ks, reconcile) :
              /\ SavesAfter(ks, reconcile)[i].type = "legacy"
              /\ SavesAfter(ks, reconcile)[i].state.keys = ks
         /\ reconcile => Len(SavesAfter(ks, reconcile)) >= 1
<1> DEFINE save == Legacy(Project(ks))
           now  == IF reconcile THEN <<save>> ELSE <<>>
           then == IF deferred THEN <<save>> ELSE <<>>
<1>1. save \in ToMain /\ save.type = "legacy" /\ save.state.keys = ks
  BY ProjectionShape, MessageShape DEF Project
<1> HIDE DEF save
<1>2. /\ now \in Seq(ToMain) /\ (reconcile => Len(now) = 1)
      /\ \A i \in 1 .. Len(now) : now[i] = save
  BY <1>1
<1>3. /\ then \in Seq(ToMain)
      /\ \A i \in 1 .. Len(then) : then[i] = save
  BY <1>1
<1>4. SavesAfter(ks, reconcile) = now \o then
  BY DEF SavesAfter, save
<1> HIDE DEF now, then
<1>5. /\ now \o then \in Seq(ToMain) /\ Len(now) \in Nat /\ Len(then) \in Nat
      /\ Len(now \o then) = Len(now) + Len(then)
      /\ DOMAIN (now \o then) = 1 .. (Len(now) + Len(then))
      /\ \A i \in 1 .. (Len(now) + Len(then)) :
           (now \o then)[i] = IF i <= Len(now) THEN now[i] ELSE then[i - Len(now)]
  BY <1>2, <1>3, SentAll
<1>6. \A i \in 1 .. (Len(now) + Len(then)) : (now \o then)[i] = save
  <2> SUFFICES ASSUME NEW i \in 1 .. (Len(now) + Len(then))
               PROVE  (now \o then)[i] = save
    OBVIOUS
  <2>1. CASE i <= Len(now)
    BY <1>2, <1>5, <2>1
  <2>2. CASE ~(i <= Len(now))
    <3>1. i - Len(now) \in 1 .. Len(then)
      BY <1>5, <2>2
    <3> QED
      BY <1>3, <1>5, <2>2, <3>1
  <2> QED
    BY <2>1, <2>2
<1>7. reconcile => Len(now \o then) >= 1
  BY <1>2, <1>5
<1> QED
  BY <1>1, <1>4, <1>5, <1>6, <1>7

\* Undoing the pending change restores its key and no other.
LEMMA RollBackUndoes ==
  ASSUME TypeOK, mut # NoMut
  PROVE  /\ mut \in Mutation /\ RolledBack \in [Keys -> Values]
         /\ RolledBack[mut.key] = mut.old
         /\ \A k \in Keys : k # mut.key => RolledBack[k] = keys[k]
<1>1. mut \in Mutation /\ keys \in [Keys -> Values] /\ requests \in Nat
  BY DEF TypeOK
<1>2. mut.key \in Keys /\ mut.old \in Values
  BY <1>1, MutationShape
<1> QED
  BY <1>1, <1>2 DEF RolledBack

-----------------------------------------------------------------------------
(* Types. *)

\* What a change of the live keys and of the answers does to their types.
LEMMA ChannelsStayTyped ==
  ASSUME TypeOK
  PROVE  /\ \A m \in ToMain : Append(toMain, m) \in Seq(ToMain)
         /\ \A t \in Seq(ToMain) : toMain \o t \in Seq(ToMain)
         /\ toMain # <<>> => Tail(toMain) \in Seq(ToMain) /\ Head(toMain) \in ToMain
         /\ \A r \in ToChild : Append(toChild, r) \in Seq(ToChild)
         /\ toChild # <<>> => Tail(toChild) \in Seq(ToChild) /\ Head(toChild) \in ToChild
         /\ <<>> \in Seq(ToMain) /\ <<>> \in Seq(ToChild)
<1>1. toMain \in Seq(ToMain) /\ toChild \in Seq(ToChild)
  BY DEF TypeOK
<1> QED
  BY <1>1, Read, Sent, SentAll, Unsent

LEMMA TypeStep == DurablePersistAssumption /\ TypeOK /\ [Next]_vars => TypeOK'
<1> SUFFICES ASSUME DurablePersistAssumption, TypeOK, [Next]_vars PROVE TypeOK'
  OBVIOUS
<1>0. /\ keys \in [Keys -> Values] /\ use \in Nat /\ deferred \in BOOLEAN
      /\ ledger \in Nat /\ requests \in Nat /\ revision \in Nat
      /\ Project(keys) \in Projection /\ Legacy(Project(keys)) \in ToMain
  BY ProjectionShape, MessageShape DEF TypeOK, Project
<1>1. CASE RuntimeChange
  BY <1>1 DEF TypeOK, RuntimeChange, mainVars
<1>2. CASE Save
  BY <1>2, <1>0, ChannelsStayTyped DEF TypeOK, Save, mainVars
<1>3. ASSUME NEW k \in Keys, NEW new \in Values, Begin(k, new) PROVE TypeOK'
  <2>1. /\ mut' \in Mutation /\ mut'.id \in Nat \ {0} /\ mut'.revision \in Nat \ {0}
    <3>1. revision + 1 \in Nat \ {0} /\ mut' = Asked(k, new, revision + 1, 1)
      BY <1>0, <1>3 DEF Begin
    <3>2. mut' \in Mutation
      BY <1>0, <3>1, AskedShape
    <3> QED
      BY <3>2, MutationShape
  <2>2. keys' \in [Keys -> Values] /\ answered' \in [Keys -> Values \cup {Unknown}]
        /\ voided' \in SUBSET Keys
    BY <1>3 DEF Begin, TypeOK
  <2>3. toMain' \in Seq(ToMain)
    <3>1. toMain' = Append(toMain, Durable(Project(keys'), mut'.id, mut'.revision))
      BY <1>3 DEF Begin
    <3>2. Project(keys') \in Projection
      BY <1>0, <2>2, ProjectionShape DEF Project
    <3> QED
      BY <2>1, <3>1, <3>2, MessageShape, ChannelsStayTyped
  <2> QED
    BY <1>3, <2>1, <2>2, <2>3 DEF TypeOK, Begin, mainVars
<1>4. CASE DropLate
  BY <1>4, ChannelsStayTyped DEF TypeOK, DropLate, mainVars, childVars
<1>5. CASE Commit
  <2>1. /\ mut # NoMut /\ mut \in Mutation /\ mut.revision \in Nat
        /\ mut.key \in Keys /\ mut.new \in Values
    BY <1>5, MutationShape DEF Commit, Expected, TypeOK
  <2>2. toMain' \in Seq(ToMain)
    BY <1>0, <1>5, SavesShape, ChannelsStayTyped DEF Commit
  <2>3. answered' \in [Keys -> Values \cup {Unknown}] /\ voided' \in SUBSET Keys
    BY <1>5, <2>1 DEF Commit, TypeOK
  <2>4. toChild' \in Seq(ToChild)
    BY <1>5, ChannelsStayTyped DEF Commit, Expected
  <2> QED
    BY <1>5, <2>1, <2>2, <2>3, <2>4 DEF TypeOK, Commit, mainVars
<1>6. ASSUME NEW reconcile \in BOOLEAN, mut # NoMut, GiveUp(reconcile), toChild' \in Seq(ToChild)
      PROVE  TypeOK'
  <2>1. RolledBack \in [Keys -> Values]
    BY <1>6, RollBackUndoes
  <2>2. toMain' \in Seq(ToMain)
    BY <1>0, <1>6, <2>1, SavesShape, ChannelsStayTyped DEF GiveUp
  <2> QED
    BY <1>6, <2>1, <2>2 DEF TypeOK, GiveUp, mainVars
<1>7. CASE Refused
  BY <1>6, <1>7, ChannelsStayTyped DEF Refused, Expected, MustReconcile
<1>8. CASE Timeout
  BY <1>6, <1>8 DEF Timeout, TypeOK
<1>9. CASE RefusedThenRetry
  <2> DEFINE reply == Head(toChild)
             rev   == RetryRevision(reply)
             saves == SavesAfter(RolledBack, MustReconcile(reply))
             again == Durable(Project(keys), requests + 1, rev)
  <2>1. mut # NoMut /\ reply \in ToChild /\ reply.ledger \in Nat /\ toChild' \in Seq(ToChild)
    BY <1>0, <1>9, ChannelsStayTyped, AnswerShape DEF RefusedThenRetry, Expected
  <2>2. rev \in Nat \ {0} /\ requests + 1 \in Nat \ {0}
    BY <1>0, <2>1 DEF RetryRevision
  <2>3. mut' \in Mutation
    <3>1. mut' = [mut EXCEPT !.id = requests + 1, !.revision = rev, !.attempt = 2]
      BY <1>9 DEF RefusedThenRetry
    <3>2. mut \in Mutation
      BY <2>1, RollBackUndoes
    <3> HIDE DEF rev
    <3> QED
      BY <1>0, <2>2, <3>1, <3>2, AskedAgainShape
  <2>4. saves \in Seq(ToMain)
    BY <1>0, <2>1, RollBackUndoes, SavesShape DEF MustReconcile
  <2>5. again \in ToMain /\ <<again>> \in Seq(ToMain)
    BY <1>0, <2>2, MessageShape
  <2>6. toMain' = toMain \o saves \o <<again>>
    BY <1>9 DEF RefusedThenRetry
  <2> HIDE DEF saves, again, rev, reply
  <2>7. toMain \o saves \in Seq(ToMain)
    BY <2>4, ChannelsStayTyped
  <2>8. toMain' \in Seq(ToMain)
    BY <2>5, <2>6, <2>7, SentAll
  <2>9. /\ revision' \in Nat /\ requests' \in Nat /\ deferred' = FALSE
        /\ UNCHANGED <<child, keys, use, unsaved, mainVars, answered, voided>>
    BY <1>0, <1>9, <2>1 DEF RefusedThenRetry, reply
  <2> QED
    BY <2>1, <2>3, <2>8, <2>9 DEF TypeOK, mainVars
<1>10. CASE HandleLegacy
  <2>1. Head(toMain) \in ToMain /\ Head(toMain).state \in Projection
    BY <1>10, ChannelsStayTyped, MessageShape DEF HandleLegacy, Received
  <2>2. /\ toMain' \in Seq(ToMain)
        /\ disk' \in {disk, Head(toMain).state} /\ recorded' \in {recorded, Head(toMain).state}
    BY <1>10, ChannelsStayTyped DEF HandleLegacy, Received
  <2>3. failures' \in SUBSET Faults
    BY <1>10 DEF HandleLegacy, DurablePersistAssumption, TypeOK
  <2> QED
    BY <1>10, <2>1, <2>2, <2>3 DEF TypeOK, HandleLegacy, childVars
<1>11. CASE HandleDurable
  <2> DEFINE msg == Head(toMain)
  <2>1. /\ msg \in ToMain /\ msg.state \in Projection
        /\ msg.id \in Nat \ {0} /\ msg.revision \in Nat \ {0}
        /\ toMain' \in Seq(ToMain)
    BY <1>11, ChannelsStayTyped, MessageShape DEF HandleDurable, Received
  <2>2. /\ Ack(msg.id, msg.revision) \in ToChild
        /\ Rejected(msg.id, "revision") \in ToChild
        /\ Rejected(msg.id, "write-failed") \in ToChild
    BY <1>0, <2>1, AnswerShape
  <2>3. /\ disk' \in {disk, msg.state} /\ recorded' \in {recorded, msg.state}
        /\ ledger' \in {ledger, msg.revision} /\ failures' \in {failures, {}}
        /\ \E r \in ToChild : toChild' = IF child = "up" THEN Append(toChild, r) ELSE toChild
    BY <1>11, <2>2 DEF HandleDurable
  <2>4. toChild' \in Seq(ToChild)
    BY <2>3, ChannelsStayTyped DEF TypeOK
  <2> QED
    BY <1>0, <1>11, <2>1, <2>3, <2>4 DEF TypeOK, HandleDurable, childVars
<1>12. CASE ChildCrash
  BY <1>12, ChannelsStayTyped DEF TypeOK, ChildCrash, mainVars
<1>13. CASE ChildShutdown
  BY <1>0, <1>13, ChannelsStayTyped DEF TypeOK, ChildShutdown, mainVars
<1>14. ASSUME NEW s \in Projection, ChildStarts(s)
       PROVE  /\ child' = "up" /\ keys' \in [Keys -> Values] /\ use' \in Nat
              /\ unsaved' = FALSE /\ deferred' = FALSE /\ revision' = 0 /\ mut' = NoMut
              /\ toMain' \in Seq(ToMain) /\ toChild' \in Seq(ToChild)
              /\ ledger' = 0 /\ recorded' = Nothing /\ failures' = {}
  BY <1>14, ProjectionShape, ChannelsStayTyped DEF ChildStarts
<1>15. CASE ChildRestart
  <2>1. launch \in Projection /\ ChildStarts(launch)
    BY <1>15 DEF TypeOK, ChildRestart
  <2>2. /\ child' = "up" /\ keys' \in [Keys -> Values] /\ use' \in Nat
        /\ unsaved' = FALSE /\ deferred' = FALSE /\ revision' = 0 /\ mut' = NoMut
        /\ toMain' \in Seq(ToMain) /\ toChild' \in Seq(ToChild)
        /\ ledger' = 0 /\ recorded' = Nothing /\ failures' = {}
    BY <1>14, <2>1
  <2> QED
    BY <1>15, <2>2 DEF TypeOK, ChildRestart
<1>16. CASE Relaunch
  <2>1. disk \in Projection /\ ChildStarts(disk)
    BY <1>16 DEF TypeOK, Relaunch
  <2>2. /\ child' = "up" /\ keys' \in [Keys -> Values] /\ use' \in Nat
        /\ unsaved' = FALSE /\ deferred' = FALSE /\ revision' = 0 /\ mut' = NoMut
        /\ toMain' \in Seq(ToMain) /\ toChild' \in Seq(ToChild)
        /\ ledger' = 0 /\ recorded' = Nothing /\ failures' = {}
    BY <1>14, <2>1
  <2>3. /\ launches' \in Nat /\ launch' \in Projection
        /\ UNCHANGED <<disk, requests, answered, voided>>
    BY <1>16, <2>1 DEF TypeOK, Relaunch
  <2> QED
    BY <2>2, <2>3 DEF TypeOK
<1>17. CASE UNCHANGED vars
  BY <1>17 DEF TypeOK, vars
<1> QED
  BY <1>1, <1>2, <1>3, <1>4, <1>5, <1>7, <1>8, <1>9, <1>10, <1>11, <1>12, <1>13, <1>15,
     <1>16, <1>17 DEF Next, ChildStep, MainStep

-----------------------------------------------------------------------------
(* The protocol: what the two processes know of each other's counters.     *)

IsRequest(i)  == toMain[i].type = "durable"
IsAnswer(j)   == mut # NoMut /\ toChild[j].id = mut.id
LastSent      == toMain[Len(toMain)]

\* An id is used once: what is under way was asked for before now, and only a
\* live child waits.
IdsAreSpent ==
  /\ mut # NoMut => child = "up" /\ mut.id <= requests
  /\ \A i \in DOMAIN toMain : IsRequest(i) => toMain[i].id <= requests
  /\ \A j \in DOMAIN toChild : toChild[j].id <= requests

\* The child's counter is at most the ledger, and a change asks for the next one;
\* no answer speaks of a ledger main has not reached.
CountersFollow ==
  /\ revision <= ledger
  /\ mut # NoMut => mut.revision = revision + 1
  /\ \A j \in DOMAIN toChild :
       /\ toChild[j].type = "ack" => toChild[j].revision <= ledger
       /\ toChild[j].type = "rejected" => toChild[j].ledger <= ledger

\* The requests under way, those given up included, ask for ascending revisions.
RequestsAscend ==
  \A i \in DOMAIN toMain : IsRequest(i) =>
    /\ toMain[i].revision <= revision + 1
    /\ \A j \in DOMAIN toMain :
         i < j /\ IsRequest(j) => toMain[i].revision <= toMain[j].revision

\* While a change is pending the child sends nothing more: main has not read its
\* request, which is the last message, and has not answered it, or the channel is
\* empty. The retry has no other request before it.
RequestIsLast ==
  mut # NoMut /\ toMain # <<>> =>
    /\ IsRequest(Len(toMain))
    /\ LastSent.id = mut.id /\ LastSent.revision = mut.revision /\ LastSent.state.keys = keys
    /\ \A i \in DOMAIN toMain : IsRequest(i) /\ toMain[i].id = mut.id => i = Len(toMain)
    /\ \A j \in DOMAIN toChild : ~IsAnswer(j)
    /\ mut.attempt = 2 => /\ mut.revision = ledger + 1
                          /\ \A i \in DOMAIN toMain : IsRequest(i) => i = Len(toMain)

\* The ledger a refusal quotes has not moved while the child waits for it.
RefusalIsCurrent ==
  \A j \in DOMAIN toChild :
    IsAnswer(j) /\ toChild[j].type = "rejected" => toChild[j].ledger = ledger

\* The pending change is the one the child serves.
ChangeIsVisible == mut # NoMut => keys[mut.key] = mut.new

Protocol == /\ TypeOK /\ IdsAreSpent /\ CountersFollow /\ RequestsAscend
            /\ RequestIsLast /\ RefusalIsCurrent /\ ChangeIsVisible

\* What Protocol says of the channels, spelled out for the steps below.
LEMMA Channels ==
  ASSUME TypeOK
  PROVE  /\ toMain \in Seq(ToMain) /\ DOMAIN toMain = 1 .. Len(toMain) /\ Len(toMain) \in Nat
         /\ toChild \in Seq(ToChild) /\ DOMAIN toChild = 1 .. Len(toChild)
         /\ Len(toChild) \in Nat
         /\ toMain = <<>> <=> Len(toMain) = 0
         /\ toChild = <<>> <=> Len(toChild) = 0
         /\ \A i \in DOMAIN toMain :
              /\ toMain[i] \in ToMain /\ toMain[i].type \in {"durable", "legacy"}
              /\ toMain[i].state \in Projection /\ toMain[i].state.keys \in [Keys -> Values]
              /\ IsRequest(i) => toMain[i].id \in Nat /\ toMain[i].revision \in Nat
         /\ \A j \in DOMAIN toChild :
              /\ toChild[j] \in ToChild /\ toChild[j].id \in Nat
              /\ toChild[j].type \in {"ack", "rejected"}
              /\ toChild[j].type = "ack" => toChild[j].revision \in Nat
              /\ toChild[j].type = "rejected" => toChild[j].ledger \in Nat
<1>1. toMain \in Seq(ToMain) /\ toChild \in Seq(ToChild) /\ ledger \in Nat
  BY DEF TypeOK
<1>2. /\ DOMAIN toMain = 1 .. Len(toMain) /\ Len(toMain) \in Nat
      /\ DOMAIN toChild = 1 .. Len(toChild) /\ Len(toChild) \in Nat
  BY <1>1, LenProperties
<1>3. (toMain = <<>> <=> Len(toMain) = 0) /\ (toChild = <<>> <=> Len(toChild) = 0)
  BY <1>1, EmptySeq
<1>4. /\ \A i \in DOMAIN toMain : toMain[i] \in ToMain
      /\ \A j \in DOMAIN toChild : toChild[j] \in ToChild
  BY <1>1, <1>2, ElementOfSeq
<1>5. \A i \in DOMAIN toMain :
        /\ toMain[i] \in ToMain /\ toMain[i].type \in {"durable", "legacy"}
        /\ toMain[i].state \in Projection /\ toMain[i].state.keys \in [Keys -> Values]
        /\ IsRequest(i) => toMain[i].id \in Nat /\ toMain[i].revision \in Nat
  BY <1>4, MessageShape, ProjectionShape DEF IsRequest
<1>6. \A j \in DOMAIN toChild :
        /\ toChild[j] \in ToChild /\ toChild[j].id \in Nat
        /\ toChild[j].type \in {"ack", "rejected"}
        /\ toChild[j].type = "ack" => toChild[j].revision \in Nat
        /\ toChild[j].type = "rejected" => toChild[j].ledger \in Nat
  BY <1>1, <1>4, AnswerShape
<1> QED
  BY <1>1, <1>2, <1>3, <1>5, <1>6

\* Main reads its first message.
LEMMA MainReads ==
  ASSUME TypeOK, toMain # <<>>, toMain' = Tail(toMain)
  PROVE  /\ Len(toMain) \in Nat /\ Len(toMain) >= 1 /\ Len(toMain') = Len(toMain) - 1
         /\ DOMAIN toMain = 1 .. Len(toMain) /\ DOMAIN toMain' = 1 .. (Len(toMain) - 1)
         /\ toMain' = <<>> <=> Len(toMain) = 1
         /\ Head(toMain) = toMain[1] /\ toMain[1] \in ToMain
         /\ \A i \in DOMAIN toMain' : toMain'[i] = toMain[i + 1] /\ i + 1 \in DOMAIN toMain
<1>1. toMain \in Seq(ToMain)
  BY DEF TypeOK
<1>2. /\ Tail(toMain) \in Seq(ToMain) /\ Len(toMain) \in Nat /\ Len(toMain) >= 1
      /\ Len(Tail(toMain)) = Len(toMain) - 1
      /\ Head(toMain) = toMain[1] /\ toMain[1] \in ToMain
      /\ DOMAIN toMain = 1 .. Len(toMain) /\ DOMAIN Tail(toMain) = 1 .. (Len(toMain) - 1)
      /\ \A i \in 1 .. (Len(toMain) - 1) : Tail(toMain)[i] = toMain[i + 1]
  BY <1>1, Read
<1>3. Tail(toMain) = <<>> <=> Len(Tail(toMain)) = 0
  BY <1>2, EmptySeq
<1> QED
  BY <1>2, <1>3

\* The child takes the first answer.
LEMMA ChildReads ==
  ASSUME TypeOK, toChild # <<>>, toChild' = Tail(toChild)
  PROVE  /\ 1 \in DOMAIN toChild /\ Head(toChild) = toChild[1]
         /\ \A j \in DOMAIN toChild' :
              toChild'[j] = toChild[j + 1] /\ j + 1 \in DOMAIN toChild
<1>1. toChild \in Seq(ToChild)
  BY DEF TypeOK
<1>2. /\ Len(toChild) \in Nat /\ Len(toChild) >= 1 /\ Head(toChild) = toChild[1]
      /\ DOMAIN toChild = 1 .. Len(toChild) /\ DOMAIN Tail(toChild) = 1 .. (Len(toChild) - 1)
      /\ \A j \in 1 .. (Len(toChild) - 1) : Tail(toChild)[j] = toChild[j + 1]
  BY <1>1, Read
<1> QED
  BY <1>2

\* The child sends one message.
LEMMA ChildSends ==
  ASSUME TypeOK, NEW m \in ToMain, toMain' = Append(toMain, m)
  PROVE  /\ Len(toMain) \in Nat /\ Len(toMain') = Len(toMain) + 1 /\ toMain' # <<>>
         /\ DOMAIN toMain = 1 .. Len(toMain) /\ DOMAIN toMain' = 1 .. (Len(toMain) + 1)
         /\ \A i \in DOMAIN toMain : toMain'[i] = toMain[i]
         /\ toMain'[Len(toMain) + 1] = m
<1>1. toMain \in Seq(ToMain)
  BY DEF TypeOK
<1>2. /\ toMain' \in Seq(ToMain) /\ Len(toMain) \in Nat /\ Len(toMain') = Len(toMain) + 1
      /\ DOMAIN toMain = 1 .. Len(toMain) /\ DOMAIN toMain' = 1 .. (Len(toMain) + 1)
      /\ \A i \in 1 .. Len(toMain) : toMain'[i] = toMain[i]
      /\ toMain'[Len(toMain) + 1] = m
  BY <1>1, Sent
<1>3. toMain' # <<>>
  BY <1>2, EmptySeq
<1> QED
  BY <1>2, <1>3

\* The child sends the saves of a settled mutation.
LEMMA ChildSaves ==
  ASSUME TypeOK, NEW ks \in [Keys -> Values], NEW reconcile \in BOOLEAN,
         toMain' = toMain \o SavesAfter(ks, reconcile)
  PROVE  /\ Len(toMain) \in Nat /\ Len(toMain') \in Nat /\ Len(toMain') >= Len(toMain)
         /\ reconcile => Len(toMain') > Len(toMain)
         /\ DOMAIN toMain = 1 .. Len(toMain) /\ DOMAIN toMain' = 1 .. Len(toMain')
         /\ toMain' = <<>> <=> Len(toMain') = 0
         /\ \A i \in DOMAIN toMain : toMain'[i] = toMain[i] /\ i \in DOMAIN toMain'
         /\ \A i \in DOMAIN toMain' : i \notin DOMAIN toMain =>
              toMain'[i].type = "legacy" /\ toMain'[i].state.keys = ks
<1> DEFINE t == SavesAfter(ks, reconcile)
<1>1. toMain \in Seq(ToMain) /\ use \in Nat /\ deferred \in BOOLEAN
  BY DEF TypeOK
<1>2. /\ t \in Seq(ToMain) /\ DOMAIN t = 1 .. Len(t) /\ Len(t) \in Nat
      /\ \A i \in DOMAIN t : t[i].type = "legacy" /\ t[i].state.keys = ks
      /\ reconcile => Len(t) >= 1
  BY <1>1, SavesShape
<1>3. toMain' = toMain \o t
  OBVIOUS
<1> HIDE DEF t
<1>4. /\ toMain' \in Seq(ToMain) /\ Len(toMain) \in Nat
      /\ Len(toMain') = Len(toMain) + Len(t)
      /\ DOMAIN toMain = 1 .. Len(toMain)
      /\ DOMAIN toMain' = 1 .. (Len(toMain) + Len(t))
      /\ \A i \in 1 .. (Len(toMain) + Len(t)) :
           toMain'[i] = IF i <= Len(toMain) THEN toMain[i] ELSE t[i - Len(toMain)]
  BY <1>1, <1>2, <1>3, SentAll
<1>5. toMain' = <<>> <=> Len(toMain') = 0
  BY <1>4, EmptySeq
<1>6. ASSUME NEW i \in DOMAIN toMain', i \notin DOMAIN toMain
      PROVE  toMain'[i].type = "legacy" /\ toMain'[i].state.keys = ks
  <2>1. i - Len(toMain) \in DOMAIN t /\ toMain'[i] = t[i - Len(toMain)]
    BY <1>2, <1>4, <1>6
  <2> QED
    BY <1>2, <2>1
<1>7. \A i \in DOMAIN toMain : toMain'[i] = toMain[i] /\ i \in DOMAIN toMain'
  BY <1>2, <1>4
<1>8. /\ Len(toMain') \in Nat /\ Len(toMain') >= Len(toMain)
      /\ reconcile => Len(toMain') > Len(toMain)
      /\ DOMAIN toMain' = 1 .. Len(toMain')
  BY <1>2, <1>4
<1> QED
  BY <1>4, <1>5, <1>6, <1>7, <1>8

LEMMA ProtocolQuietStep ==
  ASSUME Protocol, TypeOK', RuntimeChange \/ UNCHANGED vars PROVE Protocol'
<1>1. UNCHANGED <<child, keys, revision, mut, toMain, toChild, ledger, requests>>
  BY DEF RuntimeChange, vars, mainVars
<1> QED
  BY <1>1 DEF Protocol, IdsAreSpent, CountersFollow, RequestsAscend, RequestIsLast,
              RefusalIsCurrent, ChangeIsVisible, IsRequest, IsAnswer, LastSent

LEMMA ProtocolSave ==
  ASSUME Protocol, TypeOK', Save PROVE Protocol'
<1>1. UNCHANGED <<child, keys, revision, mut, toChild, ledger, requests>>
  BY DEF Save, mainVars
<1>2. CASE UNCHANGED toMain
  BY <1>1, <1>2 DEF Protocol, IdsAreSpent, CountersFollow, RequestsAscend, RequestIsLast,
                    RefusalIsCurrent, ChangeIsVisible, IsRequest, IsAnswer, LastSent
<1>3. CASE mut = NoMut /\ toMain' = Append(toMain, Legacy(Project(keys)))
  <2>1. Legacy(Project(keys)) \in ToMain /\ Legacy(Project(keys)).type = "legacy"
    BY ProjectionShape, MessageShape DEF Protocol, TypeOK, Project
  <2>2. \A i \in DOMAIN toMain' : IsRequest(i)' => i \in DOMAIN toMain /\ toMain'[i] = toMain[i]
    BY <1>3, <2>1, ChildSends DEF Protocol, IsRequest
  <2> QED
    BY <1>1, <1>3, <2>2 DEF Protocol, IdsAreSpent, CountersFollow, RequestsAscend, RequestIsLast,
                      RefusalIsCurrent, ChangeIsVisible, IsRequest, IsAnswer
<1> QED
  BY <1>2, <1>3 DEF Save

LEMMA ProtocolBegin ==
  ASSUME Protocol, TypeOK', NEW k \in Keys, NEW new \in Values, Begin(k, new)
  PROVE  Protocol'
<1> DEFINE n == Len(toMain) + 1
<1>1. /\ requests \in Nat /\ revision \in Nat /\ ledger \in Nat /\ keys \in [Keys -> Values]
      /\ mut = NoMut /\ child = "up" /\ keys' = [keys EXCEPT ![k] = new]
      /\ requests' = requests + 1
      /\ UNCHANGED <<child, revision, toChild, ledger>>
  BY DEF Begin, Protocol, TypeOK, mainVars
<1>2. /\ mut'.id = requests + 1 /\ mut'.revision = revision + 1 /\ mut'.attempt = 1
      /\ mut'.key = k /\ mut'.new = new
  <2>1. revision + 1 \in Nat \ {0}
    BY <1>1
  <2>2. mut' = Asked(k, new, revision + 1, 1)
    BY DEF Begin
  <2> QED
    BY <1>1, <2>1, <2>2, AskedShape
<1>3. /\ toMain'[n].type = "durable" /\ toMain'[n].id = requests + 1
      /\ toMain'[n].revision = revision + 1 /\ toMain'[n].state.keys = keys'
      /\ Len(toMain) \in Nat /\ Len(toMain') = n
      /\ DOMAIN toMain = 1 .. Len(toMain) /\ DOMAIN toMain' = 1 .. n
      /\ \A i \in DOMAIN toMain : toMain'[i] = toMain[i]
  <2> DEFINE m == Durable(Project(keys'), mut'.id, mut'.revision)
  <2>1. requests + 1 \in Nat \ {0} /\ revision + 1 \in Nat \ {0}
    BY <1>1
  <2>2. Project(keys') \in Projection /\ Project(keys').keys = keys'
    BY ProjectionShape DEF Protocol, TypeOK, Project
  <2>3. m \in ToMain /\ m.type = "durable" /\ m.id = requests + 1 /\ m.revision = revision + 1
        /\ m.state.keys = keys'
    BY <1>2, <2>1, <2>2, MessageShape
  <2>4. toMain' = Append(toMain, m)
    BY DEF Begin
  <2> HIDE DEF m
  <2> QED
    BY <2>3, <2>4, ChildSends DEF Protocol
<1>4. IdsAreSpent'
  BY <1>1, <1>2, <1>3, Channels DEF Protocol, IdsAreSpent, IsRequest
<1>5. CountersFollow'
  BY <1>1, <1>2 DEF Protocol, CountersFollow
<1>6. RequestsAscend'
  <2>1. \A i \in DOMAIN toMain : IsRequest(i) =>
          toMain[i].revision \in Nat /\ toMain[i].revision <= revision + 1
    BY Channels DEF Protocol, RequestsAscend
  <2>2. ASSUME NEW i \in DOMAIN toMain', IsRequest(i)'
        PROVE  toMain'[i].revision <= revision' + 1
    <3>1. CASE i = n
      BY <1>1, <1>3, <3>1
    <3>2. CASE i # n
      <4>1. i \in DOMAIN toMain /\ toMain'[i] = toMain[i]
        BY <1>3, <3>2
      <4> QED
        BY <1>1, <2>1, <2>2, <4>1 DEF IsRequest
    <3> QED
      BY <3>1, <3>2
  <2>3. ASSUME NEW i \in DOMAIN toMain', IsRequest(i)', NEW j \in DOMAIN toMain', i < j, IsRequest(j)'
        PROVE  toMain'[i].revision <= toMain'[j].revision
    <3>1. i \in DOMAIN toMain /\ toMain'[i] = toMain[i]
      BY <1>3, <2>3
    <3>2. CASE j = n
      BY <1>3, <2>1, <2>3, <3>1, <3>2 DEF IsRequest
    <3>3. CASE j # n
      <4>1. j \in DOMAIN toMain /\ toMain'[j] = toMain[j]
        BY <1>3, <3>3
      <4> QED
        BY <2>3, <3>1, <4>1 DEF Protocol, RequestsAscend, IsRequest
    <3> QED
      BY <3>2, <3>3
  <2> QED
    BY <2>2, <2>3 DEF RequestsAscend
<1>7. RequestIsLast'
  BY <1>1, <1>2, <1>3, Channels DEF Protocol, RequestIsLast, IdsAreSpent, IsRequest, IsAnswer, LastSent
<1>8. RefusalIsCurrent'
  BY <1>1, <1>2, Channels DEF Protocol, RefusalIsCurrent, IdsAreSpent, IsAnswer
<1>9. ChangeIsVisible'
  BY <1>1, <1>2 DEF ChangeIsVisible
<1> QED
  BY <1>4, <1>5, <1>6, <1>7, <1>8, <1>9 DEF Protocol

LEMMA ProtocolDropLate ==
  ASSUME Protocol, TypeOK', DropLate PROVE Protocol'
<1>1. UNCHANGED <<child, keys, revision, mut, toMain, ledger, requests>>
  BY DEF DropLate, mainVars, childVars
<1>2. \A j \in DOMAIN toChild' : toChild'[j] = toChild[j + 1] /\ j + 1 \in DOMAIN toChild
  BY ChildReads DEF Protocol, DropLate
<1> QED
  BY <1>1, <1>2 DEF Protocol, IdsAreSpent, CountersFollow, RequestsAscend, RequestIsLast,
                    RefusalIsCurrent, ChangeIsVisible, IsRequest, IsAnswer, LastSent

\* An answer of the pending change is there only once main has read everything.
LEMMA AnsweredMeansRead ==
  ASSUME Protocol, Expected
  PROVE  /\ toMain = <<>> /\ 1 \in DOMAIN toChild /\ IsAnswer(1) /\ Head(toChild) = toChild[1]
         /\ mut # NoMut /\ mut \in Mutation
<1>1. /\ 1 \in DOMAIN toChild /\ Head(toChild) = toChild[1] /\ mut # NoMut /\ mut \in Mutation
  <2>1. toChild \in Seq(ToChild) /\ toChild # <<>> /\ mut # NoMut /\ mut \in Mutation
    BY DEF Protocol, TypeOK, Expected
  <2> QED
    BY <2>1, Read
<1>2. IsAnswer(1)
  BY <1>1 DEF Expected, IsAnswer
<1> QED
  BY <1>1, <1>2 DEF Protocol, RequestIsLast

\* A settled mutation: whatever the counter becomes, as long as it follows the ledger.
LEMMA ProtocolSettle ==
  ASSUME Protocol, TypeOK', NEW ks \in [Keys -> Values], NEW reconcile \in BOOLEAN,
         mut' = NoMut, toMain' = toMain \o SavesAfter(ks, reconcile),
         \A j \in DOMAIN toChild' : \E i \in DOMAIN toChild : toChild'[j] = toChild[i],
         revision <= revision' /\ revision' <= ledger,
         UNCHANGED <<ledger, requests>>
  PROVE  Protocol'
<1>1. \A i \in DOMAIN toMain' : IsRequest(i)' => i \in DOMAIN toMain /\ toMain'[i] = toMain[i]
  BY ChildSaves DEF Protocol, IsRequest
<1>2. revision \in Nat /\ revision' \in Nat
  BY DEF Protocol, TypeOK
<1>3. IdsAreSpent'
  BY <1>1 DEF Protocol, IdsAreSpent, IsRequest
<1>4. CountersFollow'
  BY DEF Protocol, CountersFollow
<1>5. RequestsAscend'
  BY <1>1, <1>2, Channels DEF Protocol, RequestsAscend, IsRequest
<1> QED
  BY <1>3, <1>4, <1>5 DEF Protocol, RequestIsLast, RefusalIsCurrent, ChangeIsVisible, IsAnswer

LEMMA ProtocolCommit ==
  ASSUME Protocol, TypeOK', Commit PROVE Protocol'
<1>1. /\ keys \in [Keys -> Values] /\ revision \in Nat /\ ledger \in Nat
      /\ mut' = NoMut /\ toMain' = toMain \o SavesAfter(keys, FALSE)
      /\ toChild # <<>> /\ toChild' = Tail(toChild)
      /\ UNCHANGED <<ledger, requests>>
  BY DEF Commit, Expected, Protocol, TypeOK, mainVars
<1>2. \A j \in DOMAIN toChild' : toChild'[j] = toChild[j + 1] /\ j + 1 \in DOMAIN toChild
  BY <1>1, ChildReads DEF Protocol
<1>3. revision' = revision + 1 /\ revision' <= ledger
  BY AnsweredMeansRead DEF Commit, Protocol, CountersFollow
<1>4. \A j \in DOMAIN toChild' : \E i \in DOMAIN toChild : toChild'[j] = toChild[i]
  BY <1>2
<1>5. revision <= revision' /\ revision' <= ledger
  BY <1>1, <1>3
<1> QED
  BY <1>1, <1>4, <1>5, ProtocolSettle

LEMMA ProtocolGiveUp ==
  ASSUME Protocol, TypeOK', NEW reconcile \in BOOLEAN, mut # NoMut, GiveUp(reconcile),
         UNCHANGED toChild \/ (toChild # <<>> /\ toChild' = Tail(toChild))
  PROVE  Protocol'
<1>1. RolledBack \in [Keys -> Values]
  BY RollBackUndoes DEF Protocol
<1>2. /\ mut' = NoMut /\ toMain' = toMain \o SavesAfter(RolledBack, reconcile)
      /\ UNCHANGED <<ledger, requests, revision>>
  BY DEF GiveUp, mainVars
<1>3. \A j \in DOMAIN toChild' : \E i \in DOMAIN toChild : toChild'[j] = toChild[i]
  BY ChildReads DEF Protocol
<1>4. revision \in Nat /\ ledger \in Nat /\ revision <= ledger
  BY DEF Protocol, TypeOK, CountersFollow
<1>5. revision <= revision' /\ revision' <= ledger
  BY <1>2, <1>4
<1> QED
  BY <1>1, <1>2, <1>3, <1>5, ProtocolSettle

\* What the retry sends: the saves of the rollback, then the change again.
LEMMA RetrySends ==
  ASSUME Protocol, RefusedThenRetry
  PROVE  /\ Len(toMain') \in Nat /\ Len(toMain') >= 1 /\ DOMAIN toMain' = 1 .. Len(toMain')
         /\ toMain'[Len(toMain')].type = "durable"
         /\ toMain'[Len(toMain')].id = mut'.id
         /\ toMain'[Len(toMain')].revision = mut'.revision
         /\ toMain'[Len(toMain')].state.keys = keys
         /\ \A i \in DOMAIN toMain' : i # Len(toMain') =>
              toMain'[i].type = "legacy" /\ toMain'[i].state.keys = RolledBack
         /\ MustReconcile(Head(toChild)) => Len(toMain') >= 2
         /\ mut'.id = requests + 1 /\ mut'.revision = Head(toChild).ledger + 1
         /\ mut'.attempt = 2 /\ mut'.key = mut.key /\ mut'.old = mut.old /\ mut'.new = mut.new
         /\ Head(toChild).ledger \in Nat /\ mut' # NoMut
<1> DEFINE reply == Head(toChild)
           rev   == reply.ledger + 1
           saves == SavesAfter(RolledBack, MustReconcile(reply))
           again == Durable(Project(keys), requests + 1, rev)
<1>1. /\ keys \in [Keys -> Values] /\ use \in Nat /\ deferred \in BOOLEAN /\ requests \in Nat
      /\ Project(keys) \in Projection /\ Project(keys).keys = keys
  BY ProjectionShape DEF Protocol, TypeOK, Project
<1>2. /\ toMain = <<>> /\ mut \in Mutation /\ mut # NoMut /\ reply = toChild[1]
      /\ 1 \in DOMAIN toChild
  BY AnsweredMeansRead DEF RefusedThenRetry
<1>3. reply.ledger \in Nat
  BY <1>2, Channels DEF Protocol, RefusedThenRetry
<1>4. rev \in Nat \ {0} /\ requests + 1 \in Nat \ {0} /\ RetryRevision(reply) = rev
  BY <1>1, <1>3 DEF RetryRevision
<1>5. /\ mut'.id = requests + 1 /\ mut'.revision = rev /\ mut'.attempt = 2
      /\ mut'.key = mut.key /\ mut'.old = mut.old /\ mut'.new = mut.new /\ mut' # NoMut
  <2>1. mut' = [mut EXCEPT !.id = requests + 1, !.revision = rev, !.attempt = 2]
    BY <1>4 DEF RefusedThenRetry
  <2> HIDE DEF rev
  <2>2. mut' \in Mutation
    BY <1>1, <1>2, <1>4, <2>1, AskedAgainShape
  <2>3. mut' # NoMut
    BY <2>2, MutationShape
  <2>4. /\ mut'.id = requests + 1 /\ mut'.revision = rev /\ mut'.attempt = 2
        /\ mut'.key = mut.key /\ mut'.old = mut.old /\ mut'.new = mut.new
    BY <1>1, <1>2, <1>4, <2>1 DEF Mutation
  <2> QED
    BY <2>3, <2>4
<1>6. /\ saves \in Seq(ToMain) /\ DOMAIN saves = 1 .. Len(saves) /\ Len(saves) \in Nat
      /\ \A i \in DOMAIN saves : saves[i].type = "legacy" /\ saves[i].state.keys = RolledBack
      /\ MustReconcile(reply) => Len(saves) >= 1
  <2>1. RolledBack \in [Keys -> Values] /\ MustReconcile(reply) \in BOOLEAN
    BY <1>2, RollBackUndoes DEF Protocol, MustReconcile
  <2> QED
    BY <1>1, <2>1, SavesShape
<1>7. /\ again \in ToMain /\ again.type = "durable" /\ again.id = requests + 1
      /\ again.revision = rev /\ again.state.keys = keys
  BY <1>1, <1>4, MessageShape
<1>8. toMain' = saves \o <<again>>
  <2>1. toMain' = toMain \o saves \o <<again>>
    BY <1>4 DEF RefusedThenRetry
  <2> HIDE DEF saves, again
  <2>2. <<>> \o saves = saves
    BY <1>6
  <2> QED
    BY <1>2, <2>1, <2>2
<1> HIDE DEF saves, again, rev, reply
<1>9. /\ <<again>> \in Seq(ToMain) /\ Len(<<again>>) = 1 /\ <<again>>[1] = again
  BY <1>7
<1>10. /\ Len(toMain') = Len(saves) + 1 /\ DOMAIN toMain' = 1 .. (Len(saves) + 1)
       /\ \A i \in 1 .. (Len(saves) + 1) :
            toMain'[i] = IF i <= Len(saves) THEN saves[i] ELSE <<again>>[i - Len(saves)]
  BY <1>6, <1>8, <1>9, SentAll
<1>11. toMain'[Len(toMain')] = again
  BY <1>6, <1>9, <1>10
<1>12. ASSUME NEW i \in DOMAIN toMain', i # Len(toMain')
       PROVE  toMain'[i].type = "legacy" /\ toMain'[i].state.keys = RolledBack
  BY <1>6, <1>10, <1>12
<1>13. /\ Len(toMain') \in Nat /\ Len(toMain') >= 1 /\ DOMAIN toMain' = 1 .. Len(toMain')
       /\ MustReconcile(reply) => Len(toMain') >= 2
  BY <1>6, <1>10
<1> QED
  BY <1>3, <1>5, <1>7, <1>11, <1>12, <1>13 DEF reply, rev

LEMMA ProtocolRetry ==
  ASSUME Protocol, TypeOK', RefusedThenRetry PROVE Protocol'
<1> DEFINE n == Len(toMain')
<1>1. /\ requests \in Nat /\ revision \in Nat /\ ledger \in Nat
      /\ child = "up" /\ mut # NoMut /\ requests' = requests + 1
      /\ revision' = Head(toChild).ledger /\ toChild # <<>> /\ toChild' = Tail(toChild)
      /\ UNCHANGED <<child, keys, ledger>>
  BY DEF RefusedThenRetry, Expected, Protocol, TypeOK, mainVars
<1>2. /\ n \in Nat /\ n >= 1 /\ DOMAIN toMain' = 1 .. n
      /\ toMain'[n].type = "durable" /\ toMain'[n].id = requests + 1
      /\ toMain'[n].revision = revision' + 1 /\ toMain'[n].state.keys = keys
      /\ \A i \in DOMAIN toMain' : IsRequest(i)' => i = n
      /\ mut'.id = requests + 1 /\ mut'.revision = revision' + 1
      /\ mut'.attempt = 2 /\ mut'.key = mut.key /\ mut'.new = mut.new /\ revision' \in Nat
  <2>1. \A i \in DOMAIN toMain' : IsRequest(i)' => i = n
    BY RetrySends DEF IsRequest
  <2>2. n \in Nat /\ n >= 1 /\ DOMAIN toMain' = 1 .. n
    BY RetrySends
  <2>3. /\ mut'.id = requests + 1 /\ mut'.revision = revision' + 1
        /\ mut'.attempt = 2 /\ mut'.key = mut.key /\ mut'.new = mut.new /\ revision' \in Nat
    BY <1>1, RetrySends
  <2>4. /\ toMain'[n].type = "durable" /\ toMain'[n].id = mut'.id
        /\ toMain'[n].revision = mut'.revision /\ toMain'[n].state.keys = keys
    BY RetrySends
  <2> HIDE DEF n
  <2> QED
    BY <2>1, <2>2, <2>3, <2>4 DEF IsRequest
<1>3. \A j \in DOMAIN toChild' : toChild'[j] = toChild[j + 1] /\ j + 1 \in DOMAIN toChild
  BY <1>1, ChildReads DEF Protocol
<1>4. revision' = ledger
  BY <1>1, AnsweredMeansRead DEF RefusedThenRetry, Protocol, RefusalIsCurrent
<1>5. \A j \in DOMAIN toChild' : toChild'[j].id <= requests /\ toChild'[j].id \in Nat
  BY <1>3, Channels DEF Protocol, IdsAreSpent
<1>6. IdsAreSpent'
  BY <1>1, <1>2, <1>5 DEF IdsAreSpent
<1>7. CountersFollow'
  BY <1>1, <1>2, <1>3, <1>4 DEF Protocol, CountersFollow
<1>8. RequestsAscend'
  BY <1>2 DEF RequestsAscend
<1>9. RequestIsLast'
  <2>1. \A j \in DOMAIN toChild' : ~IsAnswer(j)'
    BY <1>1, <1>2, <1>5 DEF IsAnswer
  <2>2. LastSent' = toMain'[n]
    BY DEF LastSent
  <2>3. /\ IsRequest(Len(toMain))' /\ LastSent'.id = mut'.id
        /\ LastSent'.revision = mut'.revision /\ LastSent'.state.keys = keys'
        /\ mut'.revision = ledger' + 1
    <3>1. IsRequest(Len(toMain))'
      BY <1>2 DEF IsRequest
    <3> QED
      BY <1>1, <1>2, <1>4, <2>2, <3>1
  <2>4. \A i \in DOMAIN toMain' : IsRequest(i)' => i = Len(toMain')
    BY <1>2
  <2> QED
    BY <2>1, <2>3, <2>4 DEF RequestIsLast
<1>10. RefusalIsCurrent'
  BY <1>1, <1>2, <1>5 DEF RefusalIsCurrent, IsAnswer
<1>11. ChangeIsVisible'
  BY <1>1, <1>2 DEF Protocol, ChangeIsVisible
<1> QED
  BY <1>6, <1>7, <1>8, <1>9, <1>10, <1>11 DEF Protocol

\* Reading a message, whatever main then does with it, keeps what is said of the rest.
LEMMA RestStays ==
  ASSUME Protocol, toMain # <<>>, toMain' = Tail(toMain),
         UNCHANGED <<child, keys, revision, mut, requests>>
  PROVE  /\ RequestsAscend' /\ ChangeIsVisible'
         /\ mut # NoMut => child = "up" /\ mut.id <= requests
         /\ \A i \in DOMAIN toMain' : IsRequest(i)' => toMain'[i].id <= requests
         /\ mut # NoMut /\ toMain' # <<>> =>
              /\ toMain'[Len(toMain')].type = "durable"
              /\ LastSent'.id = mut.id /\ LastSent'.revision = mut.revision
              /\ LastSent'.state.keys = keys
              /\ \A i \in DOMAIN toMain' :
                   IsRequest(i)' /\ toMain'[i].id = mut.id => i = Len(toMain')
              /\ IsRequest(1) => toMain[1].id # mut.id /\ mut.attempt # 2
              /\ mut.attempt = 2 => \A i \in DOMAIN toMain' : IsRequest(i)' => i = Len(toMain')
<1> DEFINE n == Len(toMain)
<1>1. /\ n \in Nat /\ n >= 1 /\ Len(toMain') = n - 1
      /\ DOMAIN toMain = 1 .. n /\ DOMAIN toMain' = 1 .. (n - 1)
      /\ toMain' = <<>> <=> n = 1
      /\ \A i \in DOMAIN toMain' : toMain'[i] = toMain[i + 1] /\ i + 1 \in DOMAIN toMain
  BY MainReads DEF Protocol
<1>2. RequestsAscend'
  BY <1>1 DEF Protocol, RequestsAscend, IsRequest
<1>3. /\ ChangeIsVisible' /\ (mut # NoMut => child = "up" /\ mut.id <= requests)
      /\ \A i \in DOMAIN toMain' : IsRequest(i)' => toMain'[i].id <= requests
  BY <1>1 DEF Protocol, IdsAreSpent, ChangeIsVisible, IsRequest
<1>4. ASSUME mut # NoMut, toMain' # <<>>
      PROVE  /\ toMain'[Len(toMain')].type = "durable"
             /\ LastSent'.id = mut.id /\ LastSent'.revision = mut.revision
             /\ LastSent'.state.keys = keys
             /\ \A i \in DOMAIN toMain' :
                  IsRequest(i)' /\ toMain'[i].id = mut.id => i = Len(toMain')
             /\ IsRequest(1) => toMain[1].id # mut.id /\ mut.attempt # 2
             /\ mut.attempt = 2 => \A i \in DOMAIN toMain' : IsRequest(i)' => i = Len(toMain')
  <2>1. /\ IsRequest(n) /\ toMain[n].id = mut.id /\ toMain[n].revision = mut.revision
        /\ toMain[n].state.keys = keys
        /\ \A i \in DOMAIN toMain : IsRequest(i) /\ toMain[i].id = mut.id => i = n
        /\ mut.attempt = 2 => \A i \in DOMAIN toMain : IsRequest(i) => i = n
    BY <1>4 DEF Protocol, RequestIsLast, LastSent
  <2>2. n > 1 /\ toMain'[n - 1] = toMain[n] /\ LastSent' = toMain[n] /\ 1 \in DOMAIN toMain
    BY <1>1, <1>4 DEF LastSent
  <2>3. \A i \in DOMAIN toMain' : i + 1 = n => i = Len(toMain')
    BY <1>1
  <2> HIDE DEF n
  <2> QED
    BY <1>1, <2>1, <2>2, <2>3 DEF IsRequest
<1> QED
  BY <1>2, <1>3, <1>4

LEMMA ProtocolHandleLegacy ==
  ASSUME Protocol, TypeOK', HandleLegacy PROVE Protocol'
<1>1. /\ toMain # <<>> /\ toMain' = Tail(toMain)
      /\ UNCHANGED <<child, keys, revision, mut, requests, toChild, ledger>>
  BY DEF HandleLegacy, Received, childVars
<1>2. IdsAreSpent' /\ CountersFollow'
  BY <1>1, RestStays DEF Protocol, IdsAreSpent, CountersFollow, IsRequest
<1>3. RefusalIsCurrent'
  BY <1>1 DEF Protocol, RefusalIsCurrent, IsAnswer
<1>4. RequestIsLast'
  BY <1>1, RestStays DEF Protocol, RequestIsLast, LastSent, IsRequest, IsAnswer
<1> QED
  BY <1>1, <1>2, <1>3, <1>4, RestStays DEF Protocol

\* The four ways a durable request is handled.
Replayed(msg, r)  == /\ IsReplay(msg) /\ r.type = "ack" /\ r.revision = ledger
                     /\ UNCHANGED <<ledger, recorded, disk, failures>>
Mistimed(msg, r)  == /\ r.type = "rejected" /\ r.ledger = ledger /\ r.code = "revision"
                     /\ UNCHANGED <<ledger, recorded, disk, failures>>
Written(msg, r)   == /\ msg.revision = ledger + 1 /\ r.type = "ack" /\ r.revision = ledger + 1
                     /\ ledger' = ledger + 1 /\ recorded' = msg.state /\ disk' = msg.state
                     /\ failures' = {}
Unwritten(msg, r) == /\ msg.revision = ledger + 1 /\ r.type = "rejected" /\ r.ledger = ledger
                     /\ r.code = "write-failed" /\ disk' \in {disk, msg.state}
                     /\ UNCHANGED <<ledger, recorded, failures>>

LEMMA DurableOutcome ==
  ASSUME TypeOK, HandleDurable
  PROVE  \E r \in ToChild :
           /\ r.id = toMain[1].id
           /\ toChild' = IF child = "up" THEN Append(toChild, r) ELSE toChild
           /\ \/ Replayed(toMain[1], r) \/ Mistimed(toMain[1], r)
              \/ Written(toMain[1], r) \/ Unwritten(toMain[1], r)
<1> DEFINE msg == toMain[1]
<1>1. /\ msg = Head(toMain) /\ msg \in ToMain /\ msg.type = "durable"
      /\ msg.id \in Nat \ {0} /\ msg.revision \in Nat \ {0} /\ ledger \in Nat
  BY MainReads, MessageShape DEF HandleDurable, Received, TypeOK
<1> HIDE DEF msg
<1>2. /\ Ack(msg.id, msg.revision) \in ToChild
      /\ Ack(msg.id, msg.revision).type = "ack" /\ Ack(msg.id, msg.revision).id = msg.id
      /\ Ack(msg.id, msg.revision).revision = msg.revision
  BY <1>1, AnswerShape
<1>3. \A code \in {"revision", "write-failed"} :
        /\ Rejected(msg.id, code) \in ToChild /\ Rejected(msg.id, code).type = "rejected"
        /\ Rejected(msg.id, code).id = msg.id /\ Rejected(msg.id, code).code = code
        /\ Rejected(msg.id, code).ledger = ledger
  BY <1>1, AnswerShape
<1> DEFINE reply(r) == toChild' = IF child = "up" THEN Append(toChild, r) ELSE toChild
<1>4. \/ /\ IsReplay(msg) /\ reply(Ack(msg.id, msg.revision))
         /\ UNCHANGED <<ledger, recorded, disk, failures>>
      \/ reply(Rejected(msg.id, "revision")) /\ UNCHANGED <<ledger, recorded, disk, failures>>
      \/ /\ msg.revision = ledger + 1 /\ ledger' = msg.revision
         /\ recorded' = msg.state /\ disk' = msg.state /\ failures' = {} /\ reply(Ack(msg.id, msg.revision))
      \/ /\ msg.revision = ledger + 1 /\ disk' \in {disk, msg.state}
         /\ reply(Rejected(msg.id, "write-failed")) /\ UNCHANGED <<ledger, recorded, failures>>
  BY <1>1 DEF HandleDurable
<1>5. CASE /\ IsReplay(msg) /\ reply(Ack(msg.id, msg.revision))
           /\ UNCHANGED <<ledger, recorded, disk, failures>>
  <2>1. Replayed(msg, Ack(msg.id, msg.revision))
    BY <1>2, <1>5 DEF Replayed, IsReplay
  <2> QED
    BY <1>2, <1>5, <2>1 DEF msg
<1>6. CASE reply(Rejected(msg.id, "revision")) /\ UNCHANGED <<ledger, recorded, disk, failures>>
  <2>1. Mistimed(msg, Rejected(msg.id, "revision"))
    BY <1>3, <1>6 DEF Mistimed
  <2> QED
    BY <1>3, <1>6, <2>1 DEF msg
<1>7. CASE /\ msg.revision = ledger + 1 /\ ledger' = msg.revision
           /\ recorded' = msg.state /\ disk' = msg.state /\ failures' = {} /\ reply(Ack(msg.id, msg.revision))
  <2>1. Written(msg, Ack(msg.id, msg.revision))
    BY <1>2, <1>7 DEF Written
  <2> QED
    BY <1>2, <1>7, <2>1 DEF msg
<1>8. CASE /\ msg.revision = ledger + 1 /\ disk' \in {disk, msg.state}
           /\ reply(Rejected(msg.id, "write-failed")) /\ UNCHANGED <<ledger, recorded, failures>>
  <2>1. Unwritten(msg, Rejected(msg.id, "write-failed"))
    BY <1>3, <1>8 DEF Unwritten
  <2> QED
    BY <1>3, <1>8, <2>1 DEF msg
<1> QED
  BY <1>4, <1>5, <1>6, <1>7, <1>8

\* What is new on the channel to the child after a request was handled.
LEMMA MainAnswers ==
  ASSUME TypeOK, NEW r \in ToChild,
         toChild' = IF child = "up" THEN Append(toChild, r) ELSE toChild
  PROVE  \A j \in DOMAIN toChild' :
           (j \in DOMAIN toChild /\ toChild'[j] = toChild[j]) \/ toChild'[j] = r
<1>1. toChild \in Seq(ToChild)
  BY DEF TypeOK
<1>2. CASE child = "up"
  BY <1>1, <1>2, Sent
<1>3. CASE child # "up"
  BY <1>3
<1> QED
  BY <1>2, <1>3

LEMMA ProtocolHandleDurable ==
  ASSUME Protocol, TypeOK', HandleDurable PROVE Protocol'
<1> DEFINE msg == toMain[1]
<1>1. /\ toMain # <<>> /\ toMain' = Tail(toMain) /\ IsRequest(1) /\ 1 \in DOMAIN toMain
      /\ UNCHANGED <<child, keys, revision, mut, requests>>
      /\ ledger \in Nat /\ revision \in Nat /\ TypeOK
  <2>1. toMain # <<>> /\ toMain' = Tail(toMain) /\ Head(toMain).type = "durable"
        /\ UNCHANGED <<child, keys, revision, mut, requests>>
    BY DEF HandleDurable, Received, childVars
  <2> QED
    BY <2>1, MainReads DEF Protocol, TypeOK, IsRequest
<1>2. PICK r \in ToChild :
           /\ r.id = msg.id
           /\ toChild' = IF child = "up" THEN Append(toChild, r) ELSE toChild
           /\ \/ Replayed(msg, r) \/ Mistimed(msg, r) \/ Written(msg, r) \/ Unwritten(msg, r)
  BY <1>1, DurableOutcome
<1>3. \A j \in DOMAIN toChild' :
        (j \in DOMAIN toChild /\ toChild'[j] = toChild[j]) \/ toChild'[j] = r
  BY <1>1, <1>2, MainAnswers
<1>4. /\ ledger' \in {ledger, ledger + 1}
      /\ r.type = "ack" => r.revision <= ledger'
      /\ r.type = "rejected" => r.ledger = ledger /\ ledger' = ledger
  BY <1>1, <1>2 DEF Replayed, Mistimed, Written, Unwritten
<1>5. msg.id <= requests
  BY <1>1 DEF Protocol, IdsAreSpent
<1>6. IdsAreSpent'
  <2>1. \A j \in DOMAIN toChild' : toChild'[j].id <= requests
    BY <1>2, <1>3, <1>5 DEF Protocol, IdsAreSpent
  <2> QED
    BY <1>1, <2>1, RestStays DEF IdsAreSpent, IsRequest
<1>7. CountersFollow'
  <2>1. ASSUME NEW j \in DOMAIN toChild'
        PROVE  /\ toChild'[j].type = "ack" => toChild'[j].revision <= ledger'
               /\ toChild'[j].type = "rejected" => toChild'[j].ledger <= ledger'
    <3>1. CASE j \in DOMAIN toChild /\ toChild'[j] = toChild[j]
      <4>1. /\ toChild[j].type = "ack" => toChild[j].revision \in Nat /\ toChild[j].revision <= ledger
            /\ toChild[j].type = "rejected" => toChild[j].ledger \in Nat /\ toChild[j].ledger <= ledger
        BY <1>1, <3>1, Channels DEF Protocol, CountersFollow
      <4> QED
        BY <1>1, <1>4, <3>1, <4>1
    <3>2. CASE toChild'[j] = r
      BY <1>1, <1>4, <3>2
    <3> QED
      BY <1>3, <3>1, <3>2
  <2>2. revision' <= ledger' /\ (mut' # NoMut => mut'.revision = revision' + 1)
    BY <1>1, <1>4 DEF Protocol, CountersFollow
  <2> QED
    BY <2>1, <2>2 DEF CountersFollow
<1>8. ASSUME mut # NoMut, toMain' # <<>>, NEW j \in DOMAIN toChild'
      PROVE  ~IsAnswer(j)'
  BY <1>1, <1>2, <1>3, <1>8, RestStays DEF Protocol, RequestIsLast, IsAnswer
<1>9. RequestIsLast'
  <2>1. ASSUME mut # NoMut, toMain' # <<>> PROVE mut.attempt # 2
    BY <1>1, <2>1, RestStays
  <2>2. ASSUME mut # NoMut, toMain' # <<>>
        PROVE  /\ IsRequest(Len(toMain))'
               /\ LastSent'.id = mut.id /\ LastSent'.revision = mut.revision
               /\ LastSent'.state.keys = keys
               /\ \A i \in DOMAIN toMain' :
                    IsRequest(i)' /\ toMain'[i].id = mut.id => i = Len(toMain')
    BY <1>1, <2>2, RestStays DEF IsRequest
  <2> QED
    BY <1>1, <1>8, <2>1, <2>2 DEF RequestIsLast
<1>10. RefusalIsCurrent'
  <2> SUFFICES ASSUME NEW j \in DOMAIN toChild', mut # NoMut, toChild'[j].id = mut.id,
                      toChild'[j].type = "rejected"
               PROVE  toChild'[j].ledger = ledger'
    BY <1>1 DEF RefusalIsCurrent, IsAnswer
  <2>1. ~(j \in DOMAIN toChild /\ toChild'[j] = toChild[j])
    BY <1>1 DEF Protocol, RequestIsLast, IsAnswer
  <2> QED
    BY <1>3, <1>4, <2>1
<1> QED
  BY <1>1, <1>6, <1>7, <1>9, <1>10, RestStays DEF Protocol

\* Nothing pending and no answer under way: a stop or a start of the child.
LEMMA ProtocolStop ==
  ASSUME Protocol, TypeOK', ChildCrash \/ ChildShutdown PROVE Protocol'
<1>1. /\ mut' = NoMut /\ toChild' = <<>> /\ UNCHANGED <<revision, ledger, requests>>
  BY DEF ChildCrash, ChildShutdown, mainVars
<1>2. \A i \in DOMAIN toMain' : IsRequest(i)' => i \in DOMAIN toMain /\ toMain'[i] = toMain[i]
  <2>1. CASE toMain' = <<>>
    BY <2>1
  <2>2. CASE toMain' = toMain
    BY <2>2
  <2>3. CASE toMain' = Append(toMain, Legacy(Project(keys)))
    <3>1. Legacy(Project(keys)) \in ToMain /\ Legacy(Project(keys)).type = "legacy"
      BY ProjectionShape, MessageShape DEF Protocol, TypeOK, Project
    <3> QED
      BY <2>3, <3>1, ChildSends DEF Protocol, IsRequest
  <2> QED
    BY <2>1, <2>2, <2>3 DEF ChildCrash, ChildShutdown
<1> QED
  BY <1>1, <1>2 DEF Protocol, IdsAreSpent, CountersFollow, RequestsAscend, RequestIsLast,
                    RefusalIsCurrent, ChangeIsVisible, IsRequest, IsAnswer

LEMMA ProtocolStart ==
  ASSUME Protocol, TypeOK', ChildRestart \/ Relaunch PROVE Protocol'
<1>1. /\ mut' = NoMut /\ toMain' = <<>> /\ toChild' = <<>> /\ revision' = 0 /\ ledger' = 0
      /\ DOMAIN toMain' = {} /\ DOMAIN toChild' = {}
  BY DEF ChildRestart, Relaunch, ChildStarts
<1> QED
  BY <1>1 DEF Protocol, IdsAreSpent, CountersFollow, RequestsAscend, RequestIsLast,
              RefusalIsCurrent, ChangeIsVisible, IsRequest, IsAnswer

LEMMA ProtocolInit == Init => Protocol
<1> SUFFICES ASSUME Init PROVE Protocol
  OBVIOUS
<1>1. /\ child = "up" /\ keys = disk.keys /\ use = 0 /\ unsaved = FALSE /\ deferred = FALSE
      /\ revision = 0 /\ mut = NoMut /\ toMain = <<>> /\ toChild = <<>> /\ ledger = 0
      /\ recorded = Nothing /\ launch = disk /\ disk \in Projection /\ keys \in [Keys -> Values]
      /\ launches = 0 /\ requests = 0 /\ answered = [k \in Keys |-> Unknown]
      /\ failures = {} /\ voided = {}
      /\ DOMAIN toMain = {} /\ DOMAIN toChild = {}
  BY DEF Init, Projection
<1>2. TypeOK
  BY <1>1, Unsent DEF TypeOK
<1> QED
  BY <1>1, <1>2 DEF Protocol, IdsAreSpent, CountersFollow, RequestsAscend, RequestIsLast,
                    RefusalIsCurrent, ChangeIsVisible, IsAnswer

LEMMA ProtocolStep == DurablePersistAssumption /\ Protocol /\ [Next]_vars => Protocol'
<1> SUFFICES ASSUME DurablePersistAssumption, Protocol, [Next]_vars PROVE Protocol'
  OBVIOUS
<1>1. TypeOK'
  BY TypeStep DEF Protocol
<1>2. CASE Refused
  <2>1. /\ mut # NoMut /\ toChild # <<>> /\ toChild' = Tail(toChild)
        /\ GiveUp(MustReconcile(Head(toChild)))
    BY <1>2 DEF Refused, Expected
  <2>2. MustReconcile(Head(toChild)) \in BOOLEAN
    BY DEF MustReconcile
  <2> QED
    BY <1>1, <2>1, <2>2, ProtocolGiveUp
<1>3. CASE Timeout
  BY <1>1, <1>3, ProtocolGiveUp DEF Timeout
<1>4. CASE \E k \in Keys, new \in Values : Begin(k, new)
  BY <1>1, <1>4, ProtocolBegin
<1> QED
  BY <1>1, <1>2, <1>3, <1>4, ProtocolQuietStep, ProtocolSave, ProtocolDropLate, ProtocolCommit,
     ProtocolRetry, ProtocolHandleLegacy, ProtocolHandleDurable, ProtocolStop, ProtocolStart
  DEF Next, ChildStep, MainStep

\* The channels and counters of the two processes always agree in this way: for every
\* set of keys, every way writes fail, and children that come and go (executeDurable-
\* Mutation in rotation.mjs, handleDurable in private-state-channel.ts).
THEOREM Invariance ==
  ASSUME DurablePersistAssumption PROVE Spec => []Protocol
<1> QED
  BY ProtocolInit, ProtocolStep, PTL DEF Spec

\* Every variable keeps its type.
THEOREM TypeCorrect ==
  ASSUME DurablePersistAssumption PROVE Spec => []TypeOK
<1>1. Protocol => TypeOK
  BY DEF Protocol
<1> QED
  BY <1>1, Invariance, PTL

LEMMA RetryMeaning == Protocol => RetryHeals
<1> SUFFICES ASSUME Protocol PROVE RetryHeals
  OBVIOUS
<1>1. DOMAIN toMain = 1 .. Len(toMain) /\ (toMain = <<>> <=> Len(toMain) = 0)
  BY Channels DEF Protocol
<1> QED
  BY <1>1 DEF Protocol, CountersFollow, RequestIsLast, RetryHeals

\* The counters of the two processes never block each other, however requests, lost
\* acknowledgements, refusals and retries fall: the child's counter does not overtake
\* the ledger, and the one retry after a re-synchronisation asks for the revision the
\* main process expects (executeDurableWithSingleRetry).
THEOREM RetryHealsAlways ==
  ASSUME DurablePersistAssumption PROVE Spec => []RetryHeals
<1> QED
  BY RetryMeaning, Invariance, PTL

-----------------------------------------------------------------------------
(* What an acknowledgement proves: everything, except while a background save is   *)
(* torn, which is the gap durable_replay_v shows.                                  *)

\* A background save replaced the primary file and failed, and no write succeeded since.
Torn == "after-primary" \in failures

\* Where the file differs from the projection on record, and no background save is torn,
\* a write of the next revision failed half-way: nothing under way replays a recorded
\* revision, and the child's counter stands at the ledger.
DoubtIsOpen ==
  recorded # Nothing /\ disk.keys # recorded.keys /\ ~Torn =>
    /\ revision = ledger
    /\ \A i \in DOMAIN toMain : IsRequest(i) => toMain[i].revision > ledger

\* An acknowledgement the child waits for says that the file holds its keys.
AckIsTrue ==
  \A j \in DOMAIN toChild :
    IsAnswer(j) /\ toChild[j].type = "ack" /\ ~Torn => disk.keys = keys

Evidence == Protocol /\ DoubtIsOpen /\ AckIsTrue

\* Steps of the child that send saves only.
LEMMA DoubtStaysOpen ==
  ASSUME Evidence, UNCHANGED <<recorded, disk, ledger, failures>>,
         \A i \in DOMAIN toMain' : IsRequest(i)' =>
            \/ i \in DOMAIN toMain /\ toMain'[i] = toMain[i]
            \/ toMain'[i].revision > ledger,
         revision' = revision \/ revision < ledger
  PROVE  DoubtIsOpen'
<1>1. revision \in Nat /\ ledger \in Nat
  BY DEF Evidence, Protocol, TypeOK
<1>2. CASE revision < ledger
  BY <1>1, <1>2 DEF Evidence, DoubtIsOpen, Torn
<1>3. CASE revision' = revision
  BY <1>3 DEF Evidence, DoubtIsOpen, Torn, IsRequest
<1> QED
  BY <1>2, <1>3

LEMMA EvidenceQuietStep ==
  ASSUME Evidence, Protocol', RuntimeChange \/ UNCHANGED vars PROVE Evidence'
<1>1. UNCHANGED <<keys, revision, mut, toMain, toChild, ledger, disk, recorded, failures>>
  BY DEF RuntimeChange, vars, mainVars
<1> QED
  BY <1>1 DEF Evidence, DoubtIsOpen, AckIsTrue, Torn, IsRequest, IsAnswer

LEMMA EvidenceSave ==
  ASSUME Evidence, Protocol', Save PROVE Evidence'
<1>1. UNCHANGED <<keys, revision, mut, toChild, ledger, disk, recorded, failures>>
  BY DEF Save, mainVars
<1>2. \A i \in DOMAIN toMain' : IsRequest(i)' => i \in DOMAIN toMain /\ toMain'[i] = toMain[i]
  <2>1. CASE UNCHANGED toMain
    BY <2>1
  <2>2. CASE toMain' = Append(toMain, Legacy(Project(keys)))
    <3>1. Legacy(Project(keys)) \in ToMain /\ Legacy(Project(keys)).type = "legacy"
      BY ProjectionShape, MessageShape DEF Evidence, Protocol, TypeOK, Project
    <3> QED
      BY <2>2, <3>1, ChildSends DEF Evidence, Protocol, IsRequest
  <2> QED
    BY <2>1, <2>2 DEF Save
<1>3. DoubtIsOpen'
  BY <1>1, <1>2, DoubtStaysOpen
<1> QED
  BY <1>1, <1>3 DEF Evidence, AckIsTrue, Torn, IsAnswer

LEMMA EvidenceBegin ==
  ASSUME Evidence, Protocol', NEW k \in Keys, NEW new \in Values, Begin(k, new)
  PROVE  Evidence'
<1>1. UNCHANGED <<revision, toChild, ledger, disk, recorded, failures>> /\ mut = NoMut
  BY DEF Begin, mainVars
<1>2. requests \in Nat /\ revision \in Nat /\ ledger \in Nat /\ keys \in [Keys -> Values]
  BY DEF Evidence, Protocol, TypeOK
<1>3. mut'.id = requests + 1 /\ mut'.revision = revision + 1 /\ mut' \in Mutation
  <2>1. revision + 1 \in Nat \ {0} /\ mut' = Asked(k, new, revision + 1, 1)
    BY <1>2 DEF Begin
  <2> QED
    BY <1>2, <2>1, AskedShape
<1>4. \A i \in DOMAIN toMain' :
        (i \in DOMAIN toMain /\ toMain'[i] = toMain[i]) \/ toMain'[i].revision = revision + 1
  <2> DEFINE m == Durable(Project(keys'), mut'.id, mut'.revision)
  <2>1. m \in ToMain /\ m.revision = revision + 1
    <3>1. Project(keys') \in Projection
      BY ProjectionShape DEF Protocol, TypeOK, Project, Evidence, Begin
    <3> QED
      BY <1>3, <3>1, MessageShape, MutationShape
  <2>2. toMain' = Append(toMain, m)
    BY DEF Begin
  <2> HIDE DEF m
  <2> QED
    BY <2>1, <2>2, ChildSends DEF Evidence, Protocol
<1>5. DoubtIsOpen'
  BY <1>1, <1>2, <1>4 DEF Evidence, DoubtIsOpen, Torn, IsRequest
<1>6. AckIsTrue'
  <2>1. \A j \in DOMAIN toChild : toChild[j].id \in Nat /\ toChild[j].id <= requests
    BY Channels DEF Evidence, Protocol, IdsAreSpent
  <2> QED
    BY <1>1, <1>2, <1>3, <2>1 DEF AckIsTrue, Torn, IsAnswer
<1> QED
  BY <1>5, <1>6 DEF Evidence

LEMMA EvidenceDropLate ==
  ASSUME Evidence, Protocol', DropLate PROVE Evidence'
<1>1. UNCHANGED <<keys, revision, mut, toMain, ledger, disk, recorded, failures>>
  BY DEF DropLate, mainVars, childVars
<1>2. \A j \in DOMAIN toChild' : toChild'[j] = toChild[j + 1] /\ j + 1 \in DOMAIN toChild
  BY ChildReads DEF Evidence, Protocol, DropLate
<1> QED
  BY <1>1, <1>2 DEF Evidence, DoubtIsOpen, AckIsTrue, Torn, IsRequest, IsAnswer

LEMMA EvidenceSettle ==
  ASSUME Evidence, Protocol', NEW ks \in [Keys -> Values], NEW reconcile \in BOOLEAN,
         mut' = NoMut, toMain' = toMain \o SavesAfter(ks, reconcile),
         UNCHANGED <<ledger, disk, recorded, failures>>, revision' = revision \/ revision < ledger
  PROVE  Evidence'
<1>1. \A i \in DOMAIN toMain' : IsRequest(i)' => i \in DOMAIN toMain /\ toMain'[i] = toMain[i]
  BY ChildSaves DEF Evidence, Protocol, IsRequest
<1>2. DoubtIsOpen'
  BY <1>1, DoubtStaysOpen
<1> QED
  BY <1>2 DEF Evidence, AckIsTrue, Torn, IsAnswer

LEMMA EvidenceCommit ==
  ASSUME Evidence, Protocol', Commit PROVE Evidence'
<1>1. /\ keys \in [Keys -> Values] /\ mut' = NoMut /\ toMain' = toMain \o SavesAfter(keys, FALSE)
      /\ UNCHANGED <<ledger, disk, recorded, failures>> /\ revision \in Nat /\ ledger \in Nat
  BY DEF Commit, Evidence, Protocol, TypeOK, mainVars
<1>2. revision + 1 <= ledger
  BY AnsweredMeansRead DEF Evidence, Commit, Protocol, CountersFollow
<1>3. revision < ledger
  BY <1>1, <1>2
<1> QED
  BY <1>1, <1>3, EvidenceSettle

LEMMA EvidenceGiveUp ==
  ASSUME Evidence, Protocol', NEW reconcile \in BOOLEAN, mut # NoMut, GiveUp(reconcile)
  PROVE  Evidence'
<1>1. RolledBack \in [Keys -> Values]
  BY RollBackUndoes DEF Evidence, Protocol
<1>2. /\ mut' = NoMut /\ toMain' = toMain \o SavesAfter(RolledBack, reconcile)
      /\ UNCHANGED <<ledger, revision, disk, recorded, failures>>
  BY DEF GiveUp, mainVars
<1> QED
  BY <1>1, <1>2, EvidenceSettle

LEMMA EvidenceRetry ==
  ASSUME Evidence, Protocol', RefusedThenRetry PROVE Evidence'
<1>1. /\ requests \in Nat /\ revision \in Nat /\ ledger \in Nat
      /\ toChild # <<>> /\ toChild' = Tail(toChild) /\ Head(toChild).ledger > revision
      /\ UNCHANGED <<keys, ledger, disk, recorded, failures>>
  BY DEF RefusedThenRetry, LedgerAhead, Expected, Evidence, Protocol, TypeOK, mainVars
<1>2. Head(toChild).ledger = ledger
  BY AnsweredMeansRead DEF RefusedThenRetry, Evidence, Protocol, RefusalIsCurrent
<1>3. mut'.id = requests + 1 /\ mut' # NoMut
  BY RetrySends DEF Evidence
<1>4. DoubtIsOpen'
  BY <1>1, <1>2 DEF Evidence, DoubtIsOpen, Torn
<1>5. AckIsTrue'
  <2>1. \A j \in DOMAIN toChild : toChild[j].id \in Nat /\ toChild[j].id <= requests
    BY Channels DEF Evidence, Protocol, IdsAreSpent
  <2>2. \A j \in DOMAIN toChild' : toChild'[j] = toChild[j + 1] /\ j + 1 \in DOMAIN toChild
    BY <1>1, ChildReads DEF Evidence, Protocol
  <2> QED
    BY <1>1, <1>3, <2>1, <2>2 DEF AckIsTrue, Torn, IsAnswer
<1> QED
  BY <1>4, <1>5 DEF Evidence

LEMMA EvidenceHandleLegacy ==
  ASSUME DurablePersistAssumption, Evidence, Protocol', HandleLegacy PROVE Evidence'
<1>1. /\ toMain # <<>> /\ toMain' = Tail(toMain)
      /\ UNCHANGED <<keys, revision, mut, toChild, ledger>>
      /\ \/ UNCHANGED <<disk, recorded>> /\ (Torn' <=> Torn)
         \/ disk' = Head(toMain).state /\ recorded' = Head(toMain).state
         \/ Torn'
  <2>1. PICK outcome \in {"written"} \cup SaveFaults :
          /\ disk' = IF outcome = "before-primary" THEN disk ELSE Head(toMain).state
          /\ recorded' = IF outcome = "written" THEN Head(toMain).state ELSE recorded
          /\ failures' = IF outcome = "written" THEN {} ELSE failures \cup {outcome}
    BY DEF HandleLegacy
  <2>2. CASE outcome = "written"
    BY <2>1, <2>2 DEF HandleLegacy, Received, childVars
  <2>3. CASE outcome = "before-primary"
    BY <2>1, <2>3 DEF HandleLegacy, Received, childVars, Torn
  <2>4. CASE outcome = "after-primary"
    BY <2>1, <2>4 DEF HandleLegacy, Received, childVars, Torn
  <2> QED
    BY <2>1, <2>2, <2>3, <2>4 DEF DurablePersistAssumption, Faults
<1>2. \A i \in DOMAIN toMain' : toMain'[i] = toMain[i + 1] /\ i + 1 \in DOMAIN toMain
  BY <1>1, MainReads DEF Evidence, Protocol
<1>3. DoubtIsOpen'
  BY <1>1, <1>2 DEF Evidence, DoubtIsOpen, IsRequest
<1>4. AckIsTrue'
  BY <1>1 DEF Evidence, Protocol, RequestIsLast, AckIsTrue, IsAnswer
<1> QED
  BY <1>3, <1>4 DEF Evidence

LEMMA EvidenceHandleDurable ==
  ASSUME Evidence, Protocol', HandleDurable PROVE Evidence'
<1> DEFINE msg == toMain[1]
<1>1. /\ toMain # <<>> /\ toMain' = Tail(toMain) /\ IsRequest(1) /\ 1 \in DOMAIN toMain
      /\ UNCHANGED <<child, keys, revision, mut, requests>>
      /\ ledger \in Nat /\ revision \in Nat /\ TypeOK
      /\ \A i \in DOMAIN toMain' : toMain'[i] = toMain[i + 1] /\ i + 1 \in DOMAIN toMain
                                   /\ 1 < i + 1
  <2>1. toMain # <<>> /\ toMain' = Tail(toMain) /\ Head(toMain).type = "durable"
        /\ UNCHANGED <<child, keys, revision, mut, requests>>
    BY DEF HandleDurable, Received, childVars
  <2> QED
    BY <2>1, MainReads DEF Evidence, Protocol, TypeOK, IsRequest
<1>2. PICK r \in ToChild :
           /\ r.id = msg.id
           /\ toChild' = IF child = "up" THEN Append(toChild, r) ELSE toChild
           /\ \/ Replayed(msg, r) \/ Mistimed(msg, r) \/ Written(msg, r) \/ Unwritten(msg, r)
  BY <1>1, DurableOutcome
<1>3. /\ msg.state \in Projection /\ msg.revision \in Nat /\ msg.revision <= revision + 1
      /\ revision <= ledger
      /\ \A i \in DOMAIN toMain' : IsRequest(i)' =>
           toMain'[i].revision \in Nat /\ msg.revision <= toMain'[i].revision
  <2>1. /\ msg.state \in Projection /\ msg.revision \in Nat /\ msg.revision <= revision + 1
        /\ revision <= ledger
    BY <1>1, Channels DEF Evidence, Protocol, RequestsAscend, CountersFollow
  <2>2. ASSUME NEW i \in DOMAIN toMain', IsRequest(i)'
        PROVE  toMain'[i].revision \in Nat /\ msg.revision <= toMain'[i].revision
    BY <1>1, <2>2, Channels DEF Evidence, Protocol, RequestsAscend, IsRequest
  <2> QED
    BY <2>1, <2>2
<1>4. DoubtIsOpen'
  <2>1. CASE Replayed(msg, r) \/ Mistimed(msg, r)
    BY <1>1, <2>1 DEF Replayed, Mistimed, Evidence, DoubtIsOpen, Torn, IsRequest
  <2>2. CASE Written(msg, r)
    BY <2>2 DEF Written, DoubtIsOpen
  <2>3. CASE Unwritten(msg, r)
    <3>1. revision = ledger /\ ledger' = ledger /\ msg.revision = ledger + 1
      BY <1>1, <1>3, <2>3 DEF Unwritten
    <3> QED
      BY <1>1, <1>3, <3>1 DEF DoubtIsOpen
  <2> QED
    BY <1>2, <2>1, <2>2, <2>3
<1>5. AckIsTrue'
  <2> SUFFICES ASSUME NEW j \in DOMAIN toChild', mut # NoMut, toChild'[j].id = mut.id,
                      toChild'[j].type = "ack", ~Torn'
               PROVE  disk'.keys = keys
    BY <1>1 DEF AckIsTrue, IsAnswer
  <2>1. ~(j \in DOMAIN toChild /\ toChild'[j] = toChild[j])
    BY <1>1 DEF Evidence, Protocol, RequestIsLast, IsAnswer
  <2>2. toChild'[j] = r
    BY <1>1, <1>2, <2>1, MainAnswers
  <2>3. msg.state.keys = keys
    BY <1>1, <1>2, <2>2 DEF Evidence, Protocol, RequestIsLast, LastSent
  <2>4. CASE Replayed(msg, r)
    <3>1. recorded = msg.state /\ msg.revision = ledger /\ UNCHANGED disk /\ ~Torn
      BY <2>4 DEF Replayed, IsReplay, Torn
    <3>2. recorded # Nothing
      BY <1>3, <3>1, ProjectionShape
    <3>3. ~(msg.revision > ledger)
      BY <1>1, <3>1
    <3> QED
      BY <1>1, <2>3, <3>1, <3>2, <3>3 DEF Evidence, DoubtIsOpen
  <2>5. CASE Written(msg, r)
    BY <2>3, <2>5 DEF Written
  <2> QED
    BY <1>2, <2>2, <2>4, <2>5 DEF Mistimed, Unwritten
<1> QED
  BY <1>4, <1>5 DEF Evidence

LEMMA EvidenceStopStart ==
  ASSUME Evidence, Protocol', ChildCrash \/ ChildShutdown \/ ChildRestart \/ Relaunch
  PROVE  Evidence'
<1>1. mut' = NoMut
  BY DEF ChildCrash, ChildShutdown, ChildRestart, Relaunch, ChildStarts
<1>2. CASE ChildRestart \/ Relaunch
  BY <1>1, <1>2 DEF ChildRestart, Relaunch, ChildStarts, Evidence, DoubtIsOpen, AckIsTrue, Torn, IsAnswer
<1>3. CASE ChildCrash
  <2>1. UNCHANGED <<ledger, recorded, disk, revision, failures>> /\ DOMAIN toMain' = {}
    BY <1>3 DEF ChildCrash, mainVars
  <2> QED
    BY <1>1, <2>1 DEF Evidence, DoubtIsOpen, AckIsTrue, Torn, IsAnswer
<1>4. CASE ChildShutdown
  <2>1. UNCHANGED <<ledger, recorded, disk, revision, failures>>
        /\ toMain' = IF mut = NoMut THEN Append(toMain, Legacy(Project(keys))) ELSE toMain
    BY <1>4 DEF ChildShutdown, mainVars
  <2>2. Legacy(Project(keys)) \in ToMain /\ Legacy(Project(keys)).type = "legacy"
    BY ProjectionShape, MessageShape DEF Evidence, Protocol, TypeOK, Project
  <2>3. \A i \in DOMAIN toMain' : IsRequest(i)' => i \in DOMAIN toMain /\ toMain'[i] = toMain[i]
    BY <2>1, <2>2, ChildSends DEF Evidence, Protocol, IsRequest
  <2>4. DoubtIsOpen'
    BY <2>1, <2>3, DoubtStaysOpen
  <2> QED
    BY <1>1, <2>4 DEF Evidence, AckIsTrue, Torn, IsAnswer
<1> QED
  BY <1>2, <1>3, <1>4

LEMMA EvidenceStep ==
  DurablePersistAssumption /\ Evidence /\ [Next]_vars => Evidence'
<1> SUFFICES ASSUME DurablePersistAssumption, Evidence, [Next]_vars PROVE Evidence'
  OBVIOUS
<1>1. Protocol'
  BY ProtocolStep DEF Evidence
<1>2. CASE Refused
  <2>1. mut # NoMut /\ GiveUp(MustReconcile(Head(toChild)))
    BY <1>2 DEF Refused, Expected
  <2>2. MustReconcile(Head(toChild)) \in BOOLEAN
    BY DEF MustReconcile
  <2> QED
    BY <1>1, <2>1, <2>2, EvidenceGiveUp
<1>3. CASE Timeout
  BY <1>1, <1>3, EvidenceGiveUp DEF Timeout
<1>4. CASE \E k \in Keys, new \in Values : Begin(k, new)
  BY <1>1, <1>4, EvidenceBegin
<1> QED
  BY <1>1, <1>2, <1>3, <1>4, EvidenceQuietStep, EvidenceSave, EvidenceDropLate, EvidenceCommit,
     EvidenceRetry, EvidenceHandleLegacy, EvidenceHandleDurable, EvidenceStopStart
  DEF Next, ChildStep, MainStep

-----------------------------------------------------------------------------
(* An answer "done" that stands binds the file.                             *)

\* The answered value of key k is what the file, the child and every message hold.
Stands(k) ==
  /\ disk.keys[k] = answered[k] /\ keys[k] = answered[k]
  /\ \A i \in DOMAIN toMain : toMain[i].state.keys[k] = answered[k]
  /\ mut # NoMut => mut.key # k

AnswersStand ==
  /\ Evidence
  /\ \A k \in Keys \ voided : answered[k] # Unknown => Stands(k)

\* The child's saves carry what stands.
LEMMA StandsInSaves ==
  ASSUME Evidence, NEW k \in Keys, Stands(k), NEW ks \in [Keys -> Values], ks[k] = answered[k],
         NEW reconcile \in BOOLEAN, toMain' = toMain \o SavesAfter(ks, reconcile)
  PROVE  \A i \in DOMAIN toMain' : toMain'[i].state.keys[k] = answered[k]
<1>1. \A i \in DOMAIN toMain' : \/ i \in DOMAIN toMain /\ toMain'[i] = toMain[i]
                               \/ toMain'[i].state.keys = ks
  <2>1. /\ \A i \in DOMAIN toMain : toMain'[i] = toMain[i]
        /\ \A i \in DOMAIN toMain' : i \notin DOMAIN toMain => toMain'[i].state.keys = ks
    BY ChildSaves DEF Evidence, Protocol
  <2> QED
    BY <2>1
<1> QED
  BY <1>1 DEF Stands

\* A step withdraws answers, answers what is stored, or changes the file of open keys only.
Simulated ==
  \/ UNCHANGED disk /\ \A k \in Keys : Standing'[k] \in {Standing[k], Unknown}
  \/ \E k \in Keys : UNCHANGED disk /\ Standing' = [Standing EXCEPT ![k] = disk.keys[k]]
  \/ /\ UNCHANGED Standing
     /\ \A k \in Keys : Standing[k] # Unknown => disk'.keys[k] = disk.keys[k]

\* Where no answer is given, withdrawn or lost, what stands stays.
LEMMA NothingAnswered ==
  ASSUME UNCHANGED <<answered, voided, disk>> PROVE Simulated
BY DEF Simulated, Standing

LEMMA StandsQuiet ==
  ASSUME AnswersStand, Evidence', RuntimeChange \/ DropLate \/ UNCHANGED vars
  PROVE  AnswersStand' /\ Simulated
<1>1. UNCHANGED <<keys, mut, toMain, disk, answered, voided>>
  BY DEF RuntimeChange, DropLate, vars, mainVars, childVars
<1> QED
  BY <1>1, NothingAnswered DEF AnswersStand, Stands

LEMMA StandsSave ==
  ASSUME AnswersStand, Evidence', Save PROVE AnswersStand' /\ Simulated
<1>1. UNCHANGED <<keys, mut, disk, answered, voided>>
  BY DEF Save, mainVars
<1>2. /\ Legacy(Project(keys)) \in ToMain /\ Legacy(Project(keys)).state.keys = keys
  BY ProjectionShape, MessageShape DEF AnswersStand, Evidence, Protocol, TypeOK, Project
<1>3. \A i \in DOMAIN toMain' :
        (i \in DOMAIN toMain /\ toMain'[i] = toMain[i]) \/ toMain'[i].state.keys = keys
  <2>1. CASE UNCHANGED toMain
    BY <2>1
  <2>2. CASE toMain' = Append(toMain, Legacy(Project(keys)))
    BY <1>2, <2>2, ChildSends DEF AnswersStand, Evidence, Protocol
  <2> QED
    BY <2>1, <2>2 DEF Save
<1> QED
  BY <1>1, <1>3, NothingAnswered DEF AnswersStand, Stands

LEMMA StandsBegin ==
  ASSUME AnswersStand, Evidence', NEW a \in Keys, NEW new \in Values, Begin(a, new)
  PROVE  AnswersStand' /\ Simulated
<1>1. /\ UNCHANGED disk /\ keys \in [Keys -> Values] /\ keys' = [keys EXCEPT ![a] = new]
      /\ answered \in [Keys -> Values \cup {Unknown}]
      /\ answered' = [answered EXCEPT ![a] = Unknown] /\ voided' = voided \ {a}
      /\ requests \in Nat /\ revision \in Nat
  BY DEF Begin, mainVars, AnswersStand, Evidence, Protocol, TypeOK
<1>2. mut'.key = a /\ mut' \in Mutation
  <2>1. revision + 1 \in Nat \ {0} /\ mut' = Asked(a, new, revision + 1, 1)
    BY <1>1 DEF Begin
  <2> QED
    BY <1>1, <2>1, AskedShape
<1>3. \A i \in DOMAIN toMain' :
        (i \in DOMAIN toMain /\ toMain'[i] = toMain[i]) \/ toMain'[i].state.keys = keys'
  <2> DEFINE m == Durable(Project(keys'), mut'.id, mut'.revision)
  <2>1. m \in ToMain /\ m.state.keys = keys'
    <3>1. Project(keys') \in Projection /\ Project(keys').keys = keys'
      BY <1>1, ProjectionShape DEF AnswersStand, Evidence, Protocol, TypeOK, Project
    <3> QED
      BY <1>2, <3>1, MessageShape, MutationShape
  <2>2. toMain' = Append(toMain, m)
    BY DEF Begin
  <2> HIDE DEF m
  <2> QED
    BY <2>1, <2>2, ChildSends DEF AnswersStand, Evidence, Protocol
<1>4. ASSUME NEW k \in Keys \ voided', answered'[k] # Unknown PROVE Stands(k)'
  <2>1. k # a /\ answered'[k] = answered[k] /\ keys'[k] = keys[k] /\ Stands(k)
    BY <1>1, <1>4 DEF AnswersStand
  <2> QED
    <3>1. \A i \in DOMAIN toMain' : toMain'[i].state.keys[k] = answered[k]
      BY <1>3, <2>1 DEF Stands
    <3> QED
      BY <1>1, <1>2, <2>1, <3>1 DEF Stands
<1>5. \A k \in Keys : Standing'[k] \in {Standing[k], Unknown}
  BY <1>1 DEF Standing
<1> QED
  BY <1>1, <1>4, <1>5 DEF AnswersStand, Simulated

LEMMA StandsCommit ==
  ASSUME AnswersStand, Evidence', Commit PROVE AnswersStand' /\ Simulated
<1>1. /\ UNCHANGED <<keys, disk>> /\ keys \in [Keys -> Values]
      /\ answered \in [Keys -> Values \cup {Unknown}]
      /\ answered' = [answered EXCEPT ![mut.key] = mut.new]
      /\ voided' = IF Torn THEN voided \cup {mut.key} ELSE voided
      /\ mut' = NoMut /\ toMain' = toMain \o SavesAfter(keys, FALSE)
  BY DEF Commit, mainVars, AnswersStand, Evidence, Protocol, TypeOK, Torn
<1>2. /\ toMain = <<>> /\ IsAnswer(1) /\ 1 \in DOMAIN toChild /\ toChild[1].type = "ack"
      /\ mut # NoMut /\ mut.key \in Keys
  BY AnsweredMeansRead, MutationShape DEF Commit, AnswersStand, Evidence
<1>3. /\ ~Torn => disk.keys = keys
      /\ keys[mut.key] = mut.new
  BY <1>2 DEF AnswersStand, Evidence, AckIsTrue, Protocol, ChangeIsVisible
<1>4. \A i \in DOMAIN toMain' : toMain'[i].state.keys = keys
  <2>1. DOMAIN toMain = {} /\ TypeOK
    BY <1>2 DEF AnswersStand, Evidence, Protocol
  <2>2. \A i \in DOMAIN toMain' : i \notin DOMAIN toMain => toMain'[i].state.keys = keys
    BY <1>1, <2>1, ChildSaves
  <2> QED
    BY <2>1, <2>2
<1>5. ASSUME NEW k \in Keys \ voided', answered'[k] # Unknown PROVE Stands(k)'
  <2>1. k \notin voided /\ (k = mut.key => ~Torn)
    BY <1>1, <1>5
  <2>2. answered'[k] = keys[k] /\ disk.keys[k] = keys[k]
    BY <1>1, <1>2, <1>3, <1>5, <2>1 DEF AnswersStand, Stands
  <2> QED
    BY <1>1, <1>4, <2>2 DEF Stands
<1>6. CASE Torn \/ mut.key \in voided
  <2>1. \A k \in Keys : Standing'[k] \in {Standing[k], Unknown}
    BY <1>1, <1>2, <1>6 DEF Standing
  <2> QED
    BY <1>1, <1>5, <2>1 DEF AnswersStand, Simulated
<1>7. CASE ~Torn /\ mut.key \notin voided
  <2>1. Standing' = [Standing EXCEPT ![mut.key] = disk.keys[mut.key]]
    BY <1>1, <1>2, <1>3, <1>7 DEF Standing
  <2> QED
    BY <1>1, <1>2, <1>5, <2>1 DEF AnswersStand, Simulated
<1> QED
  BY <1>6, <1>7

LEMMA StandsGiveUp ==
  ASSUME AnswersStand, Evidence', NEW reconcile \in BOOLEAN, mut # NoMut, GiveUp(reconcile)
  PROVE  AnswersStand' /\ Simulated
<1>1. /\ UNCHANGED <<disk, answered, voided>> /\ keys' = RolledBack /\ mut' = NoMut
      /\ toMain' = toMain \o SavesAfter(RolledBack, reconcile)
  BY DEF GiveUp, mainVars, AnswersStand
<1>2. /\ RolledBack \in [Keys -> Values]
      /\ \A k \in Keys : k # mut.key => RolledBack[k] = keys[k]
  BY RollBackUndoes DEF AnswersStand, Evidence, Protocol
<1>3. ASSUME NEW k \in Keys \ voided, answered'[k] # Unknown PROVE Stands(k)'
  <2>1. Stands(k) /\ answered'[k] = answered[k] /\ RolledBack[k] = answered[k]
    BY <1>1, <1>2, <1>3 DEF AnswersStand, Stands
  <2>2. \A i \in DOMAIN toMain' : toMain'[i].state.keys[k] = answered[k]
    BY <1>1, <1>2, <2>1, StandsInSaves DEF AnswersStand
  <2> QED
    BY <1>1, <2>1, <2>2 DEF Stands
<1> QED
  BY <1>1, <1>3, NothingAnswered DEF AnswersStand

LEMMA StandsRetry ==
  ASSUME AnswersStand, Evidence', RefusedThenRetry PROVE AnswersStand' /\ Simulated
<1>1. UNCHANGED <<disk, answered, voided, keys>> /\ mut # NoMut
  BY DEF RefusedThenRetry, Expected, mainVars, AnswersStand
<1>2. /\ mut'.key = mut.key
      /\ \A i \in DOMAIN toMain' : toMain'[i].state.keys = keys \/ toMain'[i].state.keys = RolledBack
  BY RetrySends DEF AnswersStand, Evidence
<1>3. \A k \in Keys : k # mut.key => RolledBack[k] = keys[k]
  BY <1>1, RollBackUndoes DEF AnswersStand, Evidence, Protocol
<1> QED
  BY <1>1, <1>2, <1>3, NothingAnswered DEF AnswersStand, Stands

LEMMA StandsHandle ==
  ASSUME AnswersStand, Evidence', MainStep PROVE AnswersStand' /\ Simulated
<1>1. /\ toMain # <<>> /\ toMain' = Tail(toMain) /\ UNCHANGED <<keys, mut, answered, voided>>
      /\ disk' = disk \/ disk' = Head(toMain).state
  BY DEF MainStep, HandleLegacy, HandleDurable, Received, childVars
<1>2. /\ \A i \in DOMAIN toMain' : toMain'[i] = toMain[i + 1] /\ i + 1 \in DOMAIN toMain
      /\ Head(toMain) = toMain[1] /\ 1 \in DOMAIN toMain
  BY <1>1, MainReads DEF AnswersStand, Evidence, Protocol
<1>3. ASSUME NEW k \in Keys \ voided, answered[k] # Unknown
      PROVE  Stands(k)' /\ disk'.keys[k] = disk.keys[k]
  BY <1>1, <1>2, <1>3 DEF AnswersStand, Stands
<1>4. UNCHANGED Standing /\ \A k \in Keys : Standing[k] # Unknown => disk'.keys[k] = disk.keys[k]
  BY <1>1, <1>3 DEF Standing
<1> QED
  BY <1>1, <1>3, <1>4 DEF AnswersStand, Simulated

\* A child that stops leaves its keys behind, and what it flushes carries them.
LEMMA StandsStop ==
  ASSUME AnswersStand, Evidence', ChildCrash \/ ChildShutdown PROVE AnswersStand' /\ Simulated
<1>1. UNCHANGED <<keys, disk, answered, voided>> /\ mut' = NoMut
  BY DEF ChildCrash, ChildShutdown, mainVars
<1>2. /\ Legacy(Project(keys)) \in ToMain /\ Legacy(Project(keys)).state.keys = keys
  <2>1. keys \in [Keys -> Values] /\ use \in Nat
    BY DEF AnswersStand, Evidence, Protocol, TypeOK
  <2> QED
    BY <2>1, ProjectionShape, MessageShape DEF Project
<1>3. \A i \in DOMAIN toMain' :
        (i \in DOMAIN toMain /\ toMain'[i] = toMain[i]) \/ toMain'[i].state.keys = keys
  <2>1. CASE toMain' = toMain \/ toMain' = <<>>
    BY <2>1
  <2>2. CASE toMain' = Append(toMain, Legacy(Project(keys)))
    BY <1>2, <2>2, ChildSends DEF AnswersStand, Evidence, Protocol
  <2> QED
    BY <2>1, <2>2 DEF ChildCrash, ChildShutdown
<1> QED
  BY <1>1, <1>3, NothingAnswered DEF AnswersStand, Stands

\* A new child serves the state of the launch: answers it contradicts no longer stand.
LEMMA StandsRestart ==
  ASSUME AnswersStand, Evidence', ChildRestart PROVE AnswersStand' /\ Simulated
<1>1. /\ UNCHANGED <<disk, answered>> /\ keys' = launch.keys /\ mut' = NoMut
      /\ DOMAIN toMain' = {}
      /\ voided' = voided \cup {k \in Keys : answered[k] \notin {Unknown, launch.keys[k]}}
  BY DEF ChildRestart, ChildStarts
<1>2. ASSUME NEW k \in Keys \ voided', answered'[k] # Unknown PROVE Stands(k)'
  BY <1>1, <1>2 DEF AnswersStand, Stands
<1>3. \A k \in Keys : Standing'[k] \in {Standing[k], Unknown}
  BY <1>1 DEF Standing
<1> QED
  BY <1>1, <1>2, <1>3 DEF AnswersStand, Simulated

LEMMA StandsRelaunch ==
  ASSUME AnswersStand, Evidence', Relaunch PROVE AnswersStand' /\ Simulated
<1>1. /\ UNCHANGED <<disk, answered, voided>> /\ keys' = disk.keys /\ mut' = NoMut
      /\ DOMAIN toMain' = {}
  BY DEF Relaunch, ChildStarts
<1> QED
  BY <1>1, NothingAnswered DEF AnswersStand, Stands

LEMMA StandsStep ==
  ASSUME DurablePersistAssumption, AnswersStand, [Next]_vars
  PROVE  AnswersStand' /\ Simulated
<1>1. Evidence'
  BY EvidenceStep DEF AnswersStand
<1>2. CASE Refused
  <2>1. mut # NoMut /\ GiveUp(MustReconcile(Head(toChild)))
    BY <1>2 DEF Refused, Expected
  <2>2. MustReconcile(Head(toChild)) \in BOOLEAN
    BY DEF MustReconcile
  <2> QED
    BY <1>1, <2>1, <2>2, StandsGiveUp
<1>3. CASE Timeout
  BY <1>1, <1>3, StandsGiveUp DEF Timeout
<1>4. CASE \E k \in Keys, new \in Values : Begin(k, new)
  BY <1>1, <1>4, StandsBegin
<1> QED
  BY <1>1, <1>2, <1>3, <1>4, StandsQuiet, StandsSave, StandsCommit, StandsRetry, StandsHandle,
     StandsStop, StandsRestart, StandsRelaunch DEF Next, ChildStep

LEMMA AnswersStandInit == Init => AnswersStand
<1> SUFFICES ASSUME Init PROVE AnswersStand
  OBVIOUS
<1>1. Protocol
  BY ProtocolInit
<1> QED
  BY <1>1 DEF Init, AnswersStand, Evidence, DoubtIsOpen, AckIsTrue, Torn, IsAnswer

LEMMA StandsMeaning == AnswersStand => AnsweredIsOnDisk
BY DEF AnswersStand, Stands, AnsweredIsOnDisk

\* A change answered as done is what the file holds until the key is changed again:
\* for every set of keys, however writes of requests and background saves fail, requests
\* cross, children crash and are replaced and the application is launched again. The
\* answers in "voided" are excepted, by name: a replay acknowledged while a background
\* save is torn, and an answer the next child contradicts ("the UI never reports a change
\* that was never persisted", rotation.mjs).
THEOREM AnswersAreKept ==
  ASSUME DurablePersistAssumption
  PROVE  Spec => []AnsweredIsOnDisk
<1>1. AnswersStand /\ [Next]_vars => AnswersStand'
  BY StandsStep
<1> QED
  BY <1>1, AnswersStandInit, StandsMeaning, PTL DEF Spec

LEMMA SimulatedStep ==
  ASSUME AnswersStand, AnswersStand', Simulated
  PROVE  [Promise!Next]_<<disk.keys, Standing>>
<1>1. /\ disk.keys \in [Keys -> Values] /\ disk'.keys \in [Keys -> Values]
  BY ProjectionShape DEF AnswersStand, Evidence, Protocol, TypeOK
<1>2. CASE UNCHANGED disk /\ \A k \in Keys : Standing'[k] \in {Standing[k], Unknown}
  <2> DEFINE ks == {k \in Keys : Standing'[k] = Unknown}
  <2>1. Standing' = [k \in Keys |-> IF k \in ks THEN Unknown ELSE Standing[k]]
    <3>1. Standing' = [k \in Keys |-> Standing'[k]]
      BY DEF Standing
    <3> QED
      BY <1>2, <3>1
  <2>2. ks \in SUBSET Keys
    OBVIOUS
  <2> HIDE DEF ks
  <2>3. Promise!Withdraw(ks)
    BY <1>2, <2>1 DEF Promise!Withdraw, Unknown, Promise!Unknown
  <2> QED
    BY <2>2, <2>3 DEF Promise!Next
<1>3. CASE \E k \in Keys : UNCHANGED disk /\ Standing' = [Standing EXCEPT ![k] = disk.keys[k]]
  BY <1>3 DEF Promise!Next, Promise!Answer
<1>4. CASE /\ UNCHANGED Standing
           /\ \A k \in Keys : Standing[k] # Unknown => disk'.keys[k] = disk.keys[k]
  BY <1>1, <1>4 DEF Promise!Next, Promise!Write, Values, Promise!Values, Unknown, Promise!Unknown
<1> QED
  BY <1>2, <1>3, <1>4 DEF Simulated

\* The protocol implements the abstract store: seen through the file and the answers that
\* stand, every step withdraws answers, answers what is stored, writes only where no answer
\* binds, or is invisible. An answer is withdrawn when the key is changed again and in the
\* two cases of "voided", never otherwise.
THEOREM ImplementsPromise ==
  ASSUME DurablePersistAssumption
  PROVE  Spec => ImplementsThePromise
<1>1. Init => Promise!Init
  BY DEF Init, Standing, Promise!Init, Values, Promise!Values, Unknown, Promise!Unknown
<1>2. AnswersStand /\ [Next]_vars => AnswersStand' /\ [Promise!Next]_<<disk.keys, Standing>>
  BY StandsStep, SimulatedStep
<1> QED
  BY <1>1, <1>2, AnswersStandInit, PTL DEF Spec, ImplementsThePromise, Promise!Spec

-----------------------------------------------------------------------------
(* A failed change leaves no trace, once a write has succeeded after any failed one. *)

\* The file holds the keys ks, unless nothing was written yet or the last save failed.
DiskHolds(ks) == recorded # Nothing /\ failures = {} => disk.keys = ks

\* After n messages main will hold the keys ks in that sense.
LeavesBehind(n, ks) ==
  /\ n = 0 => DiskHolds(ks)
  /\ n > 0 => toMain[n].type = "legacy" /\ toMain[n].state.keys = ks

\* What main will hold is what the child serves, or, while a change is pending, what it
\* serves if the change is undone without a trace.
Settles ==
  child = "up" =>
    /\ mut = NoMut => LeavesBehind(Len(toMain), keys)
    /\ mut # NoMut /\ toMain # <<>> => LeavesBehind(Len(toMain) - 1, RolledBack)
    /\ mut # NoMut /\ toMain = <<>> =>
         \A j \in DOMAIN toChild :
           IsAnswer(j) /\ toChild[j].type = "rejected" /\ toChild[j].code = "revision" =>
             DiskHolds(RolledBack)

Agreement == Evidence /\ Settles

LEMMA SettlesQuiet ==
  ASSUME Agreement, Evidence', RuntimeChange \/ DropLate \/ UNCHANGED vars PROVE Agreement'
<1>1. UNCHANGED <<child, keys, mut, toMain, disk, recorded, failures>>
  BY DEF RuntimeChange, DropLate, vars, mainVars, childVars
<1>2. RolledBack' = RolledBack
  BY <1>1 DEF RolledBack
<1>3. \A j \in DOMAIN toChild' : \E i \in DOMAIN toChild : toChild'[j] = toChild[i]
  <2>1. CASE UNCHANGED toChild
    BY <2>1
  <2>2. CASE DropLate
    <3>1. \A j \in DOMAIN toChild' : toChild'[j] = toChild[j + 1] /\ j + 1 \in DOMAIN toChild
      BY <2>2, ChildReads DEF DropLate, Agreement, Evidence, Protocol
    <3> QED
      BY <3>1
  <2> QED
    BY <2>1, <2>2 DEF RuntimeChange, vars
<1>4. Len(toMain') = Len(toMain)
  BY <1>1
<1>5. ASSUME child = "up" PROVE mut' = NoMut => LeavesBehind(Len(toMain), keys)'
  BY <1>1, <1>4, <1>5 DEF Agreement, Settles, LeavesBehind, DiskHolds
<1>6. ASSUME child = "up" PROVE mut' # NoMut /\ toMain' # <<>> => LeavesBehind(Len(toMain) - 1, RolledBack)'
  BY <1>1, <1>2, <1>4, <1>6 DEF Agreement, Settles, LeavesBehind, DiskHolds
<1>7. ASSUME child = "up", mut # NoMut, toMain = <<>>, NEW j \in DOMAIN toChild', IsAnswer(j)',
             toChild'[j].type = "rejected", toChild'[j].code = "revision"
      PROVE  DiskHolds(RolledBack)'
  BY <1>1, <1>2, <1>3, <1>7 DEF Agreement, Settles, DiskHolds, IsAnswer
<1> QED
  BY <1>1, <1>2, <1>5, <1>6, <1>7 DEF Agreement, Settles

LEMMA SettlesSave ==
  ASSUME Agreement, Evidence', Save PROVE Agreement'
<1>1. UNCHANGED <<child, keys, mut, toChild, disk, recorded, failures>>
  BY DEF Save, mainVars
<1>2. CASE mut # NoMut
  <2>1. UNCHANGED toMain /\ RolledBack' = RolledBack
    BY <1>1, <1>2 DEF Save, RolledBack
  <2> QED
    BY <1>1, <1>2, <2>1 DEF Agreement, Settles, LeavesBehind, DiskHolds, IsAnswer
<1>3. CASE mut = NoMut
  <2> DEFINE m == Legacy(Project(keys))
  <2>1. m \in ToMain /\ m.type = "legacy" /\ m.state.keys = keys
    <3>1. keys \in [Keys -> Values] /\ use \in Nat
      BY DEF Agreement, Evidence, Protocol, TypeOK
    <3> QED
      BY <3>1, ProjectionShape, MessageShape DEF Project
  <2>2. toMain' = Append(toMain, m)
    BY <1>3 DEF Save
  <2> HIDE DEF m
  <2>3. Len(toMain) \in Nat /\ Len(toMain') = Len(toMain) + 1 /\ toMain'[Len(toMain) + 1] = m
    BY <2>1, <2>2, ChildSends DEF Agreement, Evidence, Protocol
  <2>4. toMain'[Len(toMain')] = m /\ ~(Len(toMain') = 0)
    BY <2>3
  <2>5. LeavesBehind(Len(toMain), keys)'
    BY <1>1, <2>1, <2>4 DEF LeavesBehind, DiskHolds
  <2> QED
    BY <1>1, <1>3, <2>5 DEF Agreement, Settles
<1> QED
  BY <1>2, <1>3

LEMMA SettlesBegin ==
  ASSUME Agreement, Evidence', NEW a \in Keys, NEW new \in Values, Begin(a, new) PROVE Agreement'
<1>1. /\ keys \in [Keys -> Values] /\ keys' = [keys EXCEPT ![a] = new] /\ mut = NoMut /\ child = "up"
      /\ UNCHANGED <<child, disk, recorded, failures>> /\ requests \in Nat /\ revision \in Nat
  BY DEF Begin, mainVars, Agreement, Evidence, Protocol, TypeOK
<1>2. mut'.key = a /\ mut'.old = keys[a] /\ mut' \in Mutation /\ mut' # NoMut
  <2>1. revision + 1 \in Nat \ {0} /\ mut' = Asked(a, new, revision + 1, 1)
    BY <1>1 DEF Begin
  <2>2. mut'.key = a /\ mut'.old = keys[a] /\ mut' \in Mutation
    BY <1>1, <2>1, AskedShape
  <2> QED
    BY <2>2, MutationShape
<1>3. RolledBack' = keys
  BY <1>1, <1>2 DEF RolledBack
<1>4. /\ Len(toMain) \in Nat /\ Len(toMain') = Len(toMain) + 1 /\ toMain' # <<>>
      /\ Len(toMain) > 0 => toMain'[Len(toMain)] = toMain[Len(toMain)]
  <2> DEFINE m == Durable(Project(keys'), mut'.id, mut'.revision)
  <2>1. m \in ToMain
    <3>1. Project(keys') \in Projection
      BY <1>1, ProjectionShape DEF Agreement, Evidence, Protocol, TypeOK, Project
    <3> QED
      BY <1>2, <3>1, MessageShape, MutationShape
  <2>2. toMain' = Append(toMain, m)
    BY DEF Begin
  <2> HIDE DEF m
  <2> QED
    BY <2>1, <2>2, ChildSends DEF Agreement, Evidence, Protocol
<1>5. LeavesBehind(Len(toMain), keys)
  BY <1>1 DEF Agreement, Settles
<1>6. Len(toMain') - 1 = Len(toMain)
  BY <1>4
<1>7. LeavesBehind(Len(toMain) - 1, RolledBack)'
  BY <1>1, <1>3, <1>4, <1>5, <1>6 DEF LeavesBehind, DiskHolds
<1> QED
  BY <1>1, <1>2, <1>4, <1>7 DEF Agreement, Settles

\* A mutation that settles on ks, with a save or with the file agreeing already.
LEMMA SettlesSettle ==
  ASSUME Agreement, Evidence', NEW ks \in [Keys -> Values], NEW reconcile \in BOOLEAN,
         mut' = NoMut, keys' = ks, toMain' = toMain \o SavesAfter(ks, reconcile),
         UNCHANGED <<disk, recorded, failures>>,
         reconcile \/ (toMain = <<>> /\ DiskHolds(ks))
  PROVE  Agreement'
<1>1. PICK p \in Nat, q \in Nat :
        /\ p = Len(toMain) /\ q = Len(toMain') /\ q >= p /\ (reconcile => q > p)
        /\ \A i \in 1 .. q : i \notin 1 .. p =>
             toMain'[i].type = "legacy" /\ toMain'[i].state.keys = ks
  <2>1. TypeOK
    BY DEF Agreement, Evidence, Protocol
  <2>2. /\ Len(toMain) \in Nat /\ Len(toMain') \in Nat /\ Len(toMain') >= Len(toMain)
        /\ reconcile => Len(toMain') > Len(toMain)
        /\ \A i \in 1 .. Len(toMain') : i \notin 1 .. Len(toMain) =>
             toMain'[i].type = "legacy" /\ toMain'[i].state.keys = ks
    <3>1. /\ DOMAIN toMain = 1 .. Len(toMain) /\ DOMAIN toMain' = 1 .. Len(toMain')
          /\ \A i \in DOMAIN toMain' : i \notin DOMAIN toMain =>
               toMain'[i].type = "legacy" /\ toMain'[i].state.keys = ks
      BY <2>1, ChildSaves
    <3>2. /\ Len(toMain) \in Nat /\ Len(toMain') \in Nat /\ Len(toMain') >= Len(toMain)
          /\ reconcile => Len(toMain') > Len(toMain)
      BY <2>1, ChildSaves
    <3> QED
      BY <3>1, <3>2
  <2> QED
    BY <2>2
<1>2. toMain = <<>> => p = 0
  BY <1>1
<1>3. CASE q > p
  <2>1. q \in 1 .. q /\ q \notin 1 .. p /\ q # 0
    BY <1>3
  <2>2. toMain'[q].type = "legacy" /\ toMain'[q].state.keys = ks
    BY <1>1, <2>1
  <2>3. LeavesBehind(Len(toMain), keys)'
    BY <1>1, <2>1, <2>2 DEF LeavesBehind, DiskHolds
  <2> QED
    BY <2>3 DEF Agreement, Settles
<1>4. CASE q = p
  <2>1. ~reconcile
    BY <1>1, <1>4
  <2>2. q = 0 /\ DiskHolds(ks)
    BY <1>2, <1>4, <2>1
  <2>3. LeavesBehind(Len(toMain), keys)'
    BY <1>1, <2>2 DEF LeavesBehind, DiskHolds
  <2> QED
    BY <2>3 DEF Agreement, Settles
<1>5. q > p \/ q = p
  BY <1>1
<1> QED
  BY <1>3, <1>4, <1>5

LEMMA SettlesCommit ==
  ASSUME Agreement, Evidence', Commit PROVE Agreement'
<1>1. /\ keys \in [Keys -> Values] /\ mut' = NoMut /\ UNCHANGED <<keys, disk, recorded, failures>>
      /\ toMain' = toMain \o SavesAfter(keys, FALSE) /\ Head(toChild).type = "ack"
  BY DEF Commit, mainVars, Agreement, Evidence, Protocol, TypeOK
<1>2. toMain = <<>> /\ DiskHolds(keys)
  BY <1>1, AnsweredMeansRead DEF Commit, Agreement, Evidence, AckIsTrue, Torn, DiskHolds
<1> QED
  BY <1>1, <1>2, SettlesSettle

LEMMA SettlesGiveUp ==
  ASSUME Agreement, Evidence', Refused \/ Timeout PROVE Agreement'
<1> SUFFICES ASSUME mut # NoMut, NEW reconcile \in BOOLEAN, GiveUp(reconcile),
                    reconcile \/ (toMain = <<>> /\ DiskHolds(RolledBack))
             PROVE  Agreement'
  <2>1. CASE Timeout
    BY <2>1 DEF Timeout
  <2>2. CASE Refused
    <3>1. Expected /\ mut # NoMut /\ GiveUp(MustReconcile(Head(toChild))) /\ child = "up"
          /\ Head(toChild).type = "rejected"
      BY <2>2 DEF Refused, Expected
    <3>2. /\ toMain = <<>> /\ 1 \in DOMAIN toChild /\ IsAnswer(1) /\ Head(toChild) = toChild[1]
          /\ toChild[1] \in ToChild
      BY <3>1, AnsweredMeansRead, Channels DEF Agreement, Evidence, Protocol
    <3>3. toChild[1].code \in {"revision", "write-failed"}
      BY <3>1, <3>2, AnswerShape DEF Agreement, Evidence, Protocol, TypeOK
    <3>4. MustReconcile(Head(toChild)) \in BOOLEAN
      BY DEF MustReconcile
    <3>5. ~MustReconcile(Head(toChild)) => DiskHolds(RolledBack)
      BY <3>1, <3>2, <3>3 DEF MustReconcile, Agreement, Settles
    <3> QED
      BY <3>1, <3>2, <3>4, <3>5
  <2> QED
    BY <2>1, <2>2
<1>1. RolledBack \in [Keys -> Values]
  BY RollBackUndoes DEF Agreement, Evidence, Protocol
<1>2. /\ mut' = NoMut /\ keys' = RolledBack /\ UNCHANGED <<disk, recorded, failures>>
      /\ toMain' = toMain \o SavesAfter(RolledBack, reconcile)
  BY DEF GiveUp, mainVars
<1> QED
  BY <1>1, <1>2, SettlesSettle

LEMMA SettlesRetry ==
  ASSUME Agreement, Evidence', RefusedThenRetry PROVE Agreement'
<1> DEFINE n == Len(toMain')
<1>1. /\ Expected /\ Head(toChild).type = "rejected" /\ child = "up"
      /\ UNCHANGED <<child, keys, disk, recorded, failures>>
  BY DEF RefusedThenRetry, mainVars
<1>2. /\ toMain = <<>> /\ 1 \in DOMAIN toChild /\ IsAnswer(1) /\ Head(toChild) = toChild[1]
      /\ toChild[1] \in ToChild /\ mut # NoMut
  BY <1>1, AnsweredMeansRead, Channels DEF Agreement, Evidence, Protocol
<1>3. toChild[1].code \in {"revision", "write-failed"}
  BY <1>1, <1>2, AnswerShape DEF Agreement, Evidence, Protocol, TypeOK
<1>4. ~MustReconcile(Head(toChild)) => DiskHolds(RolledBack)
  BY <1>1, <1>2, <1>3 DEF MustReconcile, Agreement, Settles
<1>5. /\ n \in Nat /\ n >= 1 /\ DOMAIN toMain' = 1 .. n
      /\ \A i \in DOMAIN toMain' : i # n =>
           toMain'[i].type = "legacy" /\ toMain'[i].state.keys = RolledBack
      /\ MustReconcile(Head(toChild)) => n >= 2
      /\ mut' # NoMut
  BY RetrySends DEF Agreement, Evidence
<1>6. RolledBack' = RolledBack
  <2>1. mut'.key = mut.key /\ mut'.old = mut.old
    BY RetrySends DEF Agreement, Evidence
  <2> QED
    BY <1>1, <2>1 DEF RolledBack
<1>7. toMain' # <<>>
  BY <1>5
<1>8. LeavesBehind(Len(toMain) - 1, RolledBack)'
  <2>1. n - 1 = 0 => DiskHolds(RolledBack)'
    <3>1. n - 1 = 0 => ~MustReconcile(Head(toChild))
      <4> HIDE DEF n
      <4> QED
        BY <1>5
    <3>2. DiskHolds(RolledBack) => DiskHolds(RolledBack)'
      BY <1>1, <1>6 DEF DiskHolds
    <3> QED
      BY <1>4, <3>1, <3>2
  <2>2. n - 1 > 0 => toMain'[n - 1].type = "legacy" /\ toMain'[n - 1].state.keys = RolledBack'
    BY <1>5, <1>6
  <2> QED
    BY <2>1, <2>2 DEF LeavesBehind, DiskHolds
<1> QED
  BY <1>5, <1>7, <1>8 DEF Agreement, Settles

LEMMA SettlesHandleLegacy ==
  ASSUME DurablePersistAssumption, Agreement, Evidence', HandleLegacy PROVE Agreement'
<1> DEFINE n == Len(toMain)
<1>1. /\ toMain # <<>> /\ toMain' = Tail(toMain) /\ Head(toMain).type = "legacy"
      /\ UNCHANGED <<child, keys, mut, toChild>>
      /\ failures' = {} => disk' = Head(toMain).state
  BY DEF HandleLegacy, Received, childVars, DurablePersistAssumption, Faults
<1>2. /\ n \in Nat /\ n >= 1 /\ Len(toMain') = n - 1
      /\ DOMAIN toMain = 1 .. n /\ DOMAIN toMain' = 1 .. (n - 1)
      /\ toMain' = <<>> <=> n = 1 /\ Head(toMain) = toMain[1]
      /\ \A i \in DOMAIN toMain' : toMain'[i] = toMain[i + 1]
  BY <1>1, MainReads DEF Agreement, Evidence, Protocol
<1>3. RolledBack' = RolledBack
  BY <1>1 DEF RolledBack
<1>4. ASSUME child = "up", mut = NoMut PROVE LeavesBehind(Len(toMain), keys)'
  <2>1. toMain[n].type = "legacy" /\ toMain[n].state.keys = keys
    BY <1>2, <1>4 DEF Agreement, Settles, LeavesBehind, DiskHolds
  <2>2. n - 1 > 0 => toMain'[n - 1] = toMain[n]
    BY <1>2
  <2>3. n - 1 = 0 /\ failures' = {} => disk'.keys = keys
    <3>1. (failures' = {} => disk' = toMain[1].state) /\ (n - 1 = 0 => n = 1)
      BY <1>1, <1>2
    <3> QED
      BY <2>1, <3>1
  <2> QED
    BY <1>1, <1>2, <2>1, <2>2, <2>3 DEF LeavesBehind, DiskHolds
<1>5. ASSUME child = "up", mut # NoMut
      PROVE  toMain' # <<>> /\ LeavesBehind(Len(toMain) - 1, RolledBack)'
  <2>1. toMain[n].type = "durable"
    BY <1>1, <1>5 DEF Agreement, Evidence, Protocol, RequestIsLast, IsRequest
  <2>2. n # 1 /\ n - 1 > 0
    <3>1. n # 1
      <4>1. toMain[1].type = "legacy"
        BY <1>1, <1>2
      <4> QED
        BY <2>1, <4>1
    <3> HIDE DEF n
    <3> QED
      BY <1>2, <3>1
  <2>3. toMain[n - 1].type = "legacy" /\ toMain[n - 1].state.keys = RolledBack
    BY <1>1, <1>5, <2>2 DEF Agreement, Settles, LeavesBehind, DiskHolds
  <2>4. (n - 1) - 1 > 0 => toMain'[(n - 1) - 1] = toMain[n - 1]
    BY <1>2
  <2>5. (n - 1) - 1 = 0 /\ failures' = {} => disk'.keys = RolledBack
    <3>1. n - 1 = 1 /\ failures' = {} => disk'.keys = RolledBack
      <4>1. failures' = {} => disk' = toMain[1].state
        BY <1>1, <1>2
      <4> QED
        BY <2>3, <4>1
    <3> HIDE DEF n
    <3> QED
      BY <1>2, <3>1
  <2> QED
    BY <1>1, <1>2, <1>3, <2>2, <2>3, <2>4, <2>5 DEF LeavesBehind, DiskHolds
<1> QED
  BY <1>1, <1>4, <1>5 DEF Agreement, Settles

LEMMA SettlesHandleDurable ==
  ASSUME Agreement, Evidence', HandleDurable PROVE Agreement'
<1> DEFINE n == Len(toMain)
           msg == toMain[1]
<1>1. /\ toMain # <<>> /\ toMain' = Tail(toMain) /\ Head(toMain).type = "durable"
      /\ UNCHANGED <<child, keys, mut>>
  BY DEF HandleDurable, Received, childVars
<1>2. /\ n \in Nat /\ n >= 1 /\ Len(toMain') = n - 1
      /\ DOMAIN toMain = 1 .. n /\ DOMAIN toMain' = 1 .. (n - 1)
      /\ toMain' = <<>> <=> n = 1 /\ Head(toMain) = toMain[1]
      /\ \A i \in DOMAIN toMain' : toMain'[i] = toMain[i + 1]
  BY <1>1, MainReads DEF Agreement, Evidence, Protocol
<1>3. RolledBack' = RolledBack
  BY <1>1 DEF RolledBack
<1>4. ASSUME child = "up", mut = NoMut PROVE LeavesBehind(Len(toMain), keys)'
  <2>1. toMain[n].type = "legacy" /\ toMain[n].state.keys = keys
    BY <1>2, <1>4 DEF Agreement, Settles, LeavesBehind, DiskHolds
  <2>2. n # 1
    BY <1>1, <1>2, <2>1
  <2>3. toMain'[n - 1] = toMain[n] /\ n - 1 # 0
    BY <1>2, <2>2
  <2> QED
    BY <1>1, <1>2, <2>1, <2>3 DEF LeavesBehind, DiskHolds
<1>5. ASSUME child = "up", mut # NoMut, toMain' # <<>>
      PROVE  LeavesBehind(Len(toMain) - 1, RolledBack)'
  <2>1. n - 1 > 0
    BY <1>2, <1>5
  <2>2. toMain[n - 1].type = "legacy" /\ toMain[n - 1].state.keys = RolledBack
    BY <1>1, <1>5, <2>1 DEF Agreement, Settles, LeavesBehind, DiskHolds
  <2>3. n - 1 # 1
    BY <1>1, <1>2, <2>2
  <2>4. toMain'[(n - 1) - 1] = toMain[n - 1] /\ (n - 1) - 1 # 0
    BY <1>2, <2>1, <2>3
  <2> QED
    BY <1>1, <1>2, <1>3, <2>2, <2>4 DEF LeavesBehind, DiskHolds
<1>6. ASSUME child = "up", mut # NoMut, toMain' = <<>>, NEW j \in DOMAIN toChild', IsAnswer(j)',
             toChild'[j].type = "rejected", toChild'[j].code = "revision"
      PROVE  DiskHolds(RolledBack)'
  <2>1. TypeOK
    BY DEF Agreement, Evidence, Protocol
  <2>2. PICK r \in ToChild :
           /\ r.id = msg.id
           /\ toChild' = IF child = "up" THEN Append(toChild, r) ELSE toChild
           /\ \/ Replayed(msg, r) \/ Mistimed(msg, r) \/ Written(msg, r) \/ Unwritten(msg, r)
    BY <2>1, DurableOutcome
  <2>3. ~(j \in DOMAIN toChild /\ toChild'[j] = toChild[j])
    BY <1>1, <1>6 DEF Agreement, Evidence, Protocol, RequestIsLast, IsAnswer
  <2>4. toChild'[j] = r
    BY <2>1, <2>2, <2>3, MainAnswers
  <2>5. UNCHANGED <<recorded, disk, failures>>
    BY <1>6, <2>2, <2>4 DEF Replayed, Mistimed, Written, Unwritten
  <2>6. n - 1 = 0
    BY <1>2, <1>6
  <2> QED
    BY <1>1, <1>3, <1>6, <2>5, <2>6 DEF Agreement, Settles, LeavesBehind, DiskHolds
<1> QED
  BY <1>1, <1>3, <1>4, <1>5, <1>6 DEF Agreement, Settles

LEMMA SettlesStopStart ==
  ASSUME Agreement, Evidence', ChildCrash \/ ChildShutdown \/ ChildRestart \/ Relaunch
  PROVE  Agreement'
<1>1. CASE ChildCrash \/ ChildShutdown
  BY <1>1 DEF ChildCrash, ChildShutdown, Agreement, Settles
<1>2. CASE ChildRestart \/ Relaunch
  <2>1. mut' = NoMut /\ Len(toMain') = 0 /\ recorded' = Nothing
    BY <1>2 DEF ChildRestart, Relaunch, ChildStarts
  <2>2. LeavesBehind(Len(toMain), keys)'
    BY <2>1 DEF LeavesBehind, DiskHolds
  <2> QED
    BY <2>1, <2>2 DEF Agreement, Settles
<1> QED
  BY <1>1, <1>2

LEMMA AgreementStep ==
  DurablePersistAssumption /\ Agreement /\ [Next]_vars => Agreement'
<1> SUFFICES ASSUME DurablePersistAssumption, Agreement, [Next]_vars
             PROVE  Agreement'
  OBVIOUS
<1>1. Evidence'
  BY EvidenceStep DEF Agreement
<1>2. CASE \E k \in Keys, new \in Values : Begin(k, new)
  BY <1>1, <1>2, SettlesBegin
<1> QED
  BY <1>1, <1>2, SettlesQuiet, SettlesSave, SettlesCommit, SettlesGiveUp, SettlesRetry,
     SettlesHandleLegacy, SettlesHandleDurable, SettlesStopStart
  DEF Next, ChildStep, MainStep

LEMMA AgreementInit == Init => Agreement
<1> SUFFICES ASSUME Init PROVE Agreement
  OBVIOUS
<1>1. Evidence
  BY AnswersStandInit DEF AnswersStand
<1>2. mut = NoMut /\ Len(toMain) = 0 /\ recorded = Nothing
  BY DEF Init
<1> QED
  BY <1>1, <1>2 DEF Agreement, Settles, LeavesBehind, DiskHolds

LEMMA AgreementMeaning == Agreement => DiskAgreesWhenQuiet
<1>1. toMain = <<>> => Len(toMain) = 0
  OBVIOUS
<1> QED
  BY <1>1 DEF Agreement, Settles, LeavesBehind, DiskHolds, DiskAgreesWhenQuiet

\* A failed change leaves no trace: once nothing is pending or on its way to the main
\* process, the file holds the keys the child serves from, unless the last background
\* save failed and nothing was written since. For every set of keys, however writes fail,
\* with children that crash, shut down and are replaced (mergeRollback and its reconcile
\* write).
THEOREM FailureLeavesNoTrace ==
  ASSUME DurablePersistAssumption
  PROVE  Spec => []DiskAgreesWhenQuiet
<1>1. Agreement /\ [Next]_vars => Agreement'
  BY AgreementStep
<1> QED
  BY <1>1, AgreementInit, AgreementMeaning, PTL DEF Spec
=============================================================================
