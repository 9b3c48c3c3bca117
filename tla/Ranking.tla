------------------------------- MODULE Ranking -------------------------------
(***************************************************************************)
(* The matcher of the strength ranking (src/gateway/llm-stats-ranking.mjs):*)
(* which entry of the source speaks of one of the gateway's models.  Ids   *)
(* are sequences of tokens, already lowered, split and without their       *)
(* vendor; entries are records with an id, a name (or none) and a rank (0: *)
(* not usable).  The vocabulary has each kind of token the code knows.     *)
(***************************************************************************)
EXTENDS Integers, Sequences, FiniteSets, SequencesExt

VARIABLE g               \* one lookup and its answer, one record

Generations == {"v1", "v2"}
Sizes       == {"8b"}
Variants    == {"flash"}               \* dropped, and yet another model
Dropped     == Variants \cup {"it"}    \* with packaging, stages and dates
Tokens      == {"glm", "coder"} \cup Generations \cup Sizes \cup Dropped

\* Bounded inputs: a family with at most two more tokens, in any order.
Ids == {<<"glm">>} \cup {<<t, u>> : t, u \in Tokens} \cup {<<t, u, v>> : t, u, v \in Tokens}
OurIds == {id \in Ids : "glm" \in ToSet(id) /\ IsInjective(id)}

NoName  == <<>>
NoEntry == [id |-> <<>>, name |-> NoName, rank |-> 0]

\* An entry's name and rank, and the entry beside it.
Companions ==
  {[name |-> n, rank |-> 2, beside |-> NoEntry] : n \in {NoName, <<"glm", "coder">>, <<"glm", "flash">>}}
  \cup {[name |-> NoName, rank |-> r, beside |-> [id |-> <<"glm", "v1">>, name |-> NoName, rank |-> 1]] :
          r \in {0, 2}}

None == [via |-> "none", entry |-> NoEntry]

TypeOK ==
  /\ g.ours \in OurIds \cup {<<>>}
  /\ g.answer.via \in {"none", "exact", "sibling"}
  /\ g.answer # None => g.answer.entry \in g.entries

-----------------------------------------------------------------------------
(* One entry *)

\* The tokens that carry identity.
Kept(id) == SelectSeq(id, LAMBDA t : t \notin Dropped)

\* The variant of an entry is that of its id and its name together.
VariantOf(id)     == ToSet(id) \cap Variants
EntryVariant(e)   == VariantOf(e.id) \cup VariantOf(e.name)

\* An id without a generation names the first one.
WithDefaultRelease(kept, other) ==
  IF ToSet(other) \cap Generations = {} THEN SelectSeq(kept, LAMBDA t : t # "v1") ELSE kept

Occurs(s, t)   == Cardinality({i \in DOMAIN s : s[i] = t})
SameTokens(s, t) == \A u \in ToSet(s) \cup ToSet(t) : Occurs(s, u) = Occurs(t, u)

\* One id goes on where the other ends, with more than a size.
GoesOn(s, t) ==
  LET short == IF Len(s) <= Len(t) THEN s ELSE t
      long  == IF Len(s) <= Len(t) THEN t ELSE s
  IN /\ short # <<>> /\ IsPrefix(short, long)
     /\ ~(ToSet(long) \ ToSet(short) \subseteq Sizes)

\* classifyCandidate for one field of an entry.
FieldClass(ours, field, sameVariant) ==
  LET a == WithDefaultRelease(Kept(ours), Kept(field))
      b == WithDefaultRelease(Kept(field), Kept(ours))
  IN CASE sameVariant /\ ours = field -> "exact"
       [] sameVariant /\ ours # field /\ (a = b \/ (Len(a) >= 2 /\ SameTokens(a, b))) -> "sibling"
       [] OTHER -> IF GoesOn(a, b) THEN "rejected" ELSE "none"

\* The first field that says anything decides, the id before the name.
Class(ours, e) ==
  LET same == VariantOf(ours) = EntryVariant(e)
      ById == FieldClass(ours, e.id, same)
  IN IF Kept(ours) = <<>> THEN "none"
     ELSE IF Kept(e.id) # <<>> /\ ById # "none" THEN ById
     ELSE IF Kept(e.name) # <<>> THEN FieldClass(ours, e.name, same) ELSE "none"

-----------------------------------------------------------------------------
(* The lookup *)

SharedPrefix(s, t) == Len(LongestCommonPrefix({s, t}))
Closeness(ours, e) ==
  LET byId == SharedPrefix(Kept(ours), Kept(e.id))  byName == SharedPrefix(Kept(ours), Kept(e.name))
  IN IF byId >= byName THEN byId ELSE byName

\* bestCandidate: of the ranked entries of a class the closest, then the strongest.
Candidates(ours, entries, kind) == {e \in entries : e.rank > 0 /\ Class(ours, e) = kind}
Best(ours, C) ==
  CHOOSE e \in C : \A o \in C : \/ Closeness(ours, e) > Closeness(ours, o)
                                \/ Closeness(ours, e) = Closeness(ours, o) /\ e.rank <= o.rank

\* VERIFIED_SIBLINGS: a sequence of tokens nobody could match, and its entry's id.
Verified == [id \in {<<"glm", "8b", "it">>} |-> <<"glm", "it">>]

\* matchRankingEntry: a verified sibling or nothing; else exact; else a sibling.
Match(ours, entries) ==
  LET exact   == Candidates(ours, entries, "exact")
      sibling == Candidates(ours, entries, "sibling")
      named   == {e \in entries : e.id = Verified[ours] /\ e.rank > 0}
      Row(via, C) == [via |-> via, entry |-> Best(ours, C)]
  IN CASE ours \in DOMAIN Verified -> IF named # {} THEN Row("sibling", named) ELSE None
       [] ours \notin DOMAIN Verified /\ exact # {} -> Row("exact", exact)
       [] ours \notin DOMAIN Verified /\ exact = {} /\ sibling # {} -> Row("sibling", sibling)
       [] OTHER -> None

Looks(ours, id, c) ==
  LET entries == {[id |-> id, name |-> c.name, rank |-> c.rank], c.beside} \ {NoEntry}
  IN g' = [ours |-> ours, entries |-> entries, answer |-> Match(ours, entries)]

Init == g = [ours |-> <<>>, entries |-> {}, answer |-> None]
Next == g.ours = <<>> /\ \E ours, id \in OurIds, c \in Companions : Looks(ours, id, c)
Spec == Init /\ [][Next]_g

-----------------------------------------------------------------------------
(* Properties *)

\* What an id says of the model, whatever the matcher drops.
Says(id)  == ToSet(id) \ {"it", "flash"}
Fast(ids) == \E id \in ids : "flash" \in ToSet(id)

\* Two ids name one model: the same tokens in whatever order, where a lone first
\* generation may be left out.
SameModel(ours, field) ==
  LET a == Says(ours)   b == Says(field)
  IN a = b \/ /\ (a \ b) \cup (b \ a) = {"v1"}
              /\ "v2" \notin a \cup b

\* Whether an entry speaks of our model, as one of its two spellings has it; the fast
\* variant of a model is another one.
SpeaksOf(e, ours) ==
  /\ Fast({ours}) = Fast({e.id, e.name})
  /\ SameModel(ours, e.id) \/ (e.name # NoName /\ SameModel(ours, e.name))

Judged == g.ours # <<>> /\ g.ours \notin DOMAIN Verified

\* A rank is never borrowed: not from another generation, size, variant or specialisation,
\* and not from an entry without one.
RanksAreOwn == Judged /\ g.answer # None => SpeaksOf(g.answer.entry, g.ours) /\ g.answer.entry.rank > 0

\* And never missed: an entry whose id names our model is found, and one that spells it
\* like ours is preferred to every other, the strongest of them first.
RanksAreFound ==
  Judged => \A e \in g.entries :
    e.rank > 0 /\ SpeaksOf(e, g.ours) /\ SameModel(g.ours, e.id) =>
      /\ g.answer # None
      /\ e.id = g.ours => g.answer.via = "exact" /\ g.answer.entry.rank <= e.rank

RanksAreHonest == RanksAreOwn /\ RanksAreFound
=============================================================================
