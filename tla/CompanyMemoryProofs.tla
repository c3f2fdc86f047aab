------------------------ MODULE CompanyMemoryProofs -------------------------
(***************************************************************************)
(* Theorems about CompanyMemory, for every set of tenants, every number of *)
(* concurrent passes and every number of mishaps.                          *)
(***************************************************************************)
EXTENDS CompanyMemory, TLAPS

\* What a store may still have to receive: a suffix of its program.
Rests ==
  [s \in Stores |->
    CASE s = "neo4j"  -> {<<"company", "targets">>, <<"targets">>, <<>>}
      [] s = "redis"  -> {<<"mark", "summary">>, <<"summary">>, <<>>}
      [] s \in Others -> {<<s>>, <<>>}]

LEMMA RestsOf ==
  /\ Program["neo4j"] = <<"company", "targets">>
  /\ Rests["neo4j"] = {<<"company", "targets">>, <<"targets">>, <<>>}
  /\ Program["redis"] = <<"mark", "summary">>
  /\ Rests["redis"] = {<<"mark", "summary">>, <<"summary">>, <<>>}
  /\ \A s \in Others : Program[s] = <<s>> /\ Rests[s] = {<<s>>, <<>>}
<1> USE OthersAssumption DEF Stores, Program, Rests
<1>1. /\ Program["neo4j"] = <<"company", "targets">>
      /\ Rests["neo4j"] = {<<"company", "targets">>, <<"targets">>, <<>>}
  OBVIOUS
<1>2. /\ Program["redis"] = <<"mark", "summary">>
      /\ Rests["redis"] = {<<"mark", "summary">>, <<"summary">>, <<>>}
  OBVIOUS
<1>3. ASSUME NEW s \in Others
      PROVE  Program[s] = <<s>> /\ Rests[s] = {<<s>>, <<>>}
  OBVIOUS
<1> QED
  BY <1>1, <1>2, <1>3

LEMMA NoWrites == <<>> \in Seq(Writes) /\ ToSet(<<>>) = {}
  BY DEF ToSet

LEMMA OneWrite ==
  ASSUME NEW a \in Writes
  PROVE  /\ <<a>> \in Seq(Writes) /\ <<a>> # <<>>
         /\ Head(<<a>>) = a /\ Tail(<<a>>) = <<>> /\ ToSet(<<a>>) = {a}
<1>1. <<a>> \in Seq(Writes) /\ <<a>> # <<>>
  OBVIOUS
<1>2. Head(<<a>>) = a /\ Tail(<<a>>) = <<>>
  OBVIOUS
<1>3. ToSet(<<a>>) = {a}
  BY DEF ToSet
<1> QED
  BY <1>1, <1>2, <1>3

LEMMA TwoWrites ==
  ASSUME NEW a \in Writes, NEW b \in Writes
  PROVE  /\ <<a, b>> \in Seq(Writes) /\ <<a, b>> # <<>>
         /\ Head(<<a, b>>) = a /\ Tail(<<a, b>>) = <<b>>
         /\ ToSet(<<a, b>>) = {a, b}
<1>1. <<a, b>> \in Seq(Writes) /\ <<a, b>> # <<>>
  OBVIOUS
<1>2. Head(<<a, b>>) = a /\ Tail(<<a, b>>) = <<b>>
  OBVIOUS
<1>3. ToSet(<<a, b>>) = {a, b}
  BY DEF ToSet
<1> QED
  BY <1>1, <1>2, <1>3

\* The next write of a store and what is left after it.
LEMMA NextWrite ==
  ASSUME NEW s \in Stores, NEW q \in Rests[s]
  PROVE  /\ q \in Seq(Writes)
         /\ q # <<>> => /\ Tail(q) \in Rests[s]
                        /\ Head(q) \in Writes
                        /\ s = "neo4j" => Head(q) \in GraphWrites
                        /\ Head(q) = "mark" => s = "redis"
                        /\ ToSet(q) = {Head(q)} \union ToSet(Tail(q))
<1> DEFINE Good(r) ==
      /\ r \in Seq(Writes)
      /\ r # <<>> => /\ Tail(r) \in Rests[s]
                     /\ Head(r) \in Writes
                     /\ s = "neo4j" => Head(r) \in GraphWrites
                     /\ Head(r) = "mark" => s = "redis"
                     /\ ToSet(r) = {Head(r)} \union ToSet(Tail(r))
<1>1. /\ {"company", "targets", "mark", "summary"} \subseteq Writes
      /\ {"company", "targets"} \subseteq GraphWrites
  BY DEF Writes, GraphWrites, RedisWrites
<1>2. Good(<<>>)
  BY NoWrites
<1>3. CASE s = "neo4j"
  <2>1. Rests[s] = {<<"company", "targets">>, <<"targets">>, <<>>}
    BY <1>3, RestsOf
  <2>2. Good(<<"company", "targets">>)
    BY <1>1, <2>1, OneWrite, TwoWrites
  <2>3. Good(<<"targets">>)
    BY <1>1, <2>1, OneWrite, NoWrites
  <2> QED
    BY <1>2, <2>1, <2>2, <2>3
<1>4. CASE s = "redis"
  <2>1. Rests[s] = {<<"mark", "summary">>, <<"summary">>, <<>>}
    BY <1>4, RestsOf
  <2>2. Good(<<"mark", "summary">>)
    BY <1>1, <1>4, <2>1, OneWrite, TwoWrites
  <2>3. Good(<<"summary">>)
    BY <1>1, <1>4, <2>1, OneWrite, NoWrites
  <2> QED
    BY <1>2, <2>1, <2>2, <2>3
<1>5. CASE s \in Others
  <2>1. Rests[s] = {<<s>>, <<>>} /\ s \in Writes
    BY <1>5, RestsOf DEF Writes
  <2>2. s # "mark" /\ s # "neo4j"
    BY <1>5, OthersAssumption DEF RedisWrites
  <2>3. Good(<<s>>)
    BY <2>1, <2>2, OneWrite, NoWrites
  <2> QED
    BY <1>2, <2>1, <2>3
<1> QED
  BY <1>3, <1>4, <1>5 DEF Stores

LEMMA WholeOrNothing ==
  ASSUME NEW s \in Stores
  PROVE  Program[s] \in Rests[s] /\ <<>> \in Rests[s]
  BY RestsOf DEF Stores

-----------------------------------------------------------------------------
\* TypeOK with the order in which a store receives its writes.
TypeInv ==
  /\ TypeOK
  /\ \A p \in Passes, s \in Stores : todo[p][s] \in Rests[s]

LEMMA TypeInit == Init => TypeInv
<1> SUFFICES ASSUME Init PROVE TypeInv
  OBVIOUS
<1>1. NoWork \in [Stores -> Seq(Writes)]
  BY NoWrites DEF NoWork
<1>2. \A s \in Stores : NoWork[s] \in Rests[s]
  BY WholeOrNothing DEF NoWork
<1> QED
  BY <1>1, <1>2, MishapsAssumption DEF Init, TypeInv, TypeOK, Over

\* Only the steps of a record touch todo.
LEMMA TypeStep ==
  ASSUME TypeInv, NEW p \in Passes, Step(p)
  PROVE  TypeInv'
<1> USE DEF TypeInv, TypeOK, history, Goto, Over, Working
<1>1. NoWork \in [Stores -> Seq(Writes)]
      /\ \A s \in Stores : NoWork[s] \in Rests[s]
  BY NoWrites, WholeOrNothing DEF NoWork
<1>2. Program \in [Stores -> Seq(Writes)]
      /\ \A s \in Stores : Program[s] \in Rests[s]
  <2>1. \A s \in Stores : Program[s] \in Rests[s]
    BY WholeOrNothing
  <2>2. \A s \in Stores : Program[s] \in Seq(Writes)
    BY <2>1, NextWrite
  <2> QED
    BY <2>1, <2>2 DEF Program
<1>3. \A w \in Writes : Put(p, w) => stored' \subseteq Writes \X Tenants
  BY DEF Put
<1>4. CASE Begin(p)
  <2>1. Node \in BOOLEAN
    BY DEF Node
  <2>2. mustSkip' \in [Passes -> BOOLEAN]
    BY <1>4, <2>1 DEF Begin
  <2>3. pc' \in [Passes -> Over \union Working \union {"redis", "graph",
                                                     "backfill"}]
    BY <1>4 DEF Begin
  <2>4. pc'[p] # "recording" => todo'[p] = NoWork
    BY <1>4 DEF Begin
  <2> QED
    BY <1>4, <2>2, <2>3, <2>4 DEF Begin
<1>5. CASE CheckRedis(p)
  BY <1>5 DEF CheckRedis
<1>6. CASE CheckGraph(p)
  BY <1>6 DEF CheckGraph
<1>7. CASE Backfill(p)
  BY <1>3, <1>7 DEF Backfill, Writes, RedisWrites
<1>8. CASE AgentWrites(p)
  BY <1>3, <1>8 DEF AgentWrites, Writes, GraphWrites
<1>9. CASE Record(p)
  BY <1>2, <1>9 DEF Record
<1>10. CASE Join(p)
  BY <1>10 DEF Join
<1>11. CASE End(p)
  BY <1>11 DEF End
<1>12. CASE Raise(p)
  <2>1. stored' \subseteq Writes \X Tenants
    BY <1>3, <1>12 DEF Raise, Writes, RedisWrites
  <2>2. mishaps' \in 0..MaxMishaps
    BY <1>12, MishapsAssumption DEF Raise, Mishap
  <2> QED
    BY <1>12, <2>1, <2>2 DEF Raise
<1>13. CASE Die(p)
  <2>1. mishaps' \in 0..MaxMishaps
    BY <1>13, MishapsAssumption DEF Die, Mishap
  <2>2. spoilt' \subseteq Tenants
    BY <1>13 DEF Die, Spoils
  <2> QED
    BY <1>1, <1>13, <2>1, <2>2 DEF Die
<1>14. ASSUME NEW s \in Stores, Write(p, s)
       PROVE  TypeInv'
  <2>1. /\ Head(todo[p][s]) \in Writes
        /\ Tail(todo[p][s]) \in Rests[s] /\ Tail(todo[p][s]) \in Seq(Writes)
    BY <1>14, NextWrite DEF Write
  <2>2. stored' \subseteq Writes \X Tenants
    BY <1>3, <1>14, <2>1 DEF Write
  <2> QED
    BY <1>14, <2>1, <2>2 DEF Write
<1>15. ASSUME NEW s \in Stores, WriteFails(p, s)
       PROVE  TypeInv'
  <2>1. Head(todo[p][s]) \in Writes
    BY <1>15, NextWrite DEF WriteFails
  <2>2. stored' \subseteq Writes \X Tenants
    BY <1>3, <1>15, <2>1 DEF WriteFails
  <2>3. <<>> \in Rests[s] /\ <<>> \in Seq(Writes)
    BY WholeOrNothing, NoWrites
  <2>4. mishaps' \in 0..MaxMishaps
    BY <1>15, MishapsAssumption DEF WriteFails, Mishap
  <2>5. spoilt' \subseteq Tenants
    BY <1>15 DEF WriteFails, Spoils
  <2>6. todo' = [todo EXCEPT ![p][s] = <<>>]
    BY <1>15 DEF WriteFails, Abandoned
  <2>7. failed' \in [Passes -> SUBSET Stores]
    BY <1>15 DEF WriteFails
  <2>8. pc[p] = "recording" /\ UNCHANGED <<tenant, pc, mustSkip>>
    BY <1>15 DEF WriteFails
  <2> QED
    BY <2>2, <2>3, <2>4, <2>5, <2>6, <2>7, <2>8
<1> QED
  BY <1>4, <1>5, <1>6, <1>7, <1>8, <1>9, <1>10, <1>11, <1>12, <1>13, <1>14,
     <1>15 DEF Step

LEMMA TypeNext == TypeInv /\ [Next]_vars => TypeInv'
<1> SUFFICES ASSUME TypeInv, [Next]_vars PROVE TypeInv'
  OBVIOUS
<1>1. CASE Flush
  BY <1>1 DEF TypeInv, TypeOK, Flush, history
<1>2. CASE UNCHANGED vars
  BY <1>2 DEF TypeInv, TypeOK, vars
<1> QED
  BY <1>1, <1>2, TypeStep DEF Next

\* Every variable of CompanyMemory keeps its type, and only a pass that is
\* writing a record still owes writes to a store.
THEOREM TypeCorrect == Spec => []TypeOK
<1>1. Spec => []TypeInv
  BY TypeInit, TypeNext, PTL DEF Spec
<1> QED
  BY <1>1, PTL DEF TypeInv

-----------------------------------------------------------------------------
\* What Neo4j, Qdrant and Postgres hold, they keep; the history of records that
\* missed Neo4j only grows; a pass never changes its tenant.
LEMMA StoresKeep ==
  ASSUME TypeInv, [Next]_vars
  PROVE  /\ \A e \in stored : e[1] \notin RedisWrites => e \in stored'
         /\ Node => Node'
         /\ spoilt \subseteq spoilt'
         /\ tenant' = tenant
<1>1. ASSUME NEW p \in Passes, Step(p)
      PROVE  stored \subseteq stored' /\ spoilt \subseteq spoilt'
             /\ tenant' = tenant
  <2>1. CASE Die(p)
    BY <2>1 DEF Die, Spoils
  <2>2. ASSUME NEW s \in Stores, WriteFails(p, s)
        PROVE  stored \subseteq stored' /\ spoilt \subseteq spoilt'
               /\ tenant' = tenant
    BY <2>2 DEF WriteFails, Spoils, Put
  <2>3. ASSUME NEW s \in Stores, Write(p, s)
        PROVE  stored \subseteq stored' /\ spoilt \subseteq spoilt'
               /\ tenant' = tenant
    BY <2>3 DEF Write, Put, history
  <2>4. CASE Raise(p)
    BY <2>4 DEF Raise, Put
  <2> QED
    BY <1>1, <2>1, <2>2, <2>3, <2>4 DEF Step, Begin, CheckRedis, CheckGraph,
       Backfill, AgentWrites, Record, Join, End, Put, history
<1>2. /\ \A e \in stored : e[1] \notin RedisWrites => e \in stored'
      /\ spoilt \subseteq spoilt'
      /\ tenant' = tenant
  BY <1>1 DEF Next, Flush, vars, history
<1>3. \A t \in Tenants, w \in GraphWrites : <<w, t>>[1] \notin RedisWrites
  BY DEF GraphWrites, RedisWrites
<1>4. Node => Node'
  BY <1>2, <1>3 DEF Node
<1> QED
  BY <1>2, <1>4

\* A pass that must skip is never anywhere but on the way to skipping, and
\* nobody back-fills the mark of a company Neo4j does not know.
KnownInv ==
  \A p \in Passes :
    /\ mustSkip[p] => Node /\ pc[p] \notin Working
    /\ pc[p] = "backfill" => Node

LEMMA KnownStep ==
  ASSUME TypeInv, KnownInv, [Next]_vars
  PROVE  KnownInv'
<1> SUFFICES ASSUME NEW q \in Passes
             PROVE  /\ mustSkip'[q] => Node' /\ pc'[q] \notin Working
                    /\ pc'[q] = "backfill" => Node'
  BY DEF KnownInv
<1> USE DEF TypeInv, TypeOK, Goto, Over, Working
<1>1. Node => Node'
  BY StoresKeep
<1>2. /\ mustSkip[q] => Node /\ pc[q] \notin Working
      /\ pc[q] = "backfill" => Node
  BY DEF KnownInv
<1>3. CASE pc'[q] = pc[q] /\ mustSkip'[q] = mustSkip[q]
  BY <1>1, <1>2, <1>3
<1>4. CASE pc'[q] = "over" /\ mustSkip'[q] = mustSkip[q]
  BY <1>1, <1>2, <1>4
<1>5. CASE Begin(q)
  BY <1>1, <1>5 DEF Begin
<1>6. CASE CheckRedis(q)
  BY <1>1, <1>2, <1>6 DEF CheckRedis, history
<1>7. CASE CheckGraph(q)
  BY <1>1, <1>2, <1>7 DEF CheckGraph, history
<1>8. CASE Backfill(q)
  BY <1>1, <1>2, <1>8 DEF Backfill, history
<1>9. CASE Record(q) \/ Join(q)
  BY <1>1, <1>2, <1>9 DEF Record, Join, history
<1>10. CASE \/ AgentWrites(q)
            \/ \E s \in Stores : Write(q, s) \/ WriteFails(q, s)
  <2>1. pc'[q] = pc[q] /\ mustSkip'[q] = mustSkip[q]
    BY <1>10 DEF AgentWrites, Write, WriteFails, history
  <2> QED
    BY <1>3, <2>1
<1>11. CASE End(q) \/ Raise(q) \/ Die(q)
  <2>1. pc'[q] = "over" /\ mustSkip'[q] = mustSkip[q]
    BY <1>11 DEF End, Raise, Die, history
  <2> QED
    BY <1>4, <2>1
<1>12. ASSUME NEW p \in Passes \ {q}, Step(p)
       PROVE  pc'[q] = pc[q] /\ mustSkip'[q] = mustSkip[q]
  BY <1>12 DEF Step, Begin, CheckRedis, CheckGraph, Backfill, AgentWrites,
     Record, Join, End, Raise, Die, Write, WriteFails, history
<1>13. CASE Flush \/ UNCHANGED vars
  BY <1>3, <1>13 DEF Flush, vars, history
<1>14. CASE Step(q)
  BY <1>5, <1>6, <1>7, <1>8, <1>9, <1>10, <1>11, <1>14 DEF Step
<1> QED
  BY <1>3, <1>12, <1>13, <1>14 DEF Next

\* Once the company is in Neo4j, no check that begins later lets a pass work on
\* it: CheckGraph finds the node however often Redis is flushed in between.
THEOREM KnownSkips == Spec => []KnownIsSkipped
<1>1. Init => KnownInv
  BY DEF Init, KnownInv
<1>2. KnownInv => KnownIsSkipped
  BY DEF KnownInv, KnownIsSkipped
<1>3. Spec => [](TypeInv /\ KnownInv)
  BY <1>1, TypeInit, TypeNext, KnownStep, PTL DEF Spec
<1> QED
  BY <1>2, <1>3, PTL

-----------------------------------------------------------------------------
\* A pass that is writing its record has made the node, or owes Neo4j the whole
\* record, or has it on file that Neo4j was missed.
BackedInv ==
  /\ MarkIsBacked
  /\ \A p \in Passes : pc[p] = "recording" =>
       \/ todo[p]["neo4j"] = Program["neo4j"]
       \/ Node
       \/ tenant[p] \in spoilt

\* How a record's debt to Neo4j is settled by the pass that owes it.
LEMMA DebtStep ==
  ASSUME TypeInv, [Next]_vars, NEW p \in Passes, pc[p] = "recording",
         todo[p]["neo4j"] = Program["neo4j"]
  PROVE  \/ pc'[p] = "recording" /\ todo'[p]["neo4j"] = Program["neo4j"]
         \/ Node'
         \/ tenant[p] \in spoilt'
<1> USE DEF TypeInv, TypeOK, Goto
<1>1. Node => Node'
  BY StoresKeep
<1>2. Program["neo4j"] = <<"company", "targets">>
  BY RestsOf
<1>3. "neo4j" \in Stores /\ todo[p]["neo4j"] # <<>>
  BY <1>2, TwoWrites DEF Stores, Writes, GraphWrites
<1>4. ~Join(p)
  BY <1>3 DEF Join, NoWork
<1>5. ASSUME NEW s \in Stores, Write(p, s)
      PROVE  \/ pc'[p] = "recording" /\ todo'[p]["neo4j"] = Program["neo4j"]
             \/ Node'
  <2>1. CASE s = "neo4j"
    <3>1. Head(todo[p][s]) = "company"
      BY <1>2, <2>1
    <3>2. <<"company", tenant[p]>> \in stored'
      BY <1>5, <3>1 DEF Write, Put
    <3>3. tenant'[p] = tenant[p] /\ tenant[p] \in Tenants
      BY <1>5 DEF Write
    <3> QED
      BY <3>2, <3>3 DEF Node, GraphWrites
  <2>2. CASE s # "neo4j"
    BY <1>5, <2>2 DEF Write
  <2> QED
    BY <2>1, <2>2
<1>6. CASE Spoils(p) = spoilt' /\ UNCHANGED tenant
  BY <1>1, <1>6 DEF Spoils
<1>7. ASSUME NEW s \in Stores, WriteFails(p, s)
      PROVE  \/ pc'[p] = "recording" /\ todo'[p]["neo4j"] = Program["neo4j"]
             \/ Node'
             \/ tenant[p] \in spoilt'
  <2>1. CASE s = "neo4j"
    BY <1>6, <1>7, <2>1 DEF WriteFails
  <2>2. CASE s # "neo4j"
    BY <1>7, <2>2 DEF WriteFails, Abandoned
  <2> QED
    BY <2>1, <2>2
<1>8. CASE Die(p)
  BY <1>6, <1>8 DEF Die
<1>9. CASE pc'[p] = pc[p] /\ todo'[p] = todo[p]
  BY <1>9
<1>10. ~(\/ Begin(p) \/ CheckRedis(p) \/ CheckGraph(p) \/ Backfill(p)
         \/ AgentWrites(p) \/ Record(p) \/ End(p) \/ Raise(p))
  BY DEF Begin, CheckRedis, CheckGraph, Backfill, AgentWrites, Record, End,
     Raise, Over
<1>11. CASE Step(p)
  BY <1>4, <1>5, <1>7, <1>8, <1>10, <1>11 DEF Step
<1>12. ASSUME NEW q \in Passes \ {p}, Step(q)
       PROVE  pc'[p] = pc[p] /\ todo'[p] = todo[p]
  BY <1>12 DEF Step, Begin, CheckRedis, CheckGraph, Backfill, AgentWrites,
     Record, Join, End, Raise, Die, Write, WriteFails, Abandoned, history
<1>13. CASE Flush \/ UNCHANGED vars
  BY <1>13 DEF Flush, vars
<1> QED
  BY <1>9, <1>11, <1>12, <1>13 DEF Next

\* A mark appears when a pass back-fills it or writes its record.
LEMMA NewMark ==
  ASSUME TypeInv, KnownInv, [Next]_vars, NEW t \in Tenants,
         ~Marked(t), Marked(t)'
  PROVE  \/ Node
         \/ \E p \in Passes : tenant[p] = t /\ pc[p] = "recording"
<1> USE DEF TypeInv, TypeOK, Marked
<1>1. <<"mark", t>> \in stored' \ stored
  OBVIOUS
<1>2. ~Flush /\ ~UNCHANGED vars
  BY <1>1 DEF Flush, vars
<1>3. PICK p \in Passes : Step(p)
  BY <1>2 DEF Next
<1>4. ASSUME NEW w, Put(p, w)
      PROVE  w = "mark" /\ tenant[p] = t
  BY <1>1, <1>4 DEF Put
<1>5. CASE pc[p] = "recording"
  <2>1. ~(\/ Begin(p) \/ CheckRedis(p) \/ CheckGraph(p) \/ Backfill(p)
          \/ AgentWrites(p) \/ Record(p) \/ End(p) \/ Raise(p))
    BY <1>5 DEF Begin, CheckRedis, CheckGraph, Backfill, AgentWrites, Record,
       End, Raise, Over
  <2>2. ~Join(p) /\ ~Die(p)
    BY <1>1 DEF Join, Die
  <2>3. PICK s \in Stores : Write(p, s) \/ WriteFails(p, s)
    BY <1>3, <2>1, <2>2 DEF Step
  <2>4. Put(p, Head(todo[p][s]))
    BY <1>1, <2>3 DEF Write, WriteFails
  <2> QED
    BY <1>4, <1>5, <2>4
<1>6. CASE pc[p] # "recording"
  <2>1. pc[p] = "backfill"
    BY <1>1, <1>3, <1>4, <1>6 DEF Step, Begin, CheckRedis, CheckGraph,
       AgentWrites, Record, Join, End, Raise, Die, Write, WriteFails, Backfill
  <2> QED
    BY <2>1 DEF KnownInv
<1> QED
  BY <1>5, <1>6

LEMMA BackedStep ==
  ASSUME TypeInv, KnownInv, BackedInv, [Next]_vars
  PROVE  BackedInv'
<1> USE DEF TypeInv, TypeOK
<1>1. (Node => Node') /\ spoilt \subseteq spoilt' /\ tenant' = tenant
  BY StoresKeep
<1> DEFINE Owes(p) == pc[p] = "recording"
                      /\ todo[p]["neo4j"] = Program["neo4j"]
<1>2. \A p \in Passes : Owes(p) => Owes(p)' \/ Node' \/ tenant[p] \in spoilt'
  BY DebtStep
<1>3. ASSUME NEW p \in Passes, pc'[p] = "recording"
      PROVE  Owes(p)' \/ Node' \/ tenant'[p] \in spoilt'
  <2>1. CASE pc[p] = "recording"
    BY <1>1, <1>2, <2>1 DEF BackedInv
  <2>2. CASE pc[p] # "recording"
    <3>1. Record(p)
      BY <1>3, <2>2 DEF Next, Step, Begin, CheckRedis, CheckGraph, Backfill,
         AgentWrites, Record, Join, End, Raise, Die, Write, WriteFails, Flush,
         Goto, vars, history
    <3> QED
      BY <1>3, <3>1 DEF Record
  <2> QED
    BY <2>1, <2>2
<1>4. ASSUME NEW t \in Tenants, Marked(t)'
      PROVE  \/ Node' \/ t \in spoilt'
             \/ \E p \in Passes : tenant'[p] = t /\ Owes(p)'
  <2>1. CASE \E p \in Passes : tenant[p] = t /\ Owes(p)
    BY <1>1, <1>2, <2>1
  <2>2. CASE Node \/ t \in spoilt
    BY <1>1, <2>2
  <2>3. CASE Marked(t)
    BY <2>1, <2>2, <2>3 DEF BackedInv, MarkIsBacked
  <2>4. CASE ~Marked(t)
    BY <1>4, <2>1, <2>2, <2>4, NewMark DEF BackedInv
  <2> QED
    BY <2>3, <2>4
<1> QED
  BY <1>3, <1>4 DEF BackedInv, MarkIsBacked

\* Redis never claims more than Neo4j will confirm: a mark implies the node,
\* or the record about to create it, or a record known to have missed Neo4j.
THEOREM MarksAreBacked == Spec => []MarkIsBacked
<1>1. Init => KnownInv /\ BackedInv
  BY DEF Init, KnownInv, BackedInv, MarkIsBacked, Marked
<1>2. Spec => [](TypeInv /\ KnownInv /\ BackedInv)
  BY <1>1, TypeInit, TypeNext, KnownStep, BackedStep, PTL DEF Spec
<1> QED
  BY <1>2, PTL DEF BackedInv

-----------------------------------------------------------------------------
\* While a record is written, a write of a store that has not failed is either
\* made or still to be made.
LandedInv ==
  \A p \in Passes, s \in Stores \ {"redis"} :
    /\ pc[p] \in {"recording", "recorded"}
    /\ s \notin failed[p]
    => \A w \in ToSet(Program[s]) :
         <<w, tenant[p]>> \in stored \/ w \in ToSet(todo[p][s])

LEMMA KeptWrites ==
  ASSUME NEW s \in Stores \ {"redis"}, NEW w \in ToSet(Program[s])
  PROVE  w \notin RedisWrites
<1>1. CASE s = "neo4j"
  <2>1. w \in ToSet(<<"company", "targets">>)
    BY <1>1, RestsOf
  <2>2. "company" \in Writes /\ "targets" \in Writes
    BY DEF Writes, GraphWrites
  <2>3. w \in {"company", "targets"}
    BY <2>1, <2>2, TwoWrites
  <2> QED
    BY <2>3 DEF RedisWrites
<1>2. CASE s \in Others
  <2>1. w \in ToSet(<<s>>) /\ s \in Writes
    BY <1>2, RestsOf DEF Writes
  <2>2. w = s
    BY <2>1, OneWrite
  <2> QED
    BY <1>2, <2>2, OthersAssumption
<1> QED
  BY <1>1, <1>2 DEF Stores

LEMMA LandedStep ==
  ASSUME TypeInv, LandedInv, [Next]_vars
  PROVE  LandedInv'
<1> USE DEF TypeInv, TypeOK, Goto
<1> SUFFICES ASSUME NEW p \in Passes, NEW s \in Stores \ {"redis"},
                    NEW w \in ToSet(Program[s]),
                    pc'[p] \in {"recording", "recorded"}, s \notin failed'[p]
             PROVE  \/ <<w, tenant'[p]>> \in stored'
                    \/ w \in ToSet(todo'[p][s])
  BY DEF LandedInv
<1>1. <<w, tenant[p]>> \in stored => <<w, tenant'[p]>> \in stored'
  BY StoresKeep, KeptWrites
<1>2. \/ pc[p] \notin {"recording", "recorded"} \/ s \in failed[p]
      \/ <<w, tenant[p]>> \in stored
      \/ w \in ToSet(todo[p][s])
  BY DEF LandedInv
<1>3. CASE /\ pc[p] \in {"recording", "recorded"}
           /\ failed[p] \subseteq failed'[p] /\ todo'[p][s] = todo[p][s]
  BY <1>1, <1>2, <1>3
<1>4. CASE Record(p)
  BY <1>4 DEF Record
<1>5. CASE Write(p, s)
  <2>1. todo[p][s] \in Rests[s] /\ todo[p][s] # <<>>
    BY <1>5 DEF Write
  <2>2. ToSet(todo[p][s]) = {Head(todo[p][s])} \union ToSet(Tail(todo[p][s]))
    BY <2>1, NextWrite
  <2>3. /\ todo'[p][s] = Tail(todo[p][s]) /\ failed'[p] = failed[p]
        /\ <<Head(todo[p][s]), tenant'[p]>> \in stored'
        /\ pc[p] = "recording"
    BY <1>5 DEF Write, Put
  <2> QED
    BY <1>1, <1>2, <2>2, <2>3
<1>6. ~WriteFails(p, s)
  BY DEF WriteFails
<1>7. ASSUME NEW r \in Stores \ {s}, Write(p, r) \/ WriteFails(p, r)
      PROVE  /\ pc[p] \in {"recording", "recorded"}
             /\ failed[p] \subseteq failed'[p] /\ todo'[p][s] = todo[p][s]
  BY <1>7 DEF Write, WriteFails, Abandoned
<1>8. CASE AgentWrites(p) \/ Join(p)
  BY <1>3, <1>8 DEF AgentWrites, Join
<1>9. ~(Begin(p) \/ CheckRedis(p) \/ CheckGraph(p) \/ Backfill(p)
        \/ End(p) \/ Raise(p) \/ Die(p))
  BY DEF Begin, CheckRedis, CheckGraph, Backfill, End, Raise, Die
<1>10. CASE Step(p)
  BY <1>3, <1>4, <1>5, <1>6, <1>7, <1>8, <1>9, <1>10 DEF Step
<1>11. ASSUME NEW q \in Passes \ {p}, Step(q)
       PROVE  /\ pc[p] \in {"recording", "recorded"}
              /\ failed[p] \subseteq failed'[p] /\ todo'[p][s] = todo[p][s]
  BY <1>11 DEF Step, Begin, CheckRedis, CheckGraph, Backfill, AgentWrites,
     Record, Join, End, Raise, Die, Write, WriteFails, Abandoned, history
<1>12. CASE Flush \/ UNCHANGED vars
  BY <1>3, <1>12 DEF Flush, vars
<1> QED
  BY <1>3, <1>10, <1>11, <1>12 DEF Next

\* A store that fails costs only its own data: gather returns with every write
\* of the coroutines that did not raise.
THEOREM FailuresStayApart == Spec => []StoresFailAlone
<1>1. Init => LandedInv
  BY DEF Init, LandedInv
<1>2. TypeInv /\ LandedInv => StoresFailAlone
  <2> SUFFICES ASSUME TypeInv, LandedInv, NEW p \in Passes, NEW s \in Stores,
                      pc[p] = "recorded", s # "redis", s \notin failed[p],
                      NEW w \in ToSet(Program[s])
               PROVE  <<w, tenant[p]>> \in stored
    BY DEF StoresFailAlone
  <2>1. todo[p][s] = <<>>
    BY DEF TypeInv, TypeOK, NoWork
  <2> QED
    BY <2>1, NoWrites DEF LandedInv
<1>3. Spec => [](TypeInv /\ LandedInv)
  BY <1>1, TypeInit, TypeNext, LandedStep, PTL DEF Spec
<1> QED
  BY <1>2, <1>3, PTL

-----------------------------------------------------------------------------
\* What a step adds to the stores, seen as knowledge: nothing, or what a
\* working pass may Learn.
LEMMA Learning ==
  ASSUME TypeInv, NEW p \in Passes, NEW w \in Writes, Put(p, w)
  PROVE  \/ Knowledge' = Knowledge
         \/ Knowledge' \in IF Knowledge = "none" THEN {"cached", "durable"}
                           ELSE {"durable"}
<1>1. stored \subseteq stored'
  BY DEF Put
<1>2. Node => Node'
  BY <1>1 DEF Node
<1>3. (\E t \in Tenants : Marked(t)) => (\E t \in Tenants : Marked(t)')
  BY <1>1 DEF Marked
<1> QED
  BY <1>2, <1>3 DEF Knowledge

\* The refinement: the initial states map to initial states, and every step to
\* a step of CompanyDedup or a stutter.
LEMMA DedupInit == Init => Dedup!Init
  BY DEF Init, Dedup!Init, Knowledge, VerdictAt, Node, Marked, Working

Verdicts == [p \in Passes |-> VerdictAt(pc[p])]

LEMMA Turning ==
  ASSUME TypeInv, NEW p \in Passes, NEW x, Goto(p, x)
  PROVE  Verdicts' = [Verdicts EXCEPT ![p] = VerdictAt(x)]
  BY DEF TypeInv, TypeOK, Goto, Verdicts

LEMMA DedupNext ==
  ASSUME TypeInv, KnownInv, [Next]_vars
  PROVE  [Dedup!Next]_<<Knowledge, Verdicts>>
<1> USE DEF Dedup!Next
<1>1. CASE UNCHANGED <<Knowledge, Verdicts>>
  BY <1>1
<1>2. ASSUME UNCHANGED stored PROVE UNCHANGED Knowledge
  BY <1>2 DEF Knowledge, Node, Marked
<1>3. ASSUME UNCHANGED pc PROVE UNCHANGED Verdicts
  BY <1>3 DEF Verdicts
<1>4. ASSUME NEW p \in Passes, Step(p)
      PROVE  [Dedup!Next]_<<Knowledge, Verdicts>>
  <2> USE DEF TypeInv, TypeOK
  <2>1. Verdicts[p] = VerdictAt(pc[p])
    BY DEF Verdicts
  <2>2. ASSUME UNCHANGED pc, VerdictAt(pc[p]) = "work",
               NEW w \in Writes, Put(p, w)
        PROVE  [Dedup!Next]_<<Knowledge, Verdicts>>
    <3>1. CASE Knowledge' = Knowledge
      BY <1>1, <1>3, <2>2, <3>1
    <3>2. CASE Knowledge' # Knowledge
      <4>1. Dedup!Learn(p)
        BY <1>3, <2>1, <2>2, <3>2, Learning DEF Dedup!Learn, Verdicts
      <4> QED
        BY <4>1
    <3> QED
      BY <3>1, <3>2
  <2>3. ASSUME UNCHANGED Knowledge, Goto(p, "over"), pc[p] \notin Over
        PROVE  [Dedup!Next]_<<Knowledge, Verdicts>>
    <3>1. VerdictAt(pc[p]) # "over" /\ VerdictAt("over") = "over"
      BY <2>3 DEF VerdictAt, Over, Working
    <3>2. Verdicts' = [Verdicts EXCEPT ![p] = "over"]
      BY <2>3, <3>1, Turning
    <3>3. Dedup!End(p)
      BY <2>1, <2>3, <3>1, <3>2 DEF Dedup!End, Dedup!Turn, Verdicts
    <3> QED
      BY <3>3
  <2>4. ASSUME UNCHANGED Knowledge, NEW x, Goto(p, x),
               VerdictAt(x) = VerdictAt(pc[p])
        PROVE  [Dedup!Next]_<<Knowledge, Verdicts>>
    <3>1. Verdicts' = [Verdicts EXCEPT ![p] = Verdicts[p]]
      BY <2>1, <2>4, Turning
    <3>2. Verdicts' = Verdicts
      BY <3>1 DEF Verdicts
    <3> QED
      BY <1>1, <2>4, <3>2
  <2>5. CASE Begin(p)
    <3>1. VerdictAt(pc[p]) \in {"over", "skip"}
      BY <2>5 DEF Begin, Over, VerdictAt, Working
    <3>2. VerdictAt("redis") = "checking" /\ VerdictAt("agents") = "work"
      BY DEF VerdictAt, Working
    <3>3. \/ Verdicts' = [Verdicts EXCEPT ![p] = "checking"]
          \/ Verdicts' = [Verdicts EXCEPT ![p] = "work"]
      BY <2>5, <3>2, Turning DEF Begin
    <3>4. Dedup!Begin(p)
      BY <1>2, <2>1, <2>5, <3>1, <3>3
         DEF Begin, Dedup!Begin, Dedup!Turn, Verdicts
    <3> QED
      BY <3>4
  <2>6. CASE CheckRedis(p)
    <3>1. VerdictAt(pc[p]) = "checking" /\ VerdictAt("graph") = "checking"
          /\ VerdictAt("skipped") = "skip"
      BY <2>6 DEF CheckRedis, VerdictAt, Working
    <3>2. CASE Marked(tenant[p])
      <4>1. Knowledge # "none"
        BY <3>2 DEF Knowledge
      <4>2. Verdicts' = [Verdicts EXCEPT ![p] = "skip"]
        BY <2>6, <3>1, <3>2, Turning DEF CheckRedis
      <4>3. Dedup!DecideSkip(p)
        BY <1>2, <2>1, <2>6, <3>1, <4>1, <4>2
           DEF CheckRedis, Dedup!DecideSkip, Dedup!Turn, Verdicts
      <4> QED
        BY <4>3
    <3>3. CASE ~Marked(tenant[p])
      BY <1>2, <2>4, <2>6, <3>1, <3>3 DEF CheckRedis
    <3> QED
      BY <3>2, <3>3
  <2>7. CASE CheckGraph(p)
    <3>1. VerdictAt(pc[p]) = "checking" /\ VerdictAt("backfill") = "skip"
          /\ VerdictAt("agents") = "work"
      BY <2>7 DEF CheckGraph, VerdictAt, Working
    <3>2. Verdicts' = [Verdicts EXCEPT ![p] = IF Node THEN "skip" ELSE "work"]
      BY <2>7, <3>1, Turning DEF CheckGraph
    <3>3. CASE Node
      <4>1. Dedup!DecideSkip(p)
        BY <1>2, <2>1, <2>7, <3>1, <3>2, <3>3
           DEF CheckGraph, Dedup!DecideSkip, Dedup!Turn, Verdicts, Knowledge
      <4> QED
        BY <4>1
    <3>4. CASE ~Node
      <4>1. Knowledge # "durable"
        BY <3>4 DEF Knowledge
      <4>2. Dedup!DecideWork(p)
        BY <1>2, <2>1, <2>7, <3>1, <3>2, <3>4, <4>1
           DEF CheckGraph, Dedup!DecideWork, Dedup!Turn, Verdicts
      <4> QED
        BY <4>2
    <3> QED
      BY <3>3, <3>4
  <2>8. ASSUME pc[p] = "backfill", Put(p, "mark")
        PROVE  UNCHANGED Knowledge
    <3>1. Node /\ Node'
      BY <2>8 DEF KnownInv, Node, Put
    <3> QED
      BY <3>1 DEF Knowledge
  <2>9. CASE Backfill(p)
    <3>1. VerdictAt(pc[p]) = VerdictAt("skipped")
      BY <2>9 DEF Backfill, VerdictAt, Working
    <3> QED
      BY <2>4, <2>8, <2>9, <3>1 DEF Backfill
  <2>10. CASE AgentWrites(p)
    BY <2>2, <2>10 DEF AgentWrites, VerdictAt, Working, Writes, GraphWrites
  <2>11. CASE Record(p) \/ Join(p)
    <3>1. /\ pc[p] \in Working
          /\ \A x \in Working : VerdictAt(x) = "work"
      BY <2>11 DEF Record, Join, VerdictAt, Working
    <3>2. VerdictAt(pc[p]) = "work" /\ VerdictAt("recording") = "work"
          /\ VerdictAt("recorded") = "work"
      BY <3>1 DEF Working
    <3> QED
      BY <1>2, <2>4, <2>11, <3>2 DEF Record, Join
  <2>12. CASE End(p) \/ Die(p)
    BY <1>2, <2>3, <2>12 DEF End, Die, Over
  <2>13. CASE Raise(p)
    <3>1. UNCHANGED Knowledge
      BY <1>2, <2>8, <2>13 DEF Raise
    <3> QED
      BY <2>3, <2>13, <3>1 DEF Raise, Over
  <2>14. ASSUME NEW s \in Stores, Write(p, s) \/ WriteFails(p, s)
         PROVE  [Dedup!Next]_<<Knowledge, Verdicts>>
    <3>1. UNCHANGED pc /\ VerdictAt(pc[p]) = "work"
          /\ todo[p][s] # <<>> /\ todo[p][s] \in Rests[s]
      BY <2>14 DEF Write, WriteFails, VerdictAt, Working
    <3>2. Head(todo[p][s]) \in Writes
      BY <3>1, NextWrite
    <3>3. Put(p, Head(todo[p][s])) \/ UNCHANGED stored
      BY <2>14 DEF Write, WriteFails
    <3> QED
      BY <1>1, <1>2, <1>3, <2>2, <3>1, <3>2, <3>3
  <2> QED
    BY <1>4, <2>5, <2>6, <2>7, <2>9, <2>10, <2>11, <2>12, <2>13, <2>14 DEF Step
<1>5. CASE Flush
  <2>1. Node' <=> Node
    <3>1. \A w \in GraphWrites : w \notin RedisWrites
      BY DEF GraphWrites, RedisWrites
    <3> QED
      BY <1>5, <3>1 DEF Flush, Node
  <2>2. \A t \in Tenants : ~Marked(t)'
    BY <1>5 DEF Flush, Marked, RedisWrites
  <2>3. UNCHANGED Verdicts
    BY <1>3, <1>5 DEF Flush
  <2>4. UNCHANGED Knowledge \/ Dedup!Forget
    BY <2>1, <2>2, <2>3 DEF Knowledge, Dedup!Forget, Verdicts
  <2> QED
    BY <1>1, <2>3, <2>4
<1>6. CASE UNCHANGED vars
  BY <1>1, <1>2, <1>3, <1>6 DEF vars
<1> QED
  BY <1>4, <1>5, <1>6 DEF Next

\* The several-step checks of concurrent passes behave as atomic decisions.
THEOREM Linearises == Spec => DecisionsLinearise
<1>1. Init => KnownInv
  BY DEF Init, KnownInv
<1>2. Spec => []TypeInv
  BY TypeInit, TypeNext, PTL DEF Spec
<1>3. Spec => []KnownInv
  BY <1>1, <1>2, KnownStep, PTL DEF Spec
<1> QED
  BY <1>2, <1>3, DedupInit, DedupNext, PTL
     DEF Spec, DecisionsLinearise, Dedup!Spec, Verdicts
=============================================================================
