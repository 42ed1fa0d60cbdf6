--------------------------- MODULE AlertIndexProofs ---------------------------
(* Proofs about AlertIndex, for any number of alerts, workers and writers and *)
(* any bounds: of the types, and while the broker takes messages, of the      *)
(* content of the index, of its order and of what it lacks.                   *)
EXTENDS AlertIndex, FiniteSetTheorems, TLAPS

\* What is sent, what is queued, and what may be done: a document is written
\* only with a content that was committed.
Sends     == {op \in Op : op.task = "send"}
Messages  == {op \in Op : op.task \in Tasks}
Work(c)   == {op \in Op : op.task \in {"put", "bulk"} => op.ver \in c[op.id]}

IndexInv ==
    /\ ShapeOK
    /\ \A a \in Alerts : lock[a] \in Requests \cup {Nobody}
    /\ \A a \in Alerts : row[a] # 0 => row[a] \in committed[a]
    /\ \A p \in Requests : todo[p] \in Seq(Sends)
    /\ \A p \in Procs : todo[p] \in Seq(Work(committed))
    /\ queue \in Seq(Messages)
    /\ DocsCommitted

LEMMA SeqMonotone ==
    ASSUME NEW S, NEW T, S \subseteq T
    PROVE  Seq(S) \subseteq Seq(T)
  OBVIOUS

\* The operations that the actions make are of the right kind.
LEMMA OpTypes ==
    ASSUME NEW a \in Alerts, NEW task \in Tasks, NEW c
    PROVE  /\ Do(task, a) \in Op /\ Do(task, a) \in Messages /\ Do(task, a) \in Work(c)
           /\ Do("saveIocs", a) \in Op /\ Do("saveIocs", a) \in Work(c)
           /\ Send(task, a) \in Sends /\ Send(task, a) \in Work(c)
  BY DEF Do, Send, Op, Tasks, Pending, Messages, Work, Sends

LEMMA WriteType ==
    ASSUME NEW a \in Alerts, NEW how \in {"put", "bulk"}, NEW v \in Nat,
           NEW c, v \in c[a]
    PROVE  Write(how, a, v) \in Work(c)
  BY DEF Write, Op, Tasks, Pending, Work

LEMMA SubsetTypes == Sends \subseteq Op /\ Messages \subseteq Op /\ \A c : Work(c) \subseteq Op
  BY DEF Sends, Messages, Work

\* A history of commits that grows keeps the work in its kind.
LEMMA WorkGrows ==
    ASSUME NEW c, NEW d, \A a \in Alerts : c[a] \subseteq d[a]
    PROVE  Work(c) \subseteq Work(d)
  BY DEF Work, Op

\* The head of what a process has to do, and the rest of it.
LEMMA HeadTail ==
    ASSUME NEW S, NEW s \in Seq(S), s # << >>
    PROVE  Head(s) \in S /\ Tail(s) \in Seq(S)
  OBVIOUS

Spendings == [outages: Nat, crashes: Nat, rebuilds: Nat, undone: Nat]

LEMMA SpentType ==
    ASSUME NEW s \in Spendings
    PROVE  /\ [s EXCEPT !.outages = s.outages + 1] \in Spendings
           /\ [s EXCEPT !.crashes = s.crashes + 1] \in Spendings
           /\ [s EXCEPT !.rebuilds = s.rebuilds + 1] \in Spendings
           /\ [s EXCEPT !.undone = s.undone + 1] \in Spendings
  <1>1. /\ s.outages + 1 \in Nat /\ s.crashes + 1 \in Nat /\ s.rebuilds + 1 \in Nat
        /\ s.undone + 1 \in Nat
        /\ s = [outages |-> s.outages, crashes |-> s.crashes, rebuilds |-> s.rebuilds,
                undone |-> s.undone]
    BY DEF Spendings
  <1>2. [s EXCEPT !.outages = s.outages + 1] \in Spendings
    BY <1>1 DEF Spendings
  <1>3. [s EXCEPT !.crashes = s.crashes + 1] \in Spendings
    BY <1>1 DEF Spendings
  <1>4. [s EXCEPT !.rebuilds = s.rebuilds + 1] \in Spendings
    BY <1>1 DEF Spendings
  <1>5. [s EXCEPT !.undone = s.undone + 1] \in Spendings
    BY <1>1 DEF Spendings
  <1> QED BY <1>2, <1>3, <1>4, <1>5

LEMMA IndexInit == Init => IndexInv
  <1> SUFFICES ASSUME Init PROVE IndexInv
    OBVIOUS
  <1>1. ShapeOK
    BY DEF Init, ShapeOK
  <1> QED BY <1>1 DEF Init, IndexInv, DocsCommitted, Procs

\* What is left to check when a step of one process leaves the database alone.
LEMMA TaskStep ==
    ASSUME IndexInv, NEW p \in Procs, UNCHANGED rows,
           todo[p] # << >>,
           NEW ops \in Seq(Work(committed)),
           p \in Requests => ops \in Seq(Sends),
           \/ Then(p, ops)
           \/ todo' = [todo EXCEPT ![p] = << >>],
           queue' \in Seq(Messages),
           doc' \in [Alerts -> Nat],
           \A a \in Alerts : doc'[a] # 0 => doc'[a] \in committed[a],
           up' \in BOOLEAN,
           spent' \in [outages: Nat, crashes: Nat, rebuilds: Nat, undone: Nat],
           missed' \subseteq Alerts, overtaken' \in [Procs -> SUBSET Alerts]
    PROVE  IndexInv'
  <1> DEFINE new == todo'[p]
  <1>1. \A q \in Procs : q # p => todo'[q] = todo[q]
    BY DEF Then, IndexInv, ShapeOK
  <1>7. new = ops \o Tail(todo[p]) \/ new = << >>
    BY DEF Then, IndexInv, ShapeOK
  <1>8. << >> \in Seq(Work(committed)) /\ << >> \in Seq(Sends)
    OBVIOUS
  <1>2. new \in Seq(Work(committed)) /\ todo' \in [Procs -> Seq(Op)]
    <2>1. todo[p] \in Seq(Work(committed)) /\ todo \in [Procs -> Seq(Op)]
      BY DEF IndexInv, ShapeOK
    <2>2. Tail(todo[p]) \in Seq(Work(committed))
      BY <2>1, HeadTail
    <2>3. ops \o Tail(todo[p]) \in Seq(Work(committed))
      BY <2>2
    <2>4. new \in Seq(Work(committed))
      BY <2>3, <1>7, <1>8
    <2>5. new \in Seq(Op)
      BY <2>4, SubsetTypes, SeqMonotone
    <2> QED BY <2>1, <2>4, <2>5 DEF Then
  <1>3. p \in Requests => new \in Seq(Sends)
    <2> HAVE p \in Requests
    <2>1. todo[p] \in Seq(Sends) /\ todo \in [Procs -> Seq(Op)]
      BY DEF IndexInv, ShapeOK
    <2>2. Tail(todo[p]) \in Seq(Sends)
      BY <2>1, HeadTail
    <2>3. ops \o Tail(todo[p]) \in Seq(Sends)
      BY <2>2
    <2> QED BY <2>3, <1>7, <1>8
  <1>4. queue' \in Seq(Op)
    BY SubsetTypes, SeqMonotone
  <1>5. ShapeOK'
    BY <1>2, <1>4 DEF ShapeOK, IndexInv, rows
  <1>6. \A q \in Requests : q \in Procs
    BY DEF Procs
  <1> QED BY <1>1, <1>2, <1>3, <1>5, <1>6 DEF IndexInv, DocsCommitted, rows

\* Only workers run tasks: what a request has to do is to send them.
LEMMA WorkersRun ==
    ASSUME IndexInv, NEW p \in Procs, NEW task \in Tasks \cup Pending,
           Next1(p, task)
    PROVE  /\ todo[p] # << >> /\ Head(todo[p]) \in Work(committed)
           /\ Head(todo[p]).id \in Alerts /\ Head(todo[p]).ver \in Nat
           /\ Head(todo[p]).what \in Tasks /\ Head(todo[p]).task = task
           /\ task # "send" => p \notin Requests /\ lock[Head(todo[p]).id] # p
  <1>1. todo[p] # << >> /\ Head(todo[p]).task = task
    BY DEF Next1
  <1>2. Head(todo[p]) \in Work(committed)
    BY <1>1, HeadTail DEF IndexInv
  <1>3. p \in Requests => Head(todo[p]) \in Sends
    BY <1>1, HeadTail DEF IndexInv
  <1>4. Head(todo[p]) \in Op
    BY <1>2, SubsetTypes
  <1>5. task # "send" => p \notin Requests
    BY <1>1, <1>3 DEF Sends
  <1>6. p # Nobody
    BY ProcsAssumption DEF Procs
  <1> QED BY <1>1, <1>2, <1>4, <1>5, <1>6 DEF Op, IndexInv

\* What a write of a document says of who was overtaken, and of what is missed.
LEMMA PutHistory ==
    ASSUME ShapeOK, NEW p \in Procs, NEW a \in Alerts, NEW v, PutTo(p, a, v)
    PROVE  /\ missed' \subseteq Alerts /\ overtaken' \in [Procs -> SUBSET Alerts]
           /\ overtaken'[p] = overtaken[p] \ {a}
           /\ \A q \in Procs \ {p} : /\ overtaken[q] \subseteq overtaken'[q]
                                     /\ Holds(q, a) => a \in overtaken'[q]
  <1>1. overtaken' = [q \in Procs |-> IF q = p THEN overtaken[p] \ {a}
                                     ELSE IF Holds(q, a) THEN overtaken[q] \cup {a}
                                     ELSE overtaken[q]]
    BY DEF PutTo
  <1>2. overtaken \in [Procs -> SUBSET Alerts] /\ missed \subseteq Alerts
    BY DEF ShapeOK
  <1>3. missed' \subseteq Alerts
    BY <1>2 DEF PutTo
  <1>4. \A q \in Procs : overtaken'[q] \in SUBSET Alerts
    BY <1>1, <1>2
  <1> QED BY <1>1, <1>2, <1>3, <1>4

LEMMA PutStep ==
    ASSUME IndexInv, NEW p \in Procs,
           Next1(p, "put") \/ Next1(p, "bulk"),
           PutTo(p, Head(todo[p]).id, Head(todo[p]).ver),
           UNCHANGED <<rows, queue, up, spent>>
    PROVE  IndexInv'
  <1> DEFINE op == Head(todo[p])
  <1>1. op.id \in Alerts /\ op.ver \in committed[op.id] /\ op.ver \in Nat /\ todo[p] # << >>
    <2>1. op \in Work(committed) /\ op.task \in {"put", "bulk"} /\ op.id \in Alerts
          /\ op.ver \in Nat /\ todo[p] # << >>
      BY WorkersRun DEF Pending, Tasks
    <2> QED BY <2>1 DEF Work
  <1>2. doc' = [doc EXCEPT ![op.id] = op.ver] /\ Then(p, << >>)
    BY DEF PutTo
  <1>3. missed' \subseteq Alerts /\ overtaken' \in [Procs -> SUBSET Alerts]
    BY <1>1, PutHistory DEF IndexInv
  <1>4. << >> \in Seq(Work(committed)) /\ << >> \in Seq(Sends)
    OBVIOUS
  <1>5. doc' \in [Alerts -> Nat] /\ \A a \in Alerts : doc'[a] # 0 => doc'[a] \in committed[a]
    BY <1>1, <1>2 DEF IndexInv, ShapeOK, DocsCommitted
  <1>6. queue' \in Seq(Messages) /\ up' \in BOOLEAN
        /\ spent' \in [outages: Nat, crashes: Nat, rebuilds: Nat, undone: Nat]
    BY DEF IndexInv, ShapeOK
  <1> QED BY <1>1, <1>2, <1>3, <1>4, <1>5, <1>6, TaskStep

\* A transaction opens with the request's signals, and the database stays.
LEMMA OpenTransaction ==
    ASSUME IndexInv, NEW p \in Requests, NEW a \in Alerts,
           NEW ops \in Seq(Sends), ops \in Seq(Work(committed)),
           NEW v \in Nat,
           last' \in [Alerts -> Nat],
           lock' = [lock EXCEPT ![a] = p],
           tx' = [tx EXCEPT ![a] = v],
           todo' = [todo EXCEPT ![p] = ops],
           UNCHANGED <<row, committed, queue, doc, up, history>>
    PROVE  IndexInv'
  <1>1. ops \in Seq(Op)
    BY SubsetTypes, SeqMonotone
  <1>2. p \in Procs
    BY DEF Procs
  <1>3. ShapeOK'
    BY <1>1, <1>2 DEF IndexInv, ShapeOK, history
  <1>4. \A b \in Alerts : lock'[b] \in Requests \cup {Nobody}
    BY DEF IndexInv, ShapeOK
  <1>5. \A q \in Requests : todo'[q] \in Seq(Sends)
    BY <1>2 DEF IndexInv, ShapeOK
  <1>6. \A q \in Procs : todo'[q] \in Seq(Work(committed'))
    BY <1>2 DEF IndexInv, ShapeOK
  <1> QED BY <1>3, <1>4, <1>5, <1>6 DEF IndexInv, DocsCommitted

\* Work and documents stay good when the history of commits grows.
LEMMA Growth ==
    ASSUME IndexInv, \A a \in Alerts : committed[a] \subseteq committed'[a],
           UNCHANGED doc
    PROVE  /\ \A p \in Procs : todo[p] \in Seq(Work(committed'))
           /\ DocsCommitted'
  <1>1. Work(committed) \subseteq Work(committed')
    BY WorkGrows
  <1>2. Seq(Work(committed)) \subseteq Seq(Work(committed'))
    BY <1>1, SeqMonotone
  <1> QED BY <1>2 DEF IndexInv, DocsCommitted

LEMMA SignalTypes ==
    ASSUME NEW a \in Alerts, NEW c
    PROVE  /\ SaveSignal(a) \in Seq(Sends) /\ SaveSignal(a) \in Seq(Work(c))
           /\ IocSignal(a) \in Seq(Work(c))
           /\ <<Send("delete", a)>> \in Seq(Sends)
           /\ <<Send("delete", a)>> \in Seq(Work(c))
  <1>1. \A task \in Tasks : Send(task, a) \in Sends /\ Send(task, a) \in Work(c)
    BY OpTypes
  <1> QED BY <1>1 DEF SaveSignal, IocSignal, Tasks

\* Every step keeps the invariant when no task runs inside its sender.
LEMMA IndexStep ==
    ASSUME ~refused', IndexInv, [Next]_vars
    PROVE  IndexInv'
  <1> USE DEF Procs
  <1>e. \A c : << >> \in Seq(Work(c)) /\ << >> \in Seq(Sends)
    OBVIOUS
  <1>1. ASSUME NEW p \in Requests, NEW a \in Alerts, Save(p, a) PROVE IndexInv'
    <2>1. last' = [last EXCEPT ![a] = last[a] + 1] /\ last'[a] = last[a] + 1 /\ last[a] \in Nat
      BY <1>1 DEF Save, IndexInv, ShapeOK
    <2>2. /\ row' = [row EXCEPT ![a] = last[a] + 1]
          /\ committed' = [committed EXCEPT ![a] = committed[a] \cup {last[a] + 1}]
      BY <1>1, <2>1 DEF Save
    <2>3. \A b \in Alerts : committed[b] \subseteq committed'[b]
      BY <2>2 DEF IndexInv, ShapeOK
    <2>4. SaveSignal(a) \in Seq(Sends) /\ SaveSignal(a) \in Seq(Work(committed'))
      BY SignalTypes
    <2>5. todo' = [todo EXCEPT ![p] = SaveSignal(a)] /\ SaveSignal(a) \in Seq(Op)
      BY <1>1, <2>4, SubsetTypes, SeqMonotone DEF Save
    <2>6. \A q \in Procs : todo'[q] \in Seq(Work(committed'))
      BY <1>1, <2>3, <2>4, <2>5, Growth DEF Save, IndexInv, ShapeOK
    <2>7. \A q \in Requests : todo'[q] \in Seq(Sends)
      BY <2>4, <2>5 DEF IndexInv, ShapeOK
    <2>8. DocsCommitted'
      BY <1>1, <2>3, Growth DEF Save
    <2>9. ShapeOK'
      BY <1>1, <2>1, <2>2, <2>5 DEF Save, IndexInv, ShapeOK, history
    <2>10. \A b \in Alerts : row'[b] # 0 => row'[b] \in committed'[b]
      BY <2>2 DEF IndexInv, ShapeOK
    <2>11. UNCHANGED <<lock, queue>>
      BY <1>1 DEF Save
    <2> QED BY <2>6, <2>7, <2>8, <2>9, <2>10, <2>11 DEF IndexInv
  <1>2. ASSUME NEW p \in Requests, NEW a \in Alerts, SaveInTransaction(p, a)
        PROVE IndexInv'
    <2>1. last' = [last EXCEPT ![a] = last[a] + 1] /\ last'[a] = last[a] + 1 /\ last[a] \in Nat
      BY <1>2 DEF SaveInTransaction, IndexInv, ShapeOK
    <2>2. last' \in [Alerts -> Nat] /\ tx' = [tx EXCEPT ![a] = last[a] + 1]
          /\ last[a] + 1 \in Nat
      BY <1>2, <2>1 DEF SaveInTransaction, IndexInv, ShapeOK
    <2> QED BY <1>2, <2>2, SignalTypes, OpenTransaction DEF SaveInTransaction
  <1>3. ASSUME NEW p \in Requests, NEW a \in Alerts, DeleteInTransaction(p, a)
        PROVE IndexInv'
    <2>1. last' \in [Alerts -> Nat]
      BY <1>3 DEF DeleteInTransaction, IndexInv, ShapeOK
    <2>2. 0 \in Nat /\ UNCHANGED <<row, committed, queue, doc, up, history>>
      BY <1>3 DEF DeleteInTransaction
    <2> QED BY <1>3, <2>1, <2>2, SignalTypes, OpenTransaction DEF DeleteInTransaction
  <1>4. ASSUME NEW p \in Procs, NEW a \in Alerts, Commit(p, a) PROVE IndexInv'
    <2>1. /\ row' = [row EXCEPT ![a] = tx[a]]
          /\ committed' = [committed EXCEPT ![a] = IF tx[a] = 0 THEN committed[a]
                                                   ELSE committed[a] \cup {tx[a]}]
          /\ UNCHANGED <<last, queue, todo, doc, up, history>>
      BY <1>4 DEF Commit
    <2>2. \A b \in Alerts : committed[b] \subseteq committed'[b]
      BY <2>1 DEF IndexInv, ShapeOK
    <2>3. ShapeOK'
      BY <1>4, <2>1 DEF Commit, IndexInv, ShapeOK, history
    <2>4. \A b \in Alerts : row'[b] # 0 => row'[b] \in committed'[b]
      BY <2>1 DEF IndexInv, ShapeOK
    <2>5. /\ \A q \in Procs : todo'[q] \in Seq(Work(committed'))
          /\ DocsCommitted'
      BY <2>1, <2>2, Growth
    <2>6. \A b \in Alerts : lock'[b] \in Requests \cup {Nobody}
      BY <1>4 DEF Commit, IndexInv, ShapeOK
    <2> QED BY <2>1, <2>3, <2>4, <2>5, <2>6 DEF IndexInv
  <1>5. ASSUME NEW p \in Procs, NEW a \in Alerts, Rollback(p, a) PROVE IndexInv'
    <2>1. spent' \in [outages: Nat, crashes: Nat, rebuilds: Nat, undone: Nat]
      BY <1>5, SpentType DEF Rollback, IndexInv, ShapeOK, Spendings
    <2>2. missed' \subseteq Alerts
      BY <1>5 DEF Rollback, Miss, IndexInv, ShapeOK
    <2> QED BY <1>5, <2>1, <2>2 DEF Rollback, IndexInv, ShapeOK, DocsCommitted
  <1>6. ASSUME NEW p \in Procs, SendTask(p) PROVE IndexInv'
    <2>1. Head(todo[p]).what \in Tasks /\ Head(todo[p]).id \in Alerts /\ todo[p] # << >>
      BY <1>6, WorkersRun DEF SendTask, Pending
    <2>2. Do(Head(todo[p]).what, Head(todo[p]).id) \in Messages
      BY <2>1, OpTypes
    <2>3. queue' \in Seq(Messages)
      BY <1>6, <2>2 DEF SendTask, IndexInv
    <2>4. /\ Then(p, << >>) /\ UNCHANGED <<rows, doc, up, history>>
      BY <1>6 DEF SendTask
    <2> QED BY <1>e, <2>1, <2>3, <2>4, TaskStep
            DEF IndexInv, ShapeOK, DocsCommitted, history
  <1>7. ASSUME NEW w \in Workers, Take(w) PROVE IndexInv'
    <2>1. Head(queue) \in Messages /\ Tail(queue) \in Seq(Messages)
      BY <1>7, HeadTail DEF Take, IndexInv
    <2>2. <<Head(queue)>> \in Seq(Work(committed)) /\ <<Head(queue)>> \in Seq(Op)
          /\ Tail(queue) \in Seq(Op)
      BY <2>1, SubsetTypes, SeqMonotone DEF Messages, Work, Tasks
    <2>3. w \notin Requests
      BY ProcsAssumption
    <2>4. ShapeOK'
      BY <1>7, <2>2 DEF Take, IndexInv, ShapeOK, rows, history
    <2> QED BY <1>7, <2>1, <2>2, <2>3, <2>4
            DEF Take, IndexInv, ShapeOK, DocsCommitted, rows
  <1>8. CASE SendRebuild
    <2>1. PICK a \in Alerts : queue' = Append(queue, Do("rebuild", a))
      BY <1>8 DEF SendRebuild
    <2>2. queue' \in Seq(Messages)
      BY <2>1, OpTypes DEF IndexInv, Tasks
    <2>3. queue' \in Seq(Op)
      BY <2>2, SubsetTypes, SeqMonotone
    <2>4. spent' \in [outages: Nat, crashes: Nat, rebuilds: Nat, undone: Nat]
      BY <1>8, SpentType DEF SendRebuild, IndexInv, ShapeOK, Spendings
    <2> QED BY <1>8, <2>2, <2>3, <2>4
            DEF SendRebuild, IndexInv, ShapeOK, DocsCommitted, rows
  <1>9. ASSUME NEW p \in Procs, Sync(p) PROVE IndexInv'
    <2> DEFINE a == Head(todo[p]).id
    <2>1. a \in Alerts /\ todo[p] # << >> /\ p \notin Requests /\ Seen(p, a) = row[a]
      BY <1>9, WorkersRun DEF Sync, Tasks, Seen
    <2>2. row[a] # 0 => <<Write("put", a, row[a])>> \in Seq(Work(committed))
      BY <2>1, WriteType DEF IndexInv, ShapeOK
    <2>3. \E ops \in Seq(Work(committed)) : Then(p, ops)
      BY <1>9, <1>e, <2>1, <2>2 DEF Sync
    <2>4. PICK ops \in Seq(Work(committed)) : Then(p, ops)
      BY <2>3
    <2>5. missed' \subseteq Alerts
      BY <1>9, <2>1 DEF Sync, Miss, IndexInv, ShapeOK
    <2>6. UNCHANGED <<rows, queue, doc, up, spent, overtaken>>
      BY <1>9 DEF Sync
    <2> QED BY <2>1, <2>4, <2>5, <2>6, TaskStep DEF IndexInv, ShapeOK, DocsCommitted
  <1>10. ASSUME NEW p \in Procs, Put(p) PROVE IndexInv'
    <2>1. CASE PutTo(p, Head(todo[p]).id, Head(todo[p]).ver)
      BY <1>10, <2>1, PutStep DEF Put
    <2>2. CASE /\ ~up /\ Then(p, << >>) /\ Miss({Head(todo[p]).id}) /\ UNCHANGED doc
               /\ overtaken' = [overtaken EXCEPT ![p] = {}]
      <3>1. Head(todo[p]).id \in Alerts /\ todo[p] # << >>
        BY <1>10, WorkersRun DEF Put, Pending
      <3>2. missed' \subseteq Alerts /\ UNCHANGED <<rows, queue, doc, up, spent>>
        BY <1>10, <2>2, <3>1 DEF Put, Miss, IndexInv, ShapeOK
      <3>3. overtaken' \in [Procs -> SUBSET Alerts]
        BY <2>2 DEF IndexInv, ShapeOK
      <3> QED BY <1>e, <2>2, <3>1, <3>2, <3>3, TaskStep DEF IndexInv, ShapeOK, DocsCommitted
    <2> QED BY <1>10, <2>1, <2>2 DEF Put
  <1>11. ASSUME NEW p \in Procs, Delete(p) PROVE IndexInv'
    <2> DEFINE a == Head(todo[p]).id
    <2>1. a \in Alerts /\ todo[p] # << >>
      BY <1>11, WorkersRun DEF Delete, Tasks
    <2>2. doc' = IF up THEN [doc EXCEPT ![a] = 0] ELSE doc
      BY <1>11 DEF Delete
    <2>3. doc' \in [Alerts -> Nat] /\ \A b \in Alerts : doc'[b] # 0 => doc'[b] \in committed[b]
      BY <2>1, <2>2 DEF IndexInv, ShapeOK, DocsCommitted
    <2>4. missed' \subseteq Alerts /\ Then(p, << >>)
          /\ UNCHANGED <<rows, queue, up, spent, overtaken>>
      BY <1>11, <2>1 DEF Delete, Miss, IndexInv, ShapeOK
    <2> QED BY <1>e, <2>1, <2>3, <2>4, TaskStep DEF IndexInv, ShapeOK
  <1>12. ASSUME NEW p \in Procs, ReadIocs(p) PROVE IndexInv'
    <2> DEFINE a == Head(todo[p]).id
    <2>1. a \in Alerts /\ todo[p] # << >> /\ p \notin Requests
      BY <1>12, WorkersRun DEF ReadIocs, Tasks
    <2>2. Do("saveIocs", a) \in Work(committed)
      BY <2>1, OpTypes DEF Tasks
    <2>3. <<Do("saveIocs", a)>> \in Seq(Work(committed))
      BY <2>2
    <2>4. PICK ops \in Seq(Work(committed)) : Then(p, ops)
      BY <1>12, <1>e, <2>3 DEF ReadIocs
    <2>5. UNCHANGED <<rows, queue, doc, up, history>>
      BY <1>12 DEF ReadIocs
    <2> QED BY <2>1, <2>4, <2>5, TaskStep DEF IndexInv, ShapeOK, DocsCommitted, history
  <1>13. ASSUME NEW p \in Procs, SaveIocs(p) PROVE IndexInv'
    <2> DEFINE a == Head(todo[p]).id
    <2>1. a \in Alerts /\ todo[p] # << >> /\ p \notin Requests
      BY <1>13, WorkersRun DEF SaveIocs, Pending
    <2>2. IocSignal(a) \in Seq(Work(committed))
      BY <2>1, SignalTypes
    <2>3. Then(p, IocSignal(a)) \/ todo' = [todo EXCEPT ![p] = << >>]
      BY <1>13 DEF SaveIocs
    <2>4. UNCHANGED <<rows, queue, doc, up, history>>
      BY <1>13 DEF SaveIocs
    <2> QED BY <2>1, <2>2, <2>3, <2>4, TaskStep DEF IndexInv, ShapeOK, DocsCommitted, history
  <1>14. ASSUME NEW p \in Procs, Rebuild(p) PROVE IndexInv'
    <2> DEFINE live == {a \in Alerts : row[a] # 0}
    <2>1. todo[p] # << >> /\ p \notin Requests
      BY <1>14, WorkersRun DEF Rebuild, Tasks
    <2>2. Cardinality(live) \in Nat
      BY AlertsAssumption, FS_Subset, FS_CardinalityType
    <2>3. ASSUME NEW s \in Orders(live)
          PROVE [i \in DOMAIN s |-> Write("bulk", s[i], row[s[i]])] \in Seq(Work(committed))
      <3>1. s \in [1 .. Cardinality(live) -> live]
        BY <2>3 DEF Orders
      <3>2. \A i \in DOMAIN s : Write("bulk", s[i], row[s[i]]) \in Work(committed)
        BY <3>1, WriteType DEF IndexInv, ShapeOK
      <3> QED BY <2>2, <3>1, <3>2
    <2>4. PICK ops \in Seq(Work(committed)) : Then(p, ops)
      BY <1>14, <1>e, <2>3 DEF Rebuild
    <2>5. UNCHANGED <<rows, queue, doc, up, history>>
      BY <1>14 DEF Rebuild
    <2> QED BY <2>1, <2>4, <2>5, TaskStep DEF IndexInv, ShapeOK, DocsCommitted, history
  <1>15. ASSUME NEW p \in Procs, BulkPut(p) PROVE IndexInv'
    <2>1. CASE PutTo(p, Head(todo[p]).id, Head(todo[p]).ver)
      BY <1>15, <2>1, PutStep DEF BulkPut
    <2>2. CASE /\ ~up /\ todo' = [todo EXCEPT ![p] = << >>] /\ UNCHANGED <<doc, missed>>
               /\ overtaken' = [overtaken EXCEPT ![p] = {}]
      <3>1. todo[p] # << >>
        BY <1>15 DEF BulkPut, Next1
      <3>2. UNCHANGED <<rows, queue, doc, up, spent, missed>>
        BY <1>15, <2>2 DEF BulkPut
      <3>3. overtaken' \in [Procs -> SUBSET Alerts]
        BY <2>2 DEF IndexInv, ShapeOK
      <3> QED BY <1>e, <2>2, <3>1, <3>2, <3>3, TaskStep DEF IndexInv, ShapeOK, DocsCommitted
    <2> QED BY <1>15, <2>1, <2>2 DEF BulkPut
  <1>16. ASSUME NEW p \in Procs, Crash(p) PROVE IndexInv'
    <2>1. lock' \in [Alerts -> Procs \cup {Nobody}] /\ tx' \in [Alerts -> Nat]
          /\ \A a \in Alerts : lock'[a] \in Requests \cup {Nobody}
      BY <1>16 DEF Crash, IndexInv, ShapeOK
    <2>2. todo[p] \in Seq(Op)
      BY DEF IndexInv, ShapeOK
    <2>3. \A i \in DOMAIN todo[p] : todo[p][i] \in Op
      BY <2>2
    <2>4. missed' \subseteq Alerts
      BY <1>16, <2>3 DEF Crash, Miss, IndexInv, ShapeOK, Op
    <2>5. spent' \in [outages: Nat, crashes: Nat, rebuilds: Nat, undone: Nat]
      BY <1>16, SpentType DEF Crash, IndexInv, ShapeOK, Spendings
    <2>6. ShapeOK'
      BY <1>16, <1>e, <2>1, <2>4, <2>5 DEF Crash, IndexInv, ShapeOK
    <2> QED BY <1>16, <1>e, <2>1, <2>6 DEF Crash, IndexInv, ShapeOK, DocsCommitted
  <1>17. CASE IndexFails \/ IndexRecovers
    <2>1. spent' \in [outages: Nat, crashes: Nat, rebuilds: Nat, undone: Nat] /\ up' \in BOOLEAN
          /\ UNCHANGED <<rows, queue, todo, doc, missed, overtaken>>
      BY <1>17, SpentType DEF IndexFails, IndexRecovers, IndexInv, ShapeOK, history, Spendings
    <2> QED BY <2>1 DEF IndexInv, ShapeOK, DocsCommitted, rows
  <1>18. CASE UNCHANGED vars
    BY <1>18 DEF vars, rows, history, IndexInv, ShapeOK, DocsCommitted
  <1>19. ASSUME NEW p \in Procs, RunInline(p) PROVE FALSE
    BY <1>19 DEF RunInline
  <1> QED BY <1>1, <1>2, <1>3, <1>4, <1>5, <1>6, <1>7, <1>8, <1>9, <1>10, <1>11, <1>12,
             <1>13, <1>14, <1>15, <1>16, <1>17, <1>18, <1>19
          DEF Next, Else, Works, Step

\* What holds until the broker refuses a message.
UntilRefused == ~refused => IndexInv

\* No step takes back that the broker has refused a message.
LEMMA RefusedStays == [Next]_vars /\ refused => refused'
  BY DEF Next, Works, RunInline, vars

\* As long as the broker takes messages, a search finds no content that was
\* not committed, however many workers overtake each other.
THEOREM OnlyCommitted == Spec => []OnlyCommittedShown
  <1>1. Init => UntilRefused
    BY IndexInit DEF UntilRefused
  <1>2. UntilRefused /\ [Next]_vars => UntilRefused'
    BY IndexStep, RefusedStays DEF UntilRefused
  <1>3. UntilRefused => OnlyCommittedShown
    BY DEF UntilRefused, IndexInv, OnlyCommittedShown
  <1> QED BY <1>1, <1>2, <1>3, PTL DEF Spec


-----------------------------------------------------------------------------
(* Shape of the state, whatever the broker does                              *)

\* What is left to check when a step of one process leaves the database alone.
LEMMA ShapeTask ==
    ASSUME ShapeOK, NEW p \in Procs, UNCHANGED rows, todo[p] # << >>,
           NEW ops \in Seq(Op),
           Then(p, ops) \/ todo' = [todo EXCEPT ![p] = << >>],
           queue' \in Seq(Op), doc' \in [Alerts -> Nat], up' \in BOOLEAN,
           spent' \in [outages: Nat, crashes: Nat, rebuilds: Nat, undone: Nat], missed' \subseteq Alerts,
           overtaken' \in [Procs -> SUBSET Alerts]
    PROVE  ShapeOK'
  <1>1. todo \in [Procs -> Seq(Op)] /\ Tail(todo[p]) \in Seq(Op)
    BY HeadTail DEF ShapeOK
  <1>2. ops \o Tail(todo[p]) \in Seq(Op) /\ << >> \in Seq(Op)
    BY <1>1
  <1>3. todo' \in [Procs -> Seq(Op)]
    BY <1>1, <1>2 DEF Then
  <1> QED BY <1>3 DEF ShapeOK, rows

\* What a process is about to do.
LEMMA ShapeHead ==
    ASSUME ShapeOK, NEW p \in Procs, NEW task, Next1(p, task)
    PROVE  /\ todo[p] # << >> /\ Head(todo[p]).id \in Alerts
           /\ Head(todo[p]).ver \in Nat /\ Head(todo[p]).what \in Tasks
  <1>1. todo[p] \in Seq(Op) /\ todo[p] # << >>
    BY DEF ShapeOK, Next1
  <1>2. Head(todo[p]) \in Op
    BY <1>1, HeadTail
  <1> QED BY <1>1, <1>2 DEF Op

LEMMA WriteOp ==
    ASSUME NEW a \in Alerts, NEW how \in {"put", "bulk"}, NEW v \in Nat
    PROVE  Write(how, a, v) \in Op
  BY DEF Write, Op, Tasks, Pending

LEMMA SignalOps ==
    ASSUME NEW a \in Alerts
    PROVE  /\ SaveSignal(a) \in Seq(Op) /\ IocSignal(a) \in Seq(Op)
           /\ <<Send("delete", a)>> \in Seq(Op)
  <1>1. \A task \in Tasks : Send(task, a) \in Op
    BY DEF Send, Op, Tasks, Pending
  <1> QED BY <1>1 DEF SaveSignal, IocSignal, Tasks

LEMMA ShapePut ==
    ASSUME ShapeOK, NEW p \in Procs, Put(p) \/ BulkPut(p)
    PROVE  ShapeOK'
  <1> DEFINE op == Head(todo[p])
  <1>1. op.id \in Alerts /\ op.ver \in Nat /\ todo[p] # << >>
    BY ShapeHead DEF Put, BulkPut
  <1>2. missed' \subseteq Alerts /\ overtaken' \in [Procs -> SUBSET Alerts]
    <2>1. CASE PutTo(p, op.id, op.ver)
      BY <1>1, <2>1, PutHistory
    <2>2. CASE ~PutTo(p, op.id, op.ver)
      BY <1>1, <2>2 DEF Put, BulkPut, Miss, ShapeOK
    <2> QED BY <2>1, <2>2
  <1>3. doc' = [doc EXCEPT ![op.id] = op.ver] \/ doc' = doc
    BY DEF Put, BulkPut, PutTo
  <1>4. doc' \in [Alerts -> Nat]
    BY <1>1, <1>3 DEF ShapeOK
  <1>5. UNCHANGED <<rows, queue, up, spent>> /\ << >> \in Seq(Op)
    BY DEF Put, BulkPut
  <1>6. Then(p, << >>) \/ todo' = [todo EXCEPT ![p] = << >>]
    BY DEF Put, BulkPut, PutTo
  <1> QED BY <1>1, <1>2, <1>4, <1>5, <1>6, ShapeTask DEF ShapeOK

LEMMA ShapeRebuild ==
    ASSUME ShapeOK, NEW p \in Procs, Rebuild(p)
    PROVE  ShapeOK'
  <1> DEFINE live == {a \in Alerts : row[a] # 0}
  <1>1. Cardinality(live) \in Nat /\ << >> \in Seq(Op)
    BY AlertsAssumption, FS_Subset, FS_CardinalityType
  <1>2. ASSUME NEW s \in Orders(live)
        PROVE  [i \in DOMAIN s |-> Write("bulk", s[i], row[s[i]])] \in Seq(Op)
    <2>1. s \in [1 .. Cardinality(live) -> live]
      BY DEF Orders
    <2>2. \A i \in DOMAIN s : Write("bulk", s[i], row[s[i]]) \in Op
      BY <2>1, WriteOp DEF ShapeOK
    <2> QED BY <1>1, <2>1, <2>2
  <1>3. PICK ops \in Seq(Op) : Then(p, ops)
    BY <1>1, <1>2 DEF Rebuild
  <1>4. todo[p] # << >> /\ UNCHANGED <<rows, queue, doc, up, history>>
    BY DEF Rebuild, Next1
  <1> QED BY <1>3, <1>4, ShapeTask DEF ShapeOK, history

LEMMA ShapeIndexTask ==
    ASSUME ShapeOK, NEW p \in Procs, Sync(p) \/ Delete(p)
    PROVE  ShapeOK'
  <1> DEFINE a == Head(todo[p]).id
  <1>1. a \in Alerts /\ todo[p] # << >>
    BY ShapeHead DEF Sync, Delete
  <1>2. Seen(p, a) \in Nat
    BY <1>1 DEF Seen, ShapeOK
  <1>3. <<Write("put", a, Seen(p, a))>> \in Seq(Op) /\ << >> \in Seq(Op)
    BY <1>1, <1>2, WriteOp
  <1>4. PICK ops \in Seq(Op) : Then(p, ops)
    BY <1>3 DEF Sync, Delete
  <1>5. missed' \subseteq Alerts
    BY <1>1 DEF Sync, Delete, Miss, ShapeOK
  <1>7. doc' = doc \/ doc' = [doc EXCEPT ![a] = 0]
    BY DEF Sync, Delete
  <1>9. doc \in [Alerts -> Nat] /\ 0 \in Nat
    BY DEF ShapeOK
  <1> HIDE DEF a
  <1>8. doc' \in [Alerts -> Nat]
    BY <1>1, <1>7, <1>9
  <1>6. UNCHANGED <<rows, queue, up, spent, overtaken>>
    BY DEF Sync, Delete
  <1> QED BY <1>1, <1>4, <1>5, <1>6, <1>8, ShapeTask DEF ShapeOK

LEMMA ShapeIocs ==
    ASSUME ShapeOK, NEW p \in Procs, ReadIocs(p) \/ SaveIocs(p)
    PROVE  ShapeOK'
  <1> DEFINE a == Head(todo[p]).id
  <1>1. a \in Alerts /\ todo[p] # << >>
    BY ShapeHead DEF ReadIocs, SaveIocs
  <1>0. Do("saveIocs", a) \in Op
    BY <1>1 DEF Do, Op, Tasks, Pending
  <1>2. <<Do("saveIocs", a)>> \in Seq(Op) /\ IocSignal(a) \in Seq(Op) /\ << >> \in Seq(Op)
    BY <1>0, <1>1, SignalOps
  <1>3. PICK ops \in Seq(Op) : Then(p, ops) \/ todo' = [todo EXCEPT ![p] = << >>]
    BY <1>2 DEF ReadIocs, SaveIocs
  <1>4. UNCHANGED <<rows, queue, doc, up, history>>
    BY DEF ReadIocs, SaveIocs
  <1> QED BY <1>1, <1>3, <1>4, ShapeTask DEF ShapeOK, history

LEMMA ShapeSend ==
    ASSUME ShapeOK, NEW p \in Procs, SendTask(p) \/ RunInline(p)
    PROVE  ShapeOK'
  <1> DEFINE op == Do(Head(todo[p]).what, Head(todo[p]).id)
  <1>1. op \in Op /\ todo[p] # << >>
    BY ShapeHead, OpTypes DEF SendTask, RunInline
  <1>2. <<op>> \in Seq(Op) /\ << >> \in Seq(Op) /\ Append(queue, op) \in Seq(Op)
    BY <1>1 DEF ShapeOK
  <1>3. PICK ops \in Seq(Op) : Then(p, ops)
    BY <1>2 DEF SendTask, RunInline
  <1>4. queue' \in Seq(Op) /\ UNCHANGED <<rows, doc, up, history>>
    BY <1>2 DEF SendTask, RunInline, ShapeOK
  <1> QED BY <1>1, <1>3, <1>4, ShapeTask DEF ShapeOK, history

LEMMA ShapeWrite ==
    ASSUME ShapeOK, NEW p \in Requests, NEW a \in Alerts,
           Save(p, a) \/ SaveInTransaction(p, a) \/ DeleteInTransaction(p, a)
    PROVE  ShapeOK'
  <1>1. last[a] \in Nat /\ last[a] + 1 \in Nat /\ p \in Procs
    BY DEF ShapeOK, Procs
  <1>2. PICK ops \in Seq(Op) : todo' = [todo EXCEPT ![p] = ops]
    BY SignalOps DEF Save, SaveInTransaction, DeleteInTransaction
  <1>3. /\ last' = last \/ (last' = [last EXCEPT ![a] = last[a] + 1] /\ last'[a] = last[a] + 1)
        /\ UNCHANGED <<queue, doc, up, history>>
    BY DEF Save, SaveInTransaction, DeleteInTransaction, ShapeOK
  <1>4. last' \in [Alerts -> Nat] /\ todo' \in [Procs -> Seq(Op)]
    BY <1>1, <1>2, <1>3 DEF ShapeOK
  <1>5. CASE Save(p, a)
    <2>1. /\ row' = [row EXCEPT ![a] = last'[a]] /\ last'[a] \in Nat
          /\ committed' = [committed EXCEPT ![a] = committed[a] \cup {last'[a]}]
          /\ UNCHANGED <<lock, tx>>
      BY <1>4, <1>5 DEF Save
    <2>2. row' \in [Alerts -> Nat] /\ committed' \in [Alerts -> SUBSET Nat]
      BY <2>1 DEF ShapeOK
    <2> QED BY <1>3, <1>4, <2>1, <2>2 DEF ShapeOK, history
  <1>6. CASE SaveInTransaction(p, a) \/ DeleteInTransaction(p, a)
    <2>1. UNCHANGED <<row, committed>> /\ lock' = [lock EXCEPT ![a] = p]
      BY <1>6 DEF SaveInTransaction, DeleteInTransaction
    <2>2. \E v \in Nat : tx' = [tx EXCEPT ![a] = v]
      BY <1>4, <1>6 DEF SaveInTransaction, DeleteInTransaction
    <2>3. lock' \in [Alerts -> Procs \cup {Nobody}] /\ tx' \in [Alerts -> Nat]
      BY <1>1, <2>1, <2>2 DEF ShapeOK
    <2> QED BY <1>3, <1>4, <2>1, <2>3 DEF ShapeOK, history
  <1> QED BY <1>5, <1>6

LEMMA ShapeClose ==
    ASSUME ShapeOK, NEW p \in Procs, NEW a \in Alerts, Commit(p, a) \/ Rollback(p, a)
    PROVE  ShapeOK'
  <1>1. UNCHANGED <<last, queue, todo, doc, up, overtaken>> /\ tx[a] \in Nat
    BY DEF Commit, Rollback, ShapeOK, history
  <1>9. /\ spent' \in [outages: Nat, crashes: Nat, rebuilds: Nat, undone: Nat]
        /\ missed' \subseteq Alerts
    BY SpentType DEF Commit, Rollback, ShapeOK, Spendings, Miss, history
  <1>2. lock' = [lock EXCEPT ![a] = Nobody] /\ tx' = [tx EXCEPT ![a] = 0]
    BY DEF Commit, Rollback
  <1>3. lock' \in [Alerts -> Procs \cup {Nobody}] /\ tx' \in [Alerts -> Nat]
    BY <1>2 DEF ShapeOK
  <1>4. row' = row \/ row' = [row EXCEPT ![a] = tx[a]]
    BY DEF Commit, Rollback
  <1>5. committed' = committed \/ committed' = [committed EXCEPT ![a] = committed[a] \cup {tx[a]}]
    BY DEF Commit, Rollback, ShapeOK
  <1>6. row' \in [Alerts -> Nat]
    BY <1>1, <1>4 DEF ShapeOK
  <1>7. committed \in [Alerts -> SUBSET Nat] /\ committed[a] \cup {tx[a]} \in SUBSET Nat
    BY <1>1 DEF ShapeOK
  <1>8. committed' \in [Alerts -> SUBSET Nat]
    BY <1>5, <1>7
  <1> QED BY <1>1, <1>3, <1>6, <1>8, <1>9 DEF ShapeOK

LEMMA ShapeFault ==
    ASSUME ShapeOK, (\E p \in Procs : Crash(p)) \/ SendRebuild \/ IndexFails \/ IndexRecovers
    PROVE  ShapeOK'
  <1>1. spent' \in [outages: Nat, crashes: Nat, rebuilds: Nat, undone: Nat]
    BY SpentType DEF Crash, SendRebuild, IndexFails, IndexRecovers, ShapeOK, Spendings, history
  <1>2. CASE \E p \in Procs : Crash(p)
    <2>1. PICK p \in Procs : Crash(p)
      BY <1>2
    <2>2. lock' \in [Alerts -> Procs \cup {Nobody}] /\ tx' \in [Alerts -> Nat]
      BY <2>1 DEF Crash, ShapeOK
    <2>3. todo[p] \in Seq(Op) /\ << >> \in Seq(Op)
      BY DEF ShapeOK
    <2>4. \A i \in DOMAIN todo[p] : todo[p][i] \in Op
      BY <2>3
    <2>5. missed' \subseteq Alerts
      BY <2>1, <2>4 DEF Crash, Miss, ShapeOK, Op
    <2> QED BY <1>1, <2>1, <2>2, <2>3, <2>5 DEF Crash, ShapeOK
  <1>3. CASE SendRebuild
    <2>2. PICK a \in Alerts : queue' = Append(queue, Do("rebuild", a))
      BY <1>3 DEF SendRebuild
    <2>3. Do("rebuild", a) \in Op
      BY DEF Do, Op, Tasks
    <2>1. queue' \in Seq(Op)
      BY <2>2, <2>3 DEF ShapeOK
    <2> QED BY <1>1, <1>3, <2>1 DEF SendRebuild, ShapeOK, rows
  <1>4. CASE IndexFails \/ IndexRecovers
    <2>1. up' \in BOOLEAN /\ UNCHANGED <<rows, queue, todo, doc, missed, overtaken>>
      BY <1>4 DEF IndexFails, IndexRecovers, history
    <2> QED BY <1>1, <2>1 DEF ShapeOK, rows
  <1> QED BY <1>2, <1>3, <1>4

LEMMA ShapeTake ==
    ASSUME ShapeOK, NEW w \in Workers, Take(w)
    PROVE  ShapeOK'
  <1>1. queue \in Seq(Op) /\ queue # << >>
    BY DEF ShapeOK, Take
  <1>2. Head(queue) \in Op /\ Tail(queue) \in Seq(Op)
    BY <1>1, HeadTail
  <1>3. <<Head(queue)>> \in Seq(Op)
    BY <1>2
  <1> QED BY <1>2, <1>3 DEF Take, ShapeOK, rows, history

\* TypeOK: the state keeps its shape, with a broker that refuses messages too.
THEOREM Shape == Spec => []TypeOK
  <1>1. Init => TypeOK
    BY IndexInit DEF IndexInv, TypeOK, Init
  <1>2. ASSUME TypeOK, [Next]_vars PROVE TypeOK'
    <2>1. refused' \in BOOLEAN
      BY <1>2 DEF TypeOK, Next, Works, RunInline, vars
    <2>2. ASSUME NEW p \in Procs, Works(p) PROVE ShapeOK'
      BY <1>2, <2>2, ShapeSend, ShapeIndexTask, ShapePut, ShapeIocs, ShapeRebuild, ShapeClose
      DEF TypeOK, Works, Step
    <2>3. ASSUME NEW w \in Workers, Take(w) PROVE ShapeOK'
      BY <1>2, <2>3, ShapeTake DEF TypeOK
    <2>4. ASSUME Else PROVE ShapeOK'
      BY <1>2, <2>4, ShapeWrite, ShapeFault DEF TypeOK, Else
    <2>5. CASE UNCHANGED vars
      BY <1>2, <2>5 DEF TypeOK, ShapeOK, vars, rows, history
    <2> QED BY <1>2, <2>1, <2>2, <2>3, <2>4, <2>5 DEF Next, TypeOK
  <1> QED BY <1>1, <1>2, PTL DEF Spec

-----------------------------------------------------------------------------
(* Contents in their order                                                   *)

Elems(s) == {s[i] : i \in DOMAIN s}

LEMMA ElemsEmpty == Elems(<< >>) = {}
  BY DEF Elems

LEMMA ElemsOne ==
    ASSUME NEW x
    PROVE  Elems(<<x>>) = {x}
  BY DEF Elems

LEMMA ElemsTwo ==
    ASSUME NEW x, NEW y
    PROVE  Elems(<<x, y>>) = {x, y}
  BY DEF Elems

LEMMA ElemsIn ==
    ASSUME NEW S, NEW s \in Seq(S)
    PROVE  Elems(s) \subseteq S
  BY DEF Elems

LEMMA ElemsAppend ==
    ASSUME NEW S, NEW s \in Seq(S), NEW x \in S
    PROVE  Elems(Append(s, x)) = Elems(s) \cup {x}
  <1>1. /\ DOMAIN Append(s, x) = DOMAIN s \cup {Len(s) + 1}
        /\ Append(s, x)[Len(s) + 1] = x
        /\ \A i \in DOMAIN s : Append(s, x)[i] = s[i]
    OBVIOUS
  <1> QED BY <1>1 DEF Elems

LEMMA ElemsSplit ==
    ASSUME NEW S, NEW s \in Seq(S), s # << >>
    PROVE  Elems(s) = {Head(s)} \cup Elems(Tail(s))
  <1>1. /\ Len(s) \in Nat \ {0} /\ DOMAIN s = 1 .. Len(s) /\ DOMAIN Tail(s) = 1 .. Len(s) - 1
        /\ Head(s) = s[1] /\ \A i \in 1 .. Len(s) - 1 : Tail(s)[i] = s[i + 1]
    OBVIOUS
  <1>2. ASSUME NEW i \in DOMAIN s PROVE s[i] \in {Head(s)} \cup Elems(Tail(s))
    <2>1. CASE i = 1
      BY <1>1, <2>1
    <2>2. CASE i # 1
      <3>1. i - 1 \in DOMAIN Tail(s) /\ Tail(s)[i - 1] = s[i]
        BY <1>1, <2>2
      <3> QED BY <3>1 DEF Elems
    <2> QED BY <2>1, <2>2
  <1>3. ASSUME NEW i \in DOMAIN Tail(s) PROVE Tail(s)[i] \in Elems(s)
    <2>1. i + 1 \in DOMAIN s /\ Tail(s)[i] = s[i + 1]
      BY <1>1
    <2> QED BY <2>1 DEF Elems
  <1>4. Head(s) \in Elems(s)
    BY <1>1 DEF Elems
  <1> QED BY <1>2, <1>3, <1>4 DEF Elems

IsWrite(op) == op.task \in {"put", "bulk"}

\* Nothing is newer than the latest version, a document no newer than its row.
Ages(a) ==
    /\ row[a] <= last[a] /\ doc[a] <= last[a]
    /\ row[a] # 0 => doc[a] <= row[a]
    /\ tx[a] # 0 => tx[a] = last[a]
    /\ lock[a] = Nobody => tx[a] = 0

\* A content that w still has to write is no older than the document, unless
\* another worker has written one since w read it.
Timely(w, op) ==
    /\ op.id \notin overtaken[w] => doc[op.id] <= op.ver
    /\ op.ver <= last[op.id]
    /\ row[op.id] # 0 => op.ver <= row[op.id]

\* A worker has one operation to do, or the writes of a rebuild.
Plan(s) ==
    /\ Tail(s) = << >> \/ \A op \in Elems(s) : op.task = "bulk"
    /\ \A x, y \in Elems(s) : IsWrite(x) /\ IsWrite(y) /\ x.id = y.id => x.ver = y.ver

OrderInv ==
    /\ IndexInv
    /\ \A a \in Alerts : Ages(a)
    /\ \A w \in Workers : todo[w] # << >> => Plan(todo[w])
    /\ \A w \in Workers : \A op \in Elems(todo[w]) : IsWrite(op) => Timely(w, op)

LEMMA PlanTail ==
    ASSUME NEW s \in Seq(Op), s # << >>, Plan(s)
    PROVE  Plan(Tail(s))
  <1>1. Tail(s) \in Seq(Op) /\ Elems(Tail(s)) \subseteq Elems(s)
    BY HeadTail, ElemsSplit
  <1>2. CASE Tail(s) = << >>
    <2>1. Elems(Tail(s)) = {}
      BY <1>2, ElemsEmpty
    <2> QED BY <2>1 DEF Plan
  <1>3. CASE \A op \in Elems(s) : op.task = "bulk"
    BY <1>1, <1>3 DEF Plan
  <1> QED BY <1>2, <1>3 DEF Plan

\* One operation is a plan.
LEMMA PlanOne ==
    ASSUME NEW x
    PROVE  Plan(<<x>>)
  <1>1. Tail(<<x>>) = << >> /\ Elems(<<x>>) = {x}
    BY ElemsOne
  <1> QED BY <1>1 DEF Plan

\* What a worker is left with when it replaces the operation it did.
LEMMA PlanThen ==
    ASSUME OrderInv, NEW w \in Workers, todo[w] # << >>, NEW ops \in Seq(Op), Then(w, ops)
    PROVE  /\ \A v \in Procs \ {w} : todo'[v] = todo[v]
           /\ Head(todo[w]).task # "bulk" => todo'[w] = ops
           /\ ops = << >> => todo'[w] = Tail(todo[w])
  <1>1. w \in Procs /\ todo \in [Procs -> Seq(Op)] /\ Plan(todo[w])
    BY DEF Procs, OrderInv, IndexInv, ShapeOK
  <1>2. todo'[w] = ops \o Tail(todo[w]) /\ \A v \in Procs \ {w} : todo'[v] = todo[v]
    BY <1>1 DEF Then
  <1>3. Tail(todo[w]) \in Seq(Op) /\ Head(todo[w]) \in Elems(todo[w])
    BY <1>1, HeadTail, ElemsSplit
  <1>4. Head(todo[w]).task # "bulk" => Tail(todo[w]) = << >>
    BY <1>1, <1>3 DEF Plan
  <1>5. Tail(todo[w]) = << >> => todo'[w] = ops
    BY <1>2
  <1>6. ops = << >> => todo'[w] = Tail(todo[w])
    BY <1>2, <1>3
  <1> QED BY <1>2, <1>4, <1>5, <1>6

\* A step that writes no document: rows only get newer, and what a worker has
\* to do shrinks or is timely.
LEMMA OrderKeeps ==
    ASSUME OrderInv, IndexInv', doc' = doc,
           \A a \in Alerts : /\ Ages(a)' /\ last[a] <= last'[a]
                             /\ row'[a] # 0 => row'[a] \in {row[a], last'[a]},
           \A w \in Workers :
               \/ todo'[w] \in {todo[w], << >>}
               \/ todo[w] # << >> /\ todo'[w] = Tail(todo[w])
               \/ /\ UNCHANGED rows /\ Plan(todo'[w])
                  /\ \A op \in Elems(todo'[w]) : IsWrite(op) => Timely(w, op),
           \A w \in Workers : overtaken[w] \subseteq overtaken'[w] \/ todo'[w] = << >>
    PROVE  OrderInv'
  <1>t. /\ todo \in [Procs -> Seq(Op)] /\ todo' \in [Procs -> Seq(Op)] /\ Workers \subseteq Procs
        /\ row \in [Alerts -> Nat] /\ last \in [Alerts -> Nat] /\ last' \in [Alerts -> Nat]
        /\ row' \in [Alerts -> Nat]
    BY DEF OrderInv, IndexInv, ShapeOK, Procs
  <1>1. ASSUME NEW w \in Workers, overtaken[w] \subseteq overtaken'[w],
               NEW op \in Op, Timely(w, op)
        PROVE  Timely(w, op)'
    <2>1. op.id \in Alerts /\ op.ver \in Nat
      BY DEF Op
    <2>2. op.id \notin overtaken'[w] => doc'[op.id] <= op.ver
      BY <1>1 DEF Timely
    <2>3. op.ver <= last'[op.id] /\ (row'[op.id] # 0 => op.ver <= row'[op.id])
      <3>1. op.ver <= last[op.id] /\ (row[op.id] # 0 => op.ver <= row[op.id])
        BY <1>1 DEF Timely
      <3>2. /\ last[op.id] <= last'[op.id]
            /\ row'[op.id] # 0 => row'[op.id] = row[op.id] \/ row'[op.id] = last'[op.id]
        BY <2>1
      <3>3. /\ row[op.id] \in Nat /\ last[op.id] \in Nat
            /\ row'[op.id] \in Nat /\ last'[op.id] \in Nat
        BY <1>t, <2>1
      <3> QED BY <2>1, <3>1, <3>2, <3>3
    <2> QED BY <2>2, <2>3 DEF Timely
  <1>2. ASSUME NEW w \in Workers
        PROVE  /\ todo'[w] # << >> => Plan(todo'[w])
               /\ \A op \in Elems(todo'[w]) : IsWrite(op) => Timely(w, op)'
    <2>0. todo[w] \in Seq(Op) /\ todo'[w] \in Seq(Op) /\ Elems(todo[w]) \subseteq Op
      BY <1>t, ElemsIn
    <2>2. CASE todo'[w] = << >>
      BY <2>2, ElemsEmpty
    <2>1. CASE todo'[w] = todo[w] /\ overtaken[w] \subseteq overtaken'[w]
      BY <1>1, <2>0, <2>1 DEF OrderInv
    <2>3. CASE /\ todo[w] # << >> /\ todo'[w] = Tail(todo[w])
               /\ overtaken[w] \subseteq overtaken'[w]
      <3>1. Elems(todo'[w]) \subseteq Elems(todo[w])
        BY <2>0, <2>3, ElemsSplit
      <3> QED BY <1>1, <2>0, <2>3, <3>1, PlanTail DEF OrderInv
    <2>4. CASE /\ UNCHANGED rows /\ Plan(todo'[w]) /\ overtaken[w] \subseteq overtaken'[w]
               /\ \A op \in Elems(todo'[w]) : IsWrite(op) => Timely(w, op)
      BY <2>4 DEF rows, Timely
    <2> QED BY <2>1, <2>2, <2>3, <2>4
  <1> QED BY <1>2 DEF OrderInv

\* The same when the rows stay.
LEMMA OrderTask ==
    ASSUME OrderInv, IndexInv', UNCHANGED <<rows, doc>>,
           NEW p \in Procs, \A q \in Procs \ {p} : todo'[q] = todo[q],
           \A q \in Procs : overtaken[q] \subseteq overtaken'[q] \/ todo'[q] = << >>,
           p \in Workers =>
               \/ todo'[p] \in {todo[p], << >>}
               \/ todo[p] # << >> /\ todo'[p] = Tail(todo[p])
               \/ Plan(todo'[p]) /\ \A op \in Elems(todo'[p]) : IsWrite(op) => Timely(p, op)
    PROVE  OrderInv'
  <1>1. \A a \in Alerts : /\ Ages(a)' /\ last[a] <= last'[a]
                          /\ row'[a] # 0 => row'[a] \in {row[a], last'[a]}
    BY DEF OrderInv, IndexInv, ShapeOK, Ages, rows
  <1>2. Workers \subseteq Procs
    BY DEF Procs
  <1> QED BY <1>1, <1>2, OrderKeeps

\* What a worker reads of an alert, and writes of it, is timely.
LEMMA TimelyRow ==
    ASSUME OrderInv, NEW w, NEW a \in Alerts, row[a] # 0, NEW how
    PROVE  Timely(w, Write(how, a, row[a]))
  <1>1. Ages(a) /\ row[a] \in Nat /\ last[a] \in Nat /\ doc[a] \in Nat
    BY DEF OrderInv, IndexInv, ShapeOK
  <1> QED BY <1>1 DEF Ages, Timely, Write

LEMMA OrderSend ==
    ASSUME OrderInv, IndexInv', NEW p \in Procs, SendTask(p)
    PROVE  OrderInv'
  <1>1. todo[p] # << >> /\ UNCHANGED <<rows, doc, overtaken>>
    BY DEF SendTask, Next1, history
  <1>2. Tail(todo[p]) \in Seq(Op) /\ todo \in [Procs -> Seq(Op)]
    BY <1>1, HeadTail DEF OrderInv, IndexInv, ShapeOK
  <1>3. todo'[p] = Tail(todo[p]) /\ \A q \in Procs \ {p} : todo'[q] = todo[q]
    BY <1>2 DEF SendTask, Then
  <1> QED BY <1>1, <1>3, OrderTask

\* A task that leaves the documents: the worker goes on with its next operations.
LEMMA OrderTaskBody ==
    ASSUME OrderInv, IndexInv', NEW p \in Procs,
           Sync(p) \/ ReadIocs(p) \/ SaveIocs(p) \/ Rebuild(p)
    PROVE  OrderInv'
  <1> DEFINE a == Head(todo[p]).id
             live == {b \in Alerts : row[b] # 0}
  <1>1. /\ UNCHANGED <<rows, doc, overtaken>> /\ todo[p] # << >> /\ a \in Alerts
        /\ p \notin Requests /\ Head(todo[p]).task # "bulk"
    BY WorkersRun DEF history, Sync, ReadIocs, SaveIocs, Rebuild, Tasks, Pending, OrderInv, Next1
  <1>2. p \in Workers /\ todo \in [Procs -> Seq(Op)] /\ Nobody # p
    BY <1>1, ProcsAssumption DEF Procs, OrderInv, IndexInv, ShapeOK
  <1>3. \A q \in Procs \ {p} : todo'[q] = todo[q]
    BY <1>2 DEF Sync, ReadIocs, SaveIocs, Rebuild, Then
  <1>4. ASSUME NEW ops \in Seq(Op), Then(p, ops), Plan(ops),
               \A op \in Elems(ops) : IsWrite(op) => Timely(p, op)
        PROVE  OrderInv'
    <2>1. todo'[p] = ops
      BY <1>1, <1>2, <1>4, PlanThen
    <2> QED BY <1>1, <1>3, <1>4, <2>1, OrderTask
  <1>10. ASSUME NEW x \in Op, Then(p, <<x>>), IsWrite(x) => Timely(p, x)
         PROVE  OrderInv'
    <2>1. PICK ops : ops = <<x>>
      OBVIOUS
    <2>2. ops \in Seq(Op) /\ Plan(ops) /\ Elems(ops) = {x}
      BY <2>1, PlanOne, ElemsOne
    <2> QED BY <1>4, <1>10, <2>1, <2>2
  <1>5. CASE Then(p, << >>) \/ todo' = [todo EXCEPT ![p] = << >>]
    <2>1. << >> \in Seq(Op)
      OBVIOUS
    <2>2. todo'[p] = << >> \/ todo'[p] = Tail(todo[p])
      BY <1>1, <1>2, <1>5, <2>1, PlanThen
    <2> QED BY <1>1, <1>3, <2>2, OrderTask
  <1>6. CASE Sync(p) /\ ~Then(p, << >>)
    <2>1. Seen(p, a) = row[a] /\ row[a] # 0 /\ Then(p, <<Write("put", a, row[a])>>)
      BY <1>1, <1>2, <1>6 DEF Sync, Seen, OrderInv, IndexInv
    <2>2. Write("put", a, row[a]) \in Op
      BY <1>1, WriteOp DEF OrderInv, IndexInv, ShapeOK
    <2>3. Timely(p, Write("put", a, row[a]))
      BY <1>1, <2>1, TimelyRow
    <2> QED BY <1>10, <2>1, <2>2, <2>3
  <1>7. CASE ReadIocs(p) /\ ~Then(p, << >>)
    <2>1. Then(p, <<Do("saveIocs", a)>>)
      BY <1>7 DEF ReadIocs
    <2>2. Do("saveIocs", a) \in Op /\ ~IsWrite(Do("saveIocs", a))
      BY <1>1 DEF Do, Op, Tasks, Pending, IsWrite
    <2> QED BY <1>10, <2>1, <2>2
  <1>8. CASE SaveIocs(p) /\ Then(p, IocSignal(a))
    <2>1. Send("sync", a) \in Op /\ ~IsWrite(Send("sync", a))
      BY <1>1 DEF Send, Op, Tasks, Pending, IsWrite
    <2> QED BY <1>8, <1>10, <2>1 DEF IocSignal
  <1>9. CASE Rebuild(p) /\ ~Then(p, << >>)
    <2>1. PICK s \in Orders(live) : Then(p, [i \in DOMAIN s |-> Write("bulk", s[i], row[s[i]])])
      BY <1>9 DEF Rebuild
    <2>2. PICK ops : ops = [i \in DOMAIN s |-> Write("bulk", s[i], row[s[i]])]
      OBVIOUS
    <2>3. s \in [1 .. Cardinality(live) -> live] /\ Cardinality(live) \in Nat
      BY AlertsAssumption, FS_Subset, FS_CardinalityType DEF Orders
    <2>4. \A i \in DOMAIN s : /\ s[i] \in Alerts /\ row[s[i]] # 0 /\ row[s[i]] \in Nat
                              /\ Write("bulk", s[i], row[s[i]]) \in Op
      BY <2>3, WriteOp DEF OrderInv, IndexInv, ShapeOK
    <2>5. ops \in Seq(Op)
      BY <2>2, <2>3, <2>4
    <2>6. \A op \in Elems(ops) : /\ op.task = "bulk" /\ op.ver = row[op.id] /\ Timely(p, op)
      BY <2>2, <2>4, TimelyRow DEF Elems, Write
    <2>7. Plan(ops)
      BY <2>6 DEF Plan
    <2> QED BY <1>4, <2>1, <2>2, <2>5, <2>6, <2>7
  <1> QED BY <1>5, <1>6, <1>7, <1>8, <1>9 DEF SaveIocs, Sync, ReadIocs, Rebuild

LEMMA OrderTake ==
    ASSUME OrderInv, IndexInv', NEW w \in Workers, Take(w)
    PROVE  OrderInv'
  <1>1. UNCHANGED <<rows, doc, overtaken>> /\ w \in Procs
    BY DEF Take, Procs, history
  <1>2. Head(queue) \in Messages
    BY HeadTail DEF Take, OrderInv, IndexInv
  <1>3. ~IsWrite(Head(queue))
    BY <1>2 DEF Messages, Tasks, IsWrite
  <1>4. todo'[w] = <<Head(queue)>> /\ \A q \in Procs \ {w} : todo'[q] = todo[q]
    BY <1>1 DEF Take, OrderInv, IndexInv, ShapeOK
  <1>5. PICK s : s = <<Head(queue)>>
    OBVIOUS
  <1>6. Plan(s) /\ Elems(s) = {Head(queue)}
    BY <1>5, PlanOne, ElemsOne
  <1> QED BY <1>1, <1>3, <1>4, <1>5, <1>6, OrderTask

LEMMA OrderWrite ==
    ASSUME OrderInv, IndexInv', NEW p \in Requests, NEW a \in Alerts,
           Save(p, a) \/ SaveInTransaction(p, a) \/ DeleteInTransaction(p, a)
    PROVE  OrderInv'
  <1>t. /\ row \in [Alerts -> Nat] /\ last \in [Alerts -> Nat] /\ doc \in [Alerts -> Nat]
        /\ tx \in [Alerts -> Nat] /\ lock \in [Alerts -> Procs \cup {Nobody}]
        /\ p \notin Workers /\ p # Nobody /\ p \in Procs
        /\ todo \in [Procs -> Seq(Op)] /\ Workers \subseteq Procs
    BY ProcsAssumption DEF OrderInv, IndexInv, ShapeOK, Procs
  <1>1. UNCHANGED <<doc, overtaken>> /\ \A w \in Workers : todo'[w] = todo[w]
    BY <1>t DEF Save, SaveInTransaction, DeleteInTransaction, history
  <1>2. \A b \in Alerts : Ages(b)
    BY DEF OrderInv
  <1>3. \A b \in Alerts : /\ Ages(b)' /\ last[b] <= last'[b]
                          /\ row'[b] # 0 => row'[b] \in {row[b], last'[b]}
    <2>1. CASE Save(p, a)
      <3>1. /\ last' = [last EXCEPT ![a] = last[a] + 1] /\ row' = [row EXCEPT ![a] = last[a] + 1]
            /\ UNCHANGED <<doc, lock, tx>> /\ lock[a] = Nobody
        BY <1>t, <2>1 DEF Save, Writable
      <3> QED BY <1>t, <1>2, <3>1 DEF Ages
    <2>2. CASE SaveInTransaction(p, a)
      <3>1. /\ last' = [last EXCEPT ![a] = last[a] + 1] /\ tx' = [tx EXCEPT ![a] = last[a] + 1]
            /\ UNCHANGED <<row, doc>> /\ lock' = [lock EXCEPT ![a] = p]
        BY <1>t, <2>2 DEF SaveInTransaction
      <3> QED BY <1>t, <1>2, <3>1 DEF Ages
    <2>3. CASE DeleteInTransaction(p, a)
      <3>1. /\ UNCHANGED <<row, last, doc>> /\ lock' = [lock EXCEPT ![a] = p]
            /\ tx' = [tx EXCEPT ![a] = 0]
        BY <2>3 DEF DeleteInTransaction
      <3> QED BY <1>t, <1>2, <3>1 DEF Ages
    <2> QED BY <2>1, <2>2, <2>3
  <1> QED BY <1>1, <1>3, OrderKeeps

LEMMA OrderClose ==
    ASSUME OrderInv, IndexInv', NEW p \in Procs, NEW a \in Alerts, Commit(p, a) \/ Rollback(p, a)
    PROVE  OrderInv'
  <1>t. /\ row \in [Alerts -> Nat] /\ last \in [Alerts -> Nat] /\ doc \in [Alerts -> Nat]
        /\ tx \in [Alerts -> Nat] /\ lock \in [Alerts -> Procs \cup {Nobody}]
    BY DEF OrderInv, IndexInv, ShapeOK
  <1>1. /\ UNCHANGED <<doc, todo, last, overtaken>> /\ tx' = [tx EXCEPT ![a] = 0]
        /\ row' = row \/ row' = [row EXCEPT ![a] = tx[a]]
    BY DEF Commit, Rollback, history
  <1>2. \A b \in Alerts : Ages(b)
    BY DEF OrderInv
  <1>3. \A b \in Alerts : /\ Ages(b)' /\ last[b] <= last'[b]
                          /\ row'[b] # 0 => row'[b] \in {row[b], last'[b]}
    <2>1. \A b \in Alerts : row'[b] = row[b] \/ (b = a /\ row'[b] = tx[a])
      BY <1>t, <1>1
    <2>2. \A b \in Alerts : tx'[b] = (IF b = a THEN 0 ELSE tx[b])
      BY <1>t, <1>1
    <2>3. \A b \in Alerts : lock'[b] = Nobody => lock[b] = Nobody \/ b = a
      BY <1>t DEF Commit, Rollback
    <2> QED BY <1>t, <1>1, <1>2, <2>1, <2>2, <2>3 DEF Ages
  <1> QED BY <1>1, <1>3, OrderKeeps

LEMMA OrderFault ==
    ASSUME OrderInv, IndexInv',
           (\E p \in Procs : Crash(p)) \/ SendRebuild \/ IndexFails \/ IndexRecovers
    PROVE  OrderInv'
  <1>t. /\ row \in [Alerts -> Nat] /\ last \in [Alerts -> Nat] /\ todo \in [Procs -> Seq(Op)]
        /\ overtaken \in [Procs -> SUBSET Alerts] /\ Workers \subseteq Procs
    BY DEF OrderInv, IndexInv, ShapeOK, Procs
  <1>1. doc' = doc /\ UNCHANGED <<row, last>>
    BY DEF Crash, SendRebuild, IndexFails, IndexRecovers, rows
  <1>4. \A w \in Workers : overtaken[w] \subseteq overtaken'[w] \/ todo'[w] = << >>
    BY <1>t DEF Crash, SendRebuild, IndexFails, IndexRecovers, history
  <1>2. \A w \in Workers : todo'[w] \in {todo[w], << >>}
    BY <1>t DEF Crash, SendRebuild, IndexFails, IndexRecovers
  <1>3. ASSUME NEW a \in Alerts PROVE Ages(a)'
    <2>1. /\ tx'[a] # 0 => tx'[a] = tx[a]
          /\ lock'[a] = Nobody => lock[a] = Nobody \/ tx'[a] = 0
          /\ lock[a] = Nobody /\ tx[a] = 0 => tx'[a] = 0
      BY DEF Crash, SendRebuild, IndexFails, IndexRecovers, rows
    <2> QED BY <1>1, <2>1 DEF Ages, OrderInv
  <1> QED BY <1>t, <1>1, <1>2, <1>3, <1>4, OrderKeeps

\* A worker writes a document: who still holds a content of it is overtaken.
LEMMA OrderPut ==
    ASSUME OrderInv, IndexInv', NEW w \in Workers, NEW op, op = Head(todo[w]),
           todo[w] # << >>, IsWrite(op), op.id \in Alerts, op.ver \in Nat,
           PutTo(w, op.id, op.ver), UNCHANGED rows
    PROVE  OrderInv'
  <1>t. /\ row \in [Alerts -> Nat] /\ last \in [Alerts -> Nat] /\ doc \in [Alerts -> Nat]
        /\ todo \in [Procs -> Seq(Op)]
    BY DEF OrderInv, IndexInv, ShapeOK
  <1>w. w \in Procs /\ Workers \subseteq Procs /\ << >> \in Seq(Op)
    BY DEF Procs
  <1>s. ShapeOK
    BY DEF OrderInv, IndexInv
  <1>p. doc' = [doc EXCEPT ![op.id] = op.ver] /\ Then(w, << >>)
    BY DEF PutTo
  <1>1. todo'[w] = Tail(todo[w]) /\ \A v \in Procs \ {w} : todo'[v] = todo[v]
    BY <1>t, <1>w, <1>p, PlanThen
  <1>2. op \in Elems(todo[w]) /\ Elems(Tail(todo[w])) \subseteq Elems(todo[w])
        /\ Elems(todo[w]) \subseteq Op
    BY <1>t, <1>w, ElemsSplit, ElemsIn
  <1>3. Timely(w, op) /\ Plan(todo[w]) /\ \A a \in Alerts : Ages(a)
    BY <1>2 DEF OrderInv
  <1>4. \A a \in Alerts : Ages(a)'
    BY <1>t, <1>w, <1>p, <1>3 DEF Ages, Timely, rows
  <1>5. Plan(Tail(todo[w]))
    BY <1>t, <1>w, <1>3, PlanTail
  <1>o. /\ overtaken'[w] = overtaken[w] \ {op.id}
        /\ \A v \in Procs \ {w} : /\ overtaken[v] \subseteq overtaken'[v]
                                  /\ Holds(v, op.id) => op.id \in overtaken'[v]
    BY <1>t, <1>w, <1>s, PutHistory
  <1>6. ASSUME NEW x \in Elems(Tail(todo[w])), IsWrite(x) PROVE Timely(w, x)'
    <2>1. x \in Op /\ Timely(w, x) /\ (x.id = op.id => x.ver = op.ver)
      BY <1>2, <1>3, <1>6 DEF OrderInv, Plan
    <2>2. x.id \in Alerts /\ x.ver \in Nat
      BY <2>1 DEF Op
    <2>3. CASE x.id = op.id
      BY <1>t, <1>w, <1>p, <2>1, <2>2, <2>3 DEF Timely, rows
    <2>4. CASE x.id # op.id
      BY <1>t, <1>w, <1>p, <1>o, <2>1, <2>2, <2>4 DEF Timely, rows
    <2> QED BY <2>3, <2>4
  <1>7. ASSUME NEW v \in Workers, v # w, NEW x \in Elems(todo[v]), IsWrite(x)
        PROVE  Timely(v, x)'
    <2>0. v \in Procs \ {w}
      BY <1>t, <1>w, <1>7
    <2>5. /\ overtaken[v] \subseteq overtaken'[v]
          /\ Holds(v, op.id) => op.id \in overtaken'[v]
      BY <1>o, <2>0
    <2>1. x \in Op /\ Timely(v, x)
      BY <1>t, <1>w, <1>7, ElemsIn DEF OrderInv
    <2>2. x.id \in Alerts /\ x.ver \in Nat
      BY <2>1 DEF Op
    <2>3. CASE x.id = op.id
      <3>1. Holds(v, op.id)
        BY <1>7, <2>3 DEF Holds, Elems, IsWrite
      <3>2. op.id \in overtaken'[v]
        BY <2>5, <3>1
      <3> QED BY <2>1, <2>3, <3>2 DEF Timely, rows
    <2>4. CASE x.id # op.id
      <3>1. overtaken[v] \subseteq overtaken'[v] /\ doc'[x.id] = doc[x.id]
        BY <1>t, <1>w, <1>p, <2>5, <2>2, <2>4
      <3> QED BY <2>1, <3>1 DEF Timely, rows
    <2> QED BY <2>3, <2>4
  <1>8. ASSUME NEW v \in Workers
        PROVE  /\ todo'[v] # << >> => Plan(todo'[v])
               /\ \A x \in Elems(todo'[v]) : IsWrite(x) => Timely(v, x)'
    <2>1. CASE v = w
      BY <1>1, <1>5, <1>6, <2>1
    <2>2. CASE v # w
      <3>1. todo'[v] = todo[v]
        BY <1>t, <1>w, <1>1, <2>2
      <3> QED BY <1>7, <2>2, <3>1 DEF OrderInv
    <2> QED BY <2>1, <2>2
  <1> QED BY <1>4, <1>8 DEF OrderInv

LEMMA OrderDelete ==
    ASSUME OrderInv, IndexInv', NEW p \in Procs, Delete(p)
    PROVE  OrderInv'
  <1>t. /\ row \in [Alerts -> Nat] /\ last \in [Alerts -> Nat] /\ doc \in [Alerts -> Nat]
        /\ doc' \in [Alerts -> Nat] /\ todo \in [Procs -> Seq(Op)] /\ << >> \in Seq(Op)
        /\ Workers \subseteq Procs
    BY DEF OrderInv, IndexInv, ShapeOK, Procs
  <1>1. p \in Workers /\ todo[p] # << >> /\ Then(p, << >>) /\ UNCHANGED <<rows, overtaken>>
    BY WorkersRun DEF Delete, Tasks, OrderInv, Procs
  <1>2. todo'[p] = Tail(todo[p]) /\ \A q \in Procs \ {p} : todo'[q] = todo[q]
    BY <1>t, <1>1, PlanThen
  <1>3. \A a \in Alerts : doc'[a] = doc[a] \/ doc'[a] = 0
    BY <1>t DEF Delete
  <1>4. ASSUME NEW a \in Alerts PROVE Ages(a)'
    <2>1. /\ Ages(a) /\ row[a] \in Nat /\ last[a] \in Nat /\ doc[a] \in Nat /\ doc'[a] \in Nat
          /\ doc'[a] = doc[a] \/ doc'[a] = 0
      BY <1>t, <1>3 DEF OrderInv
    <2>2. doc'[a] <= doc[a]
      BY <2>1
    <2>3. UNCHANGED <<row, last, lock, tx>>
      BY <1>1 DEF rows
    <2> QED BY <2>1, <2>2, <2>3 DEF Ages
  <1>5. ASSUME NEW w \in Workers, NEW x \in Op, Timely(w, x) PROVE Timely(w, x)'
    <2>1. x.id \in Alerts /\ x.ver \in Nat
      BY DEF Op
    <2>3. /\ doc[x.id] \in Nat /\ (x.id \notin overtaken[w] => doc[x.id] <= x.ver)
          /\ doc'[x.id] = doc[x.id] \/ doc'[x.id] = 0
      BY <1>t, <1>3, <1>5, <2>1 DEF Timely
    <2>2. x.id \notin overtaken[w] => doc'[x.id] <= x.ver
      BY <2>1, <2>3
    <2> QED BY <1>1, <1>5, <2>2 DEF Timely, rows
  <1>6. ASSUME NEW w \in Workers
        PROVE  /\ todo'[w] # << >> => Plan(todo'[w])
               /\ \A x \in Elems(todo'[w]) : IsWrite(x) => Timely(w, x)'
    <2>0. todo[w] \in Seq(Op) /\ Elems(todo[w]) \subseteq Op
      BY <1>t, ElemsIn
    <2>1. CASE w # p
      <3>1. todo'[w] = todo[w]
        BY <1>t, <1>2, <2>1
      <3> QED BY <1>5, <2>0, <3>1 DEF OrderInv
    <2>2. CASE w = p
      <3>1. Plan(todo[w]) /\ Elems(Tail(todo[w])) \subseteq Elems(todo[w])
        BY <1>1, <2>0, <2>2, ElemsSplit DEF OrderInv
      <3> QED BY <1>1, <1>2, <1>5, <2>0, <2>2, <3>1, PlanTail DEF OrderInv
    <2> QED BY <2>1, <2>2
  <1> QED BY <1>4, <1>6 DEF OrderInv

\* The workers keep the order as long as the broker takes messages.
LEMMA OrderStep ==
    ASSUME ~refused', OrderInv, [Next]_vars
    PROVE  OrderInv'
  <1>0. IndexInv'
    BY IndexStep DEF OrderInv
  <1>e. << >> \in Seq(Op)
    OBVIOUS
  <1>1. ASSUME NEW p \in Procs, Put(p) \/ BulkPut(p) PROVE OrderInv'
    <2>1. PICK op : op = Head(todo[p])
      OBVIOUS
    <2>2. /\ p \in Workers /\ todo[p] # << >> /\ IsWrite(op) /\ op.id \in Alerts /\ op.ver \in Nat
          /\ UNCHANGED rows
      BY <1>1, <2>1, WorkersRun DEF Put, BulkPut, Pending, Procs, OrderInv, Next1, IsWrite
    <2>3. CASE PutTo(p, op.id, op.ver)
      BY <1>0, <2>1, <2>2, <2>3, OrderPut
    <2>4. CASE ~PutTo(p, op.id, op.ver)
      <3>1. Then(p, << >>) \/ todo' = [todo EXCEPT ![p] = << >>]
        BY <1>1, <2>1, <2>4 DEF Put, BulkPut
      <3>2. doc' = doc /\ todo \in [Procs -> Seq(Op)]
        BY <1>1, <2>1, <2>4 DEF Put, BulkPut, OrderInv, IndexInv, ShapeOK
      <3>3. todo'[p] = << >> \/ todo'[p] = Tail(todo[p])
        BY <1>e, <2>2, <3>1, <3>2, PlanThen
      <3>4. \A q \in Procs \ {p} : todo'[q] = todo[q]
        BY <3>1, <3>2 DEF Then
      <3>5. /\ overtaken' = [overtaken EXCEPT ![p] = {}]
            /\ overtaken \in [Procs -> SUBSET Alerts]
        BY <1>1, <2>1, <2>4 DEF Put, BulkPut, OrderInv, IndexInv, ShapeOK
      <3>6. todo'[p] = << >>
        <4>1. CASE Put(p)
          <5>1. Then(p, << >>) /\ Head(todo[p]).task # "bulk"
            BY <2>1, <2>4, <4>1 DEF Put, Next1
          <5> QED BY <1>e, <2>2, <5>1, PlanThen
        <4>2. CASE BulkPut(p)
          BY <2>1, <2>4, <3>2, <4>2 DEF BulkPut
        <4> QED BY <1>1, <4>1, <4>2
      <3>7. \A q \in Procs : overtaken[q] \subseteq overtaken'[q] \/ todo'[q] = << >>
        BY <3>5, <3>6
      <3> QED BY <1>0, <2>2, <3>2, <3>3, <3>4, <3>7, OrderTask
    <2> QED BY <2>3, <2>4
  <1>2. ASSUME NEW p \in Procs, Step(p), ~Put(p), ~BulkPut(p) PROVE OrderInv'
    BY <1>0, <1>2, OrderSend, OrderTaskBody, OrderDelete, OrderClose DEF Step
  <1>3. ASSUME NEW p \in Procs, RunInline(p) PROVE FALSE
    BY <1>3 DEF RunInline
  <1>4. ASSUME NEW v \in Workers, Take(v) PROVE OrderInv'
    BY <1>0, <1>4, OrderTake
  <1>5. ASSUME Else PROVE OrderInv'
    BY <1>0, <1>5, OrderWrite, OrderFault DEF Else
  <1>6. CASE UNCHANGED vars
    <2>1. UNCHANGED <<row, last, lock, tx, todo, doc, overtaken>>
      BY <1>6 DEF vars, rows, history
    <2> QED BY <1>0, <2>1 DEF OrderInv, Ages, Timely
  <1> QED BY <1>1, <1>2, <1>3, <1>4, <1>5, <1>6 DEF Next, Works

LEMMA OrderInit == Init => OrderInv
  <1> SUFFICES ASSUME Init PROVE OrderInv
    OBVIOUS
  <1>1. \A a \in Alerts : Ages(a)
    BY DEF Init, Ages
  <1>2. \A w \in Workers : todo[w] = << >>
    BY DEF Init, Procs
  <1> QED BY <1>1, <1>2, IndexInit, ElemsEmpty DEF OrderInv

\* IndexNeverGoesBack: whatever the writers, rebuilds, outages and crashes do,
\* only a worker that was overtaken writes an older content over a newer one.
THEOREM NeverGoesBack == Spec => IndexNeverGoesBack
  <1> DEFINE Inv == ~refused => OrderInv
             Newer == ~refused => \A a \in Alerts : doc'[a] # 0 =>
                          \/ doc'[a] >= doc[a]
                          \/ \E p \in Procs : a \in overtaken[p] \ overtaken'[p]
  <1>1. Init => Inv
    BY OrderInit
  <1>2. Inv /\ [Next]_vars => Inv'
    BY OrderStep, RefusedStays
  <1>3. Inv /\ [Next]_vars => [Newer]_vars
    <2> SUFFICES ASSUME OrderInv, Next, NEW a \in Alerts, doc'[a] # 0,
                        \A p \in Procs : a \notin overtaken[p] \ overtaken'[p]
                 PROVE  doc'[a] >= doc[a]
      OBVIOUS
    <2>t. doc \in [Alerts -> Nat]
      BY DEF OrderInv, IndexInv, ShapeOK
    <2>1. CASE doc'[a] = doc[a]
      BY <2>t, <2>1
    <2>2. ASSUME NEW p \in Procs, Delete(p) PROVE doc'[a] = doc[a]
      BY <2>t, <2>2 DEF Delete
    <2>3. ASSUME NEW p \in Procs, Put(p) \/ BulkPut(p) PROVE doc'[a] >= doc[a]
      <3>1. PICK op : op = Head(todo[p])
        OBVIOUS
      <3>2. /\ p \in Workers /\ todo[p] # << >> /\ IsWrite(op) /\ op.ver \in Nat
            /\ op.id \in Alerts
        BY <2>3, <3>1, WorkersRun DEF Put, BulkPut, Pending, Procs, OrderInv, Next1, IsWrite
      <3>3. todo[p] \in Seq(Op)
        BY DEF OrderInv, IndexInv, ShapeOK
      <3>4. op \in Elems(todo[p])
        BY <3>1, <3>2, <3>3, ElemsSplit
      <3>5. op.id \notin overtaken[p] => doc[op.id] <= op.ver
        BY <3>2, <3>4 DEF OrderInv, Timely
      <3>6. CASE PutTo(p, op.id, op.ver)
        <4>1. overtaken'[p] = overtaken[p] \ {op.id}
          BY <2>3, <3>2, <3>6, PutHistory DEF OrderInv, IndexInv
        <4>2. doc' = [doc EXCEPT ![op.id] = op.ver]
          BY <3>6 DEF PutTo
        <4> QED BY <2>t, <2>3, <3>2, <3>5, <4>1, <4>2
      <3>7. CASE ~PutTo(p, op.id, op.ver)
        BY <2>t, <2>3, <3>1, <3>7 DEF Put, BulkPut
      <3> QED BY <3>6, <3>7
    <2>4. doc' = doc \/ \E p \in Procs : Delete(p) \/ Put(p) \/ BulkPut(p)
      BY DEF Next, Works, Step, Else, SendTask, Sync, ReadIocs, SaveIocs, Rebuild, Commit, Rollback,
             RunInline, Take, Save, SaveInTransaction, DeleteInTransaction, Crash, SendRebuild,
             IndexFails, IndexRecovers
    <2> QED BY <2>1, <2>2, <2>3, <2>4
  <1> QED BY <1>1, <1>2, <1>3, PTL DEF Spec, IndexNeverGoesBack

-----------------------------------------------------------------------------
(* What is owed to the index                                                 *)

\* The operations that are queued, or begun, or still to be sent.
Flight == Elems(queue) \cup UNION {Elems(todo[p]) : p \in Procs}

Deleting(a) == lock[a] # Nobody /\ tx[a] = 0
Gone(a)     == lock[a] = Nobody /\ row[a] = 0 /\ last[a] # 0

\* What was committed; an alert that is not, is being inserted or was deleted.
History(a) ==
    /\ committed[a] \subseteq 1..last[a]
    /\ row[a] = 0 /\ lock[a] # Nobody => committed[a] = {}
    /\ Deleting(a) => row[a] # 0

\* Who deletes an alert sends it, in its transaction.
SendersDelete ==
    \A p \in Procs : \A op \in Elems(todo[p]) :
        op.task = "send" /\ op.what = "delete" => lock[op.id] = p /\ tx[op.id] = 0

\* A removal is under way for an alert that is deleted, or whose work met a failure.
DeletesKnown ==
    \A op \in Flight : op.task = "delete" =>
        /\ op = Do("delete", op.id)
        /\ op.id \in missed \/ Gone(op.id) \/ Deleting(op.id)

Caught(a) == doc[a] = row[a] \/ (doc[a] = 0 /\ committed[a] = {row[a]})
SyncDue(a) == {Send("sync", a), Do("sync", a), Write("put", a, row[a])} \cap Flight # {}
IocsDue(a) == {Send("iocs", a), Do("iocs", a), Do("saveIocs", a)} \cap Flight # {}

\* The index has the alert, or something that will write it is under way; and
\* for an update that is not committed yet, the save of its indicators.
Cared(a) ==
    a \notin missed /\ row[a] # 0 /\ ~Deleting(a) =>
        /\ Caught(a) \/ SyncDue(a) \/ IocsDue(a)
        /\ lock[a] # Nobody => IocsDue(a)

OwedInv ==
    /\ OrderInv /\ SendersDelete /\ DeletesKnown
    /\ \A a \in Alerts : History(a) /\ Cared(a)

LEMMA ElemsConcat ==
    ASSUME NEW S, NEW s \in Seq(S), NEW t \in Seq(S)
    PROVE  Elems(s \o t) = Elems(s) \cup Elems(t)
  <1>1. /\ Len(s) \in Nat /\ Len(t) \in Nat /\ DOMAIN s = 1 .. Len(s) /\ DOMAIN t = 1 .. Len(t)
        /\ DOMAIN (s \o t) = 1 .. Len(s) + Len(t)
        /\ \A i \in 1 .. Len(s) : (s \o t)[i] = s[i]
        /\ \A i \in 1 .. Len(t) : (s \o t)[Len(s) + i] = t[i]
    OBVIOUS
  <1>2. ASSUME NEW i \in DOMAIN (s \o t) PROVE (s \o t)[i] \in Elems(s) \cup Elems(t)
    <2>1. CASE i \in 1 .. Len(s)
      BY <1>1, <2>1 DEF Elems
    <2>2. CASE i \notin 1 .. Len(s)
      <3>1. i - Len(s) \in 1 .. Len(t) /\ i = Len(s) + (i - Len(s))
        BY <1>1, <2>2
      <3>2. (s \o t)[i] = t[i - Len(s)]
        BY <1>1, <3>1
      <3> QED BY <1>1, <3>1, <3>2 DEF Elems
    <2> QED BY <2>1, <2>2
  <1>3. ASSUME NEW i \in DOMAIN s PROVE s[i] \in Elems(s \o t)
    <2>1. i \in DOMAIN (s \o t) /\ (s \o t)[i] = s[i]
      BY <1>1
    <2> QED BY <2>1 DEF Elems
  <1>4. ASSUME NEW i \in DOMAIN t PROVE t[i] \in Elems(s \o t)
    <2>1. Len(s) + i \in DOMAIN (s \o t) /\ (s \o t)[Len(s) + i] = t[i]
      BY <1>1
    <2> QED BY <2>1 DEF Elems
  <1>5. Elems(s \o t) \subseteq Elems(s) \cup Elems(t)
    BY <1>2 DEF Elems
  <1>6. Elems(s) \subseteq Elems(s \o t) /\ Elems(t) \subseteq Elems(s \o t)
    BY <1>3, <1>4 DEF Elems
  <1> QED BY <1>5, <1>6

\* What is under way after a process replaced the operation it did.
LEMMA FlightThen ==
    ASSUME ShapeOK, NEW p \in Procs, todo[p] # << >>, NEW ops \in Seq(Op), Then(p, ops),
           Elems(queue) \subseteq Elems(queue')
    PROVE  /\ \A q \in Procs \ {p} : todo'[q] = todo[q]
           /\ Elems(todo'[p]) \subseteq Elems(todo[p]) \cup Elems(ops)
           /\ Flight \ {Head(todo[p])} \subseteq Flight'
           /\ Elems(ops) \subseteq Flight' /\ Elems(queue') \subseteq Flight'
  <1>1. /\ todo \in [Procs -> Seq(Op)] /\ Tail(todo[p]) \in Seq(Op)
        /\ Elems(todo[p]) = {Head(todo[p])} \cup Elems(Tail(todo[p]))
    BY HeadTail, ElemsSplit DEF ShapeOK
  <1>2. /\ todo'[p] = ops \o Tail(todo[p]) /\ \A q \in Procs \ {p} : todo'[q] = todo[q]
        /\ DOMAIN todo' = Procs
    BY <1>1 DEF Then
  <1>3. \A t \in Seq(Op) : Elems(ops \o t) = Elems(ops) \cup Elems(t)
    BY ElemsConcat
  <1>4. Elems(todo'[p]) = Elems(ops) \cup Elems(Tail(todo[p]))
    BY <1>1, <1>2, <1>3
  <1>5. \A q \in Procs : Elems(todo'[q]) \subseteq Flight'
    BY DEF Flight
  <1>6. Flight \ {Head(todo[p])} \subseteq Flight'
    <2> SUFFICES ASSUME NEW x \in Flight, x # Head(todo[p]) PROVE x \in Flight'
      OBVIOUS
    <2>1. CASE x \in Elems(queue)
      BY <2>1 DEF Flight
    <2>2. ASSUME NEW q \in Procs, x \in Elems(todo[q]) PROVE x \in Flight'
      <3>1. x \in Elems(todo'[q])
        BY <1>1, <1>2, <1>4, <2>2
      <3> QED BY <1>5, <3>1
    <2> QED BY <2>1, <2>2 DEF Flight
  <1>7. Elems(queue') \subseteq Flight'
    BY DEF Flight
  <1> QED BY <1>1, <1>2, <1>4, <1>5, <1>6, <1>7

\* ... or dropped what it had to do.
LEMMA FlightDrop ==
    ASSUME ShapeOK, NEW p \in Procs, todo' = [todo EXCEPT ![p] = << >>], queue' = queue
    PROVE  /\ \A q \in Procs \ {p} : todo'[q] = todo[q]
           /\ Elems(todo'[p]) = {} /\ Flight \ Elems(todo[p]) \subseteq Flight'
  <1>1. /\ todo \in [Procs -> Seq(Op)] /\ todo'[p] = << >>
        /\ \A q \in Procs \ {p} : todo'[q] = todo[q]
    BY DEF ShapeOK
  <1>2. ASSUME NEW x \in Flight, x \notin Elems(todo[p]) PROVE x \in Flight'
    <2>1. CASE x \in Elems(queue)
      BY <2>1 DEF Flight
    <2>2. ASSUME NEW q \in Procs, x \in Elems(todo[q]) PROVE x \in Flight'
      <3>1. todo'[q] = todo[q]
        BY <1>1, <1>2, <2>2
      <3>2. Elems(todo'[q]) \subseteq Flight'
        BY DEF Flight
      <3> QED BY <2>2, <3>1, <3>2
    <2> QED BY <1>2, <2>1, <2>2 DEF Flight
  <1> QED BY <1>1, <1>2, ElemsEmpty

\* What a step may make: a removal only of an alert that is deleted, or whose
\* work met a failure, and no order to send one.
MayBeMade(op) ==
    /\ op.task = "send" => op.what # "delete"
    /\ op.task = "delete" =>
          /\ op = Do("delete", op.id)
          /\ op.id \in missed' \/ Gone(op.id) \/ Deleting(op.id)

\* What is left to check of a step of one process that leaves the database.
LEMMA OwedStep ==
    ASSUME OwedInv, OrderInv', UNCHANGED rows, NEW p, NEW Made,
           \A q \in Procs \ {p} : todo'[q] = todo[q],
           Elems(todo'[p]) \subseteq Elems(todo[p]) \cup Elems(queue) \cup Made,
           Elems(queue') \subseteq Elems(queue) \cup Made,
           \A op \in Made : MayBeMade(op),
           \A op \in Flight : op.task = "delete" /\ op.id \in missed => op.id \in missed',
           \A a \in Alerts : Cared(a)'
    PROVE  OwedInv'
  <1>1. Flight' \subseteq Flight \cup Made
    <2> SUFFICES ASSUME NEW x \in Flight', x \notin Made PROVE x \in Flight
      OBVIOUS
    <2>1. CASE x \in Elems(queue')
      BY <2>1 DEF Flight
    <2>2. ASSUME NEW q \in Procs, x \in Elems(todo'[q]) PROVE x \in Flight
      <3>1. x \in Elems(todo[q]) \cup Elems(queue)
        BY <2>2
      <3> QED BY <3>1 DEF Flight
    <2> QED BY <2>1, <2>2 DEF Flight
  <1>2. DeletesKnown'
    BY <1>1 DEF DeletesKnown, OwedInv, MayBeMade, Gone, Deleting, rows
  <1>3. \A op \in Elems(queue) : op.task # "send"
    <2>1. Elems(queue) \subseteq Messages
      BY ElemsIn DEF OwedInv, OrderInv, IndexInv
    <2> QED BY <2>1 DEF Messages, Tasks
  <1>4. SendersDelete'
    <2> SUFFICES ASSUME NEW q \in Procs, NEW op \in Elems(todo'[q]),
                        op.task = "send", op.what = "delete"
                 PROVE  lock'[op.id] = q /\ tx'[op.id] = 0
      BY DEF SendersDelete
    <2>1. op \in Elems(todo[q])
      BY <1>3 DEF MayBeMade
    <2> QED BY <2>1 DEF OwedInv, SendersDelete, rows
  <1>5. \A a \in Alerts : History(a)'
    BY DEF OwedInv, History, Deleting, rows
  <1> QED BY <1>2, <1>4, <1>5 DEF OwedInv

Syncs(a) == {Send("sync", a), Do("sync", a), Write("put", a, row[a])}
Iocs(a)  == {Send("iocs", a), Do("iocs", a), Do("saveIocs", a)}

\* An alert is cared for as long as the operations that are due to it are.
LEMMA CaredStays ==
    ASSUME NEW a \in Alerts, Cared(a), UNCHANGED rows, doc'[a] = doc[a],
           a \notin missed' => a \notin missed,
           (Syncs(a) \cup Iocs(a)) \cap Flight \subseteq Flight'
    PROVE  Cared(a)'
  <1>1. SyncDue(a) => SyncDue(a)'
    BY DEF SyncDue, Syncs, rows
  <1>2. IocsDue(a) => IocsDue(a)'
    BY DEF IocsDue, Iocs
  <1> QED BY <1>1, <1>2 DEF Cared, Caught, Deleting, rows

\* The operations due to an alert are of that alert, and of these kinds.
LEMMA DueKinds ==
    ASSUME NEW a, NEW op \in Syncs(a) \cup Iocs(a)
    PROVE  op.id = a /\ op.task \in {"send", "sync", "put", "iocs", "saveIocs"}
           /\ (op.task = "put" => op.ver = row[a])
           /\ (op.task = "sync" => op = Do("sync", a))
           /\ (op.task = "send" => op \in {Send("sync", a), Send("iocs", a)})
  BY DEF Syncs, Iocs, Send, Do, Write

\* ... or are replaced: by the next of their kind, or by a sync once the
\* alert's row is free.
LEMMA CaredMoves ==
    ASSUME NEW a \in Alerts, Cared(a), UNCHANGED rows, doc'[a] = doc[a],
           a \notin missed' => a \notin missed,
           a \notin missed' /\ row[a] # 0 /\ SyncDue(a) => SyncDue(a)',
           row[a] # 0 /\ IocsDue(a) => IocsDue(a)' \/ (SyncDue(a)' /\ lock[a] = Nobody)
    PROVE  Cared(a)'
  BY DEF Cared, Caught, Deleting, rows

\* What a process is about to do, and where the invariant has it.
LEMMA OwedHead ==
    ASSUME OwedInv, NEW p \in Procs, NEW task \in Tasks \cup Pending, Next1(p, task),
           NEW op, op = Head(todo[p])
    PROVE  /\ ShapeOK /\ todo[p] # << >> /\ op \in Elems(todo[p]) /\ op \in Flight
           /\ op.task = task /\ op.what \in Tasks /\ op.id \in Alerts /\ op.ver \in Nat
           /\ << >> \in Seq(Op) /\ Elems(<< >>) = {}
           /\ task # "send" => p \in Workers /\ p # Nobody /\ lock[op.id] # p
  <1>1. OrderInv /\ IndexInv /\ ShapeOK
    BY DEF OwedInv, OrderInv, IndexInv
  <1>2. todo[p] \in Seq(Op)
    BY <1>1 DEF ShapeOK
  <1>3. /\ todo[p] # << >> /\ op.task = task /\ op.what \in Tasks /\ op.id \in Alerts /\ op.ver \in Nat
        /\ task # "send" => p \notin Requests /\ lock[op.id] # p
    BY <1>1, WorkersRun
  <1>4. op \in Elems(todo[p])
    BY <1>2, <1>3, ElemsSplit
  <1> QED BY <1>1, <1>3, <1>4, ElemsEmpty, ProcsAssumption DEF Flight, Procs

LEMMA OwedSend ==
    ASSUME OwedInv, OrderInv', NEW p \in Procs, SendTask(p)
    PROVE  OwedInv'
  <1>1. PICK op, m : op = Head(todo[p]) /\ m = Do(op.what, op.id)
    OBVIOUS
  <1>2. /\ ShapeOK /\ todo[p] # << >> /\ op \in Elems(todo[p]) /\ op.task = "send"
        /\ op.what \in Tasks /\ op.id \in Alerts /\ << >> \in Seq(Op) /\ Elems(<< >>) = {}
    BY <1>1, OwedHead DEF SendTask, Pending
  <1>3. UNCHANGED <<rows, doc, missed>> /\ queue' = Append(queue, m) /\ Then(p, << >>)
    BY <1>1 DEF SendTask, history
  <1>4. Elems(queue') = Elems(queue) \cup {m}
    <2>1. queue \in Seq(Op)
      BY <1>2 DEF ShapeOK
    <2>2. m \in Op
      BY <1>1, <1>2, OpTypes
    <2> QED BY <1>3, <2>1, <2>2, ElemsAppend
  <1>5. /\ \A q \in Procs \ {p} : todo'[q] = todo[q]
        /\ Elems(todo'[p]) \subseteq Elems(todo[p])
        /\ Flight \ {op} \subseteq Flight' /\ m \in Flight'
    BY <1>1, <1>2, <1>3, <1>4, FlightThen
  <1>6. m.task = op.what /\ m.id = op.id /\ m = Do(m.task, m.id) /\ m.task # "send"
    BY <1>1, <1>2 DEF Do, Tasks
  <1>7. m.task = "delete" => Deleting(m.id)
    <2>1. op.what = "delete" => lock[op.id] = p /\ tx[op.id] = 0
      BY <1>2 DEF OwedInv, SendersDelete
    <2>2. p # Nobody
      BY ProcsAssumption DEF Procs
    <2> QED BY <1>6, <2>1, <2>2 DEF Deleting
  <1>8. ASSUME NEW a \in Alerts PROVE Cared(a)'
    <2>1. Cared(a)
      BY DEF OwedInv
    <2>2. CASE op = Send("sync", a)
      <3>1. SyncDue(a)'
        BY <1>1, <1>5, <2>2 DEF SyncDue, Send
      <3>2. op \notin Iocs(a)
        BY <2>2 DEF Iocs, Send, Do
      <3>3. IocsDue(a) => IocsDue(a)'
        BY <1>5, <3>2 DEF IocsDue, Iocs
      <3> QED BY <1>3, <2>1, <3>1, <3>3, CaredMoves
    <2>3. CASE op = Send("iocs", a)
      <3>1. IocsDue(a)'
        BY <1>1, <1>5, <2>3 DEF IocsDue, Send
      <3>2. op \notin Syncs(a)
        BY <2>3 DEF Syncs, Send, Do, Write
      <3>3. SyncDue(a) => SyncDue(a)'
        BY <1>3, <1>5, <3>2 DEF SyncDue, Syncs, rows
      <3> QED BY <1>3, <2>1, <3>1, <3>3, CaredMoves
    <2>4. CASE op \notin {Send("sync", a), Send("iocs", a)}
      <3>1. op \notin Syncs(a) \cup Iocs(a)
        BY <1>2, <2>4, DueKinds
      <3> QED BY <1>3, <1>5, <2>1, <3>1, CaredStays
    <2> QED BY <2>2, <2>3, <2>4
  <1>9. PICK Made : Made = {m}
    OBVIOUS
  <1>10. /\ Elems(todo'[p]) \subseteq Elems(todo[p]) \cup Elems(queue) \cup Made
         /\ Elems(queue') \subseteq Elems(queue) \cup Made
    BY <1>4, <1>5, <1>9
  <1>11. \A x \in Made : MayBeMade(x)
    BY <1>6, <1>7, <1>9 DEF MayBeMade
  <1>12. \A x \in Flight : x.task = "delete" /\ x.id \in missed => x.id \in missed'
    BY <1>3
  <1>13. UNCHANGED rows /\ \A q \in Procs \ {p} : todo'[q] = todo[q]
    BY <1>3, <1>5
  <1>14. \A a \in Alerts : Cared(a)'
    BY <1>8
  <1> QED BY <1>10, <1>11, <1>12, <1>13, <1>14, OwedStep

\* A worker's task that leaves the documents: it makes the operations ops.
LEMMA OwedTask ==
    ASSUME OwedInv, OrderInv', NEW p \in Procs, NEW op, op = Head(todo[p]), todo[p] # << >>,
           NEW ops \in Seq(Op), Then(p, ops), UNCHANGED <<rows, queue, doc>>, missed \subseteq missed',
           \A x \in Elems(ops) : x.task # "delete" /\ (x.task = "send" => x.what # "delete"),
           op.id \in Alerts,
           Flight \ {op} \subseteq Flight' /\ Elems(ops) \subseteq Flight' => Cared(op.id)'
    PROVE  OwedInv'
  <1>1. ShapeOK
    BY DEF OwedInv, OrderInv, IndexInv
  <1>2. /\ \A q \in Procs \ {p} : todo'[q] = todo[q]
        /\ Elems(todo'[p]) \subseteq Elems(todo[p]) \cup Elems(ops)
        /\ Flight \ {op} \subseteq Flight' /\ Elems(ops) \subseteq Flight'
    BY <1>1, FlightThen
  <1>3. ASSUME NEW a \in Alerts PROVE Cared(a)'
    <2>1. CASE a = op.id
      BY <1>2, <2>1
    <2>2. CASE a # op.id
      <3>1. op \notin Syncs(a) \cup Iocs(a) /\ Cared(a)
        BY <2>2, DueKinds DEF OwedInv
      <3> QED BY <1>2, <3>1, CaredStays
    <2> QED BY <2>1, <2>2
  <1>4. PICK Made : Made = Elems(ops)
    OBVIOUS
  <1>5. \A x \in Made : MayBeMade(x)
    BY <1>4 DEF MayBeMade
  <1> QED BY <1>2, <1>3, <1>4, <1>5, OwedStep

LEMMA OwedSync ==
    ASSUME OwedInv, OrderInv', NEW p \in Procs, Sync(p)
    PROVE  OwedInv'
  <1>1. PICK op, a : op = Head(todo[p]) /\ a = op.id
    OBVIOUS
  <1>2. /\ todo[p] # << >> /\ op.task = "sync" /\ a \in Alerts /\ lock[a] # p
        /\ << >> \in Seq(Op) /\ Elems(<< >>) = {} /\ Cared(a) /\ row[a] \in Nat
    BY <1>1, OwedHead DEF Sync, Tasks, OwedInv, OrderInv, IndexInv, ShapeOK
  <1>3. Seen(p, a) = row[a] /\ UNCHANGED <<rows, queue, doc>> /\ missed \subseteq missed'
    BY <1>1, <1>2 DEF Sync, Seen, Miss
  <1>4. op \notin Iocs(a)
    BY <1>2 DEF Iocs, Send, Do
  <1>5. CASE row[a] # 0 /\ up
    <2>1. PICK put, ops : put = Write("put", a, row[a]) /\ ops = <<put>>
      OBVIOUS
    <2>2. put \in Op /\ ops \in Seq(Op) /\ Elems(ops) = {put} /\ put.task = "put"
      BY <1>2, <2>1, WriteOp, ElemsOne DEF Write
    <2>3. Then(p, ops)
      BY <1>1, <1>3, <1>5, <2>1 DEF Sync
    <2>4. ASSUME Flight \ {op} \subseteq Flight', put \in Flight' PROVE Cared(a)'
      <3>1. SyncDue(a)'
        BY <1>3, <2>1, <2>4 DEF SyncDue, rows
      <3>2. IocsDue(a) => IocsDue(a)'
        BY <1>4, <2>4 DEF IocsDue, Iocs
      <3>3. a \notin missed' => a \notin missed
        BY <1>3
      <3> QED BY <1>2, <1>3, <3>1, <3>2, <3>3, CaredMoves
    <2> QED BY <1>1, <1>2, <1>3, <2>2, <2>3, <2>4, OwedTask
  <1>6. CASE ~(row[a] # 0 /\ up)
    <2>1. Then(p, << >>) /\ (row[a] = 0 \/ a \in missed')
      BY <1>1, <1>3, <1>6 DEF Sync, Miss
    <2>2. Cared(a)'
      BY <1>3, <2>1 DEF Cared, rows
    <2> QED BY <1>1, <1>2, <1>3, <2>1, <2>2, OwedTask
  <1> QED BY <1>5, <1>6

LEMMA OwedReadIocs ==
    ASSUME OwedInv, OrderInv', NEW p \in Procs, ReadIocs(p)
    PROVE  OwedInv'
  <1>1. PICK op, a, m : op = Head(todo[p]) /\ a = op.id /\ m = Do("saveIocs", a)
    OBVIOUS
  <1>2. /\ todo[p] # << >> /\ op.task = "iocs" /\ a \in Alerts /\ lock[a] # p
        /\ << >> \in Seq(Op) /\ Elems(<< >>) = {} /\ Cared(a)
    BY <1>1, OwedHead DEF ReadIocs, Tasks, OwedInv
  <1>3. Seen(p, a) = row[a] /\ UNCHANGED <<rows, queue, doc, missed>>
    BY <1>1, <1>2 DEF ReadIocs, Seen, history
  <1>5. CASE row[a] # 0
    <2>1. PICK ops : ops = <<m>>
      OBVIOUS
    <2>2. m \in Op /\ ops \in Seq(Op) /\ Elems(ops) = {m} /\ m.task = "saveIocs"
      BY <1>1, <1>2, <2>1, ElemsOne DEF Do, Op, Tasks, Pending
    <2>3. Then(p, ops)
      BY <1>1, <1>3, <1>5, <2>1 DEF ReadIocs
    <2>4. ASSUME Flight \ {op} \subseteq Flight', m \in Flight' PROVE Cared(a)'
      <3>1. IocsDue(a)'
        BY <1>1, <2>4 DEF IocsDue
      <3>2. op \notin Syncs(a)
        BY <1>2 DEF Syncs, Send, Do, Write
      <3>3. SyncDue(a) => SyncDue(a)'
        BY <1>3, <2>4, <3>2 DEF SyncDue, Syncs, rows
      <3> QED BY <1>2, <1>3, <3>1, <3>3, CaredMoves
    <2> QED BY <1>1, <1>2, <1>3, <2>2, <2>3, <2>4, OwedTask
  <1>6. CASE row[a] = 0
    <2>1. Then(p, << >>)
      BY <1>1, <1>3, <1>6 DEF ReadIocs
    <2>2. Cared(a)'
      BY <1>3, <1>6 DEF Cared, rows
    <2> QED BY <1>1, <1>2, <1>3, <2>1, <2>2, OwedTask
  <1> QED BY <1>5, <1>6

LEMMA OwedSaveIocs ==
    ASSUME OwedInv, OrderInv', NEW p \in Procs, SaveIocs(p)
    PROVE  OwedInv'
  <1>1. PICK op, a, m : op = Head(todo[p]) /\ a = op.id /\ m = Send("sync", a)
    OBVIOUS
  <1>2. /\ ShapeOK /\ p \in Workers /\ todo[p] # << >> /\ op.task = "saveIocs" /\ a \in Alerts
        /\ lock[a] # p /\ op \in Elems(todo[p]) /\ << >> \in Seq(Op) /\ Elems(<< >>) = {} /\ Cared(a)
    BY <1>1, OwedHead DEF SaveIocs, Pending, OwedInv
  <1>3. /\ Seen(p, a) = row[a] /\ UNCHANGED <<rows, queue, doc, missed>> /\ lock[a] = Nobody
    BY <1>1, <1>2 DEF SaveIocs, Seen, history
  <1>5. CASE row[a] # 0
    <2>1. PICK ops : ops = <<m>>
      OBVIOUS
    <2>2. m \in Op /\ ops \in Seq(Op) /\ Elems(ops) = {m} /\ m.task = "send" /\ m.what = "sync"
      BY <1>1, <1>2, <2>1, ElemsOne DEF Send, Op, Tasks, Pending
    <2>3. Then(p, ops)
      BY <1>1, <1>3, <1>5, <2>1 DEF SaveIocs, IocSignal
    <2>4. ASSUME m \in Flight' PROVE Cared(a)'
      <3>1. SyncDue(a)'
        BY <1>1, <2>4 DEF SyncDue
      <3> QED BY <1>2, <1>3, <3>1, CaredMoves
    <2> QED BY <1>1, <1>2, <1>3, <2>2, <2>3, <2>4, OwedTask
  <1>6. CASE row[a] = 0
    <2>1. todo' = [todo EXCEPT ![p] = << >>]
      BY <1>1, <1>3, <1>6 DEF SaveIocs
    <2>2. todo[p] \in Seq(Op) /\ Plan(todo[p])
      BY <1>2 DEF OwedInv, OrderInv, IndexInv, ShapeOK, Procs
    <2>3. Tail(todo[p]) = << >>
      BY <1>2, <2>2 DEF Plan
    <2>6. << >> \o Tail(todo[p]) = << >>
      BY <2>3
    <2>4. Then(p, << >>)
      BY <2>1, <2>6 DEF Then
    <2>5. Cared(a)'
      BY <1>3, <1>6 DEF Cared, rows
    <2> QED BY <1>1, <1>2, <1>3, <2>4, <2>5, OwedTask
  <1> QED BY <1>5, <1>6

LEMMA OwedRebuild ==
    ASSUME OwedInv, OrderInv', NEW p \in Procs, Rebuild(p)
    PROVE  OwedInv'
  <1> DEFINE live == {b \in Alerts : row[b] # 0}
  <1>1. PICK op : op = Head(todo[p])
    OBVIOUS
  <1>2. /\ todo[p] # << >> /\ op.task = "rebuild" /\ op.id \in Alerts /\ Cared(op.id)
        /\ << >> \in Seq(Op) /\ Elems(<< >>) = {} /\ UNCHANGED <<rows, queue, doc, missed>>
        /\ row \in [Alerts -> Nat]
    BY <1>1, OwedHead DEF Rebuild, Tasks, OwedInv, OrderInv, IndexInv, ShapeOK, history
  <1>3. op \notin Syncs(op.id) \cup Iocs(op.id)
    BY <1>2, DueKinds
  <1>4. Flight \ {op} \subseteq Flight' => Cared(op.id)'
    BY <1>2, <1>3, CaredStays
  <1>5. CASE Then(p, << >>)
    BY <1>1, <1>2, <1>4, <1>5, OwedTask
  <1>6. CASE ~Then(p, << >>)
    <2>1. PICK s \in Orders(live) : Then(p, [i \in DOMAIN s |-> Write("bulk", s[i], row[s[i]])])
      BY <1>6 DEF Rebuild
    <2>2. PICK ops : ops = [i \in DOMAIN s |-> Write("bulk", s[i], row[s[i]])]
      OBVIOUS
    <2>3. s \in [1 .. Cardinality(live) -> live] /\ Cardinality(live) \in Nat
      BY AlertsAssumption, FS_Subset, FS_CardinalityType DEF Orders
    <2>4. \A i \in DOMAIN s : Write("bulk", s[i], row[s[i]]) \in Op
      BY <1>2, <2>3, WriteOp
    <2>5. ops \in Seq(Op)
      BY <2>2, <2>3, <2>4
    <2>6. \A x \in Elems(ops) : x.task = "bulk"
      BY <2>2 DEF Elems, Write
    <2> QED BY <1>1, <1>2, <1>4, <2>1, <2>2, <2>5, <2>6, OwedTask
  <1> QED BY <1>5, <1>6

LEMMA OwedTake ==
    ASSUME OwedInv, OrderInv', NEW w \in Workers, Take(w)
    PROVE  OwedInv'
  <1>1. /\ UNCHANGED <<rows, doc, missed>> /\ todo[w] = << >> /\ w \in Procs
        /\ queue \in Seq(Op) /\ queue # << >> /\ queue' = Tail(queue)
    BY DEF Take, Idle, history, Procs, OwedInv, OrderInv, IndexInv, ShapeOK
  <1>2. Elems(queue) = {Head(queue)} \cup Elems(queue')
    BY <1>1, ElemsSplit
  <1>3. /\ \A q \in Procs \ {w} : todo'[q] = todo[q]
        /\ Elems(todo'[w]) = {Head(queue)} /\ Elems(todo[w]) = {}
    <2>1. todo'[w] = <<Head(queue)>> /\ \A q \in Procs \ {w} : todo'[q] = todo[q]
      BY <1>1 DEF Take, OwedInv, OrderInv, IndexInv, ShapeOK
    <2> QED BY <1>1, <2>1, ElemsOne, ElemsEmpty
  <1>4. Flight \subseteq Flight'
    <2> SUFFICES ASSUME NEW x \in Flight PROVE x \in Flight'
      OBVIOUS
    <2>1. CASE x \in Elems(queue)
      BY <1>1, <1>2, <1>3, <2>1 DEF Flight
    <2>2. ASSUME NEW q \in Procs, x \in Elems(todo[q]) PROVE x \in Flight'
      <3>1. todo'[q] = todo[q]
        BY <1>3, <2>2
      <3>2. Elems(todo'[q]) \subseteq Flight'
        BY DEF Flight
      <3> QED BY <2>2, <3>1, <3>2
    <2> QED BY <2>1, <2>2 DEF Flight
  <1>5. \A a \in Alerts : Cared(a)'
    BY <1>1, <1>4, CaredStays DEF OwedInv
  <1> QED BY <1>1, <1>2, <1>3, <1>5, OwedStep

LEMMA OwedDelete ==
    ASSUME OwedInv, OrderInv', NEW p \in Procs, Delete(p)
    PROVE  OwedInv'
  <1>1. PICK op : op = Head(todo[p])
    OBVIOUS
  <1>2. /\ ShapeOK /\ todo[p] # << >> /\ op.task = "delete" /\ op.id \in Alerts /\ op \in Flight
        /\ << >> \in Seq(Op) /\ Elems(<< >>) = {}
    BY <1>1, OwedHead DEF Delete, Tasks
  <1>3. /\ UNCHANGED <<rows, queue>> /\ Then(p, << >>) /\ missed \subseteq missed'
        /\ \A a \in Alerts : a # op.id => doc'[a] = doc[a]
    BY <1>1, <1>2 DEF Delete, Miss, ShapeOK
  <1>4. /\ \A q \in Procs \ {p} : todo'[q] = todo[q]
        /\ Elems(todo'[p]) \subseteq Elems(todo[p]) /\ Flight \ {op} \subseteq Flight'
    BY <1>1, <1>2, <1>3, FlightThen
  <1>5. op.id \in missed \/ Gone(op.id) \/ Deleting(op.id)
    BY <1>2 DEF OwedInv, DeletesKnown
  <1>6. ASSUME NEW a \in Alerts PROVE Cared(a)'
    <2>1. CASE a = op.id
      BY <1>3, <1>5, <2>1 DEF Cared, Gone, Deleting, rows
    <2>2. CASE a # op.id
      <3>1. op \notin Syncs(a) \cup Iocs(a) /\ Cared(a)
        BY <2>2, DueKinds DEF OwedInv
      <3> QED BY <1>3, <1>4, <2>2, <3>1, CaredStays
    <2> QED BY <2>1, <2>2
  <1>7. PICK Made : Made = {}
    OBVIOUS
  <1> QED BY <1>3, <1>4, <1>6, <1>7, OwedStep

\* A write of a document: the content it brings is that of the row, or the
\* alert has something else that cares for it.
LEMMA OwedPutTo ==
    ASSUME OwedInv, OrderInv', NEW p \in Procs, Next1(p, "put") \/ Next1(p, "bulk"),
           NEW op, op = Head(todo[p]), PutTo(p, op.id, op.ver), UNCHANGED <<rows, queue>>
    PROVE  OwedInv'
  <1>1. PICK a, v : a = op.id /\ v = op.ver
    OBVIOUS
  <1>2. /\ ShapeOK /\ p \in Workers /\ todo[p] # << >> /\ op.task \in {"put", "bulk"}
        /\ a \in Alerts /\ v \in Nat /\ op \in Elems(todo[p])
        /\ << >> \in Seq(Op) /\ Elems(<< >>) = {}
    BY <1>1, OwedHead DEF Pending
  <1>3. /\ doc' = [doc EXCEPT ![a] = v] /\ Then(p, << >>)
        /\ missed' = IF v = row[a] THEN IF Undisturbed(a) THEN missed \ {a} ELSE missed
                     ELSE IF a \in overtaken[p] THEN missed \cup {a} ELSE missed
    BY <1>1 DEF PutTo
  <1>4. /\ \A q \in Procs \ {p} : todo'[q] = todo[q]
        /\ Elems(todo'[p]) \subseteq Elems(todo[p]) /\ Flight \ {op} \subseteq Flight'
    BY <1>2, <1>3, FlightThen
  <1>5. op \notin Iocs(a)
    BY <1>2 DEF Iocs, Send, Do
  <1>6. IocsDue(a) => IocsDue(a)'
    BY <1>4, <1>5 DEF IocsDue, Iocs
  <1>7. Cared(a)'
    <2>t. /\ row[a] \in Nat /\ doc[a] \in Nat /\ doc'[a] = v /\ UNCHANGED <<row, lock, tx, committed>>
      BY <1>2, <1>3 DEF ShapeOK, rows
    <2> SUFFICES ASSUME a \notin missed', row[a] # 0, ~Deleting(a)
                 PROVE  /\ Caught(a)' \/ SyncDue(a)' \/ IocsDue(a)'
                        /\ lock[a] # Nobody => IocsDue(a)'
      BY <2>t DEF Cared, Deleting
    <2>1. CASE v = row[a]
      <3>1. Caught(a)'
        BY <2>t, <2>1 DEF Caught
      <3>2. lock[a] # Nobody => a \notin missed
        BY <1>3 DEF Undisturbed
      <3> QED BY <1>2, <1>6, <3>1, <3>2 DEF OwedInv, Cared
    <2>2. CASE v # row[a]
      <3>1. a \notin missed /\ a \notin overtaken[p]
        BY <1>3, <2>2
      <3>2. Timely(p, op) /\ op \in Work(committed)
        <4>1. todo[p] \in Seq(Work(committed))
          BY DEF OwedInv, OrderInv, IndexInv
        <4>2. op \in Work(committed)
          BY <1>2, <4>1, HeadTail
        <4> QED BY <1>2, <4>2 DEF OwedInv, OrderInv, IsWrite
      <3>3. v \in committed[a] /\ doc[a] <= v /\ v <= row[a]
        BY <1>1, <1>2, <3>1, <3>2 DEF Timely, Work
      <3>4. ~Caught(a)
        BY <1>2, <2>t, <2>2, <3>3 DEF Caught
      <3>5. op \notin Syncs(a)
        BY <1>1, <1>2, <2>2 DEF Syncs, Send, Do, Write
      <3>6. SyncDue(a) => SyncDue(a)'
        BY <1>4, <2>t, <3>5 DEF SyncDue, Syncs
      <3> QED BY <1>2, <1>6, <3>1, <3>4, <3>6 DEF OwedInv, Cared
    <2> QED BY <2>1, <2>2
  <1>8. ASSUME NEW b \in Alerts, b # a PROVE Cared(b)'
    <2>1. op \notin Syncs(b) \cup Iocs(b) /\ Cared(b)
      BY <1>1, <1>8, DueKinds DEF OwedInv
    <2>2. doc'[b] = doc[b] /\ (b \notin missed' => b \notin missed)
      BY <1>2, <1>3, <1>8 DEF ShapeOK
    <2> QED BY <1>4, <2>1, <2>2, CaredStays
  <1>9. ASSUME NEW x \in Flight, x.task = "delete", x.id \in missed PROVE x.id \in missed'
    <2>1. x = Do("delete", x.id)
      BY <1>9 DEF OwedInv, DeletesKnown
    <2>2. Undisturbed(a) => x # Do("delete", a)
      BY <1>9 DEF Undisturbed, Flight, Elems
    <2> QED BY <1>3, <1>9, <2>1, <2>2
  <1>10. \A b \in Alerts : Cared(b)'
    BY <1>7, <1>8
  <1>11. \A x \in Flight : x.task = "delete" /\ x.id \in missed => x.id \in missed'
    BY <1>9
  <1>12. PICK Made : Made = {}
    OBVIOUS
  <1> QED BY <1>4, <1>10, <1>11, <1>12, OwedStep

LEMMA OwedPut ==
    ASSUME OwedInv, OrderInv', NEW p \in Procs, Put(p) \/ BulkPut(p)
    PROVE  OwedInv'
  <1>1. PICK op : op = Head(todo[p])
    OBVIOUS
  <1>2. /\ ShapeOK /\ p \in Workers /\ todo[p] # << >> /\ op.task \in {"put", "bulk"}
        /\ op.id \in Alerts /\ op \in Elems(todo[p])
        /\ << >> \in Seq(Op) /\ Elems(<< >>) = {}
    BY <1>1, OwedHead DEF Pending, Put, BulkPut
  <1>3. UNCHANGED <<rows, queue>>
    BY DEF Put, BulkPut
  <1>4. CASE PutTo(p, op.id, op.ver)
    BY <1>1, <1>3, <1>4, OwedPutTo DEF Put, BulkPut
  <1>5. CASE Put(p) /\ ~PutTo(p, op.id, op.ver)
    <2>1. Then(p, << >>) /\ missed' = missed \cup {op.id} /\ UNCHANGED doc
      BY <1>1, <1>5 DEF Put, Miss
    <2>2. Cared(op.id)'
      BY <2>1 DEF Cared
    <2> QED BY <1>1, <1>2, <1>3, <2>1, <2>2, OwedTask
  <1>6. CASE BulkPut(p) /\ ~PutTo(p, op.id, op.ver)
    <2>1. todo' = [todo EXCEPT ![p] = << >>] /\ UNCHANGED <<doc, missed>> /\ op.task = "bulk"
      BY <1>1, <1>6 DEF BulkPut, Next1
    <2>2. \A x \in Elems(todo[p]) : x.task = "bulk"
      <3>1. Plan(todo[p]) /\ todo[p] \in Seq(Op)
        BY <1>2 DEF OwedInv, OrderInv, ShapeOK
      <3>2. Elems(todo[p]) = {op} \cup Elems(Tail(todo[p]))
        BY <1>1, <1>2, <3>1, ElemsSplit
      <3> QED BY <2>1, <3>1, <3>2, ElemsEmpty DEF Plan
    <2>3. /\ \A q \in Procs \ {p} : todo'[q] = todo[q]
          /\ Elems(todo'[p]) = {} /\ Flight \ Elems(todo[p]) \subseteq Flight'
      BY <1>2, <1>3, <2>1, FlightDrop
    <2>4. ASSUME NEW a \in Alerts PROVE Cared(a)'
      <3>1. (Syncs(a) \cup Iocs(a)) \cap Elems(todo[p]) = {}
        BY <2>2, DueKinds
      <3>2. (Syncs(a) \cup Iocs(a)) \cap Flight \subseteq Flight' /\ Cared(a)
        BY <2>3, <3>1 DEF OwedInv
      <3> QED BY <1>3, <2>1, <3>2, CaredStays
    <2> QED BY <1>3, <2>1, <2>3, <2>4, OwedStep
  <1> QED BY <1>4, <1>5, <1>6

\* What is left to check of a step of the database on one alert.
LEMMA OwedDb ==
    ASSUME OwedInv, OrderInv', NEW p \in Procs, NEW a \in Alerts, NEW ops \in Seq(Op),
           todo[p] = << >>, todo' = [todo EXCEPT ![p] = ops],
           UNCHANGED <<queue, doc>>, missed \subseteq missed',
           \A b \in Alerts \ {a} : /\ row'[b] = row[b] /\ last'[b] = last[b] /\ lock'[b] = lock[b]
                                   /\ tx'[b] = tx[b] /\ committed'[b] = committed[b],
           \A x \in Elems(ops) :
               x.task = "send" /\ x.id = a /\ (x.what = "delete" => lock'[a] = p /\ tx'[a] = 0),
           lock[a] \in {Nobody, p},
           \A x \in Flight : x.task = "delete" /\ x.id = a =>
               a \in missed' \/ Gone(a)' \/ Deleting(a)',
           History(a)',
           Flight \subseteq Flight' /\ Elems(ops) \subseteq Flight' => Cared(a)'
    PROVE  OwedInv'
  <1>1. /\ todo \in [Procs -> Seq(Op)] /\ todo'[p] = ops /\ Elems(todo[p]) = {}
        /\ \A q \in Procs \ {p} : todo'[q] = todo[q]
    BY ElemsEmpty DEF OwedInv, OrderInv, IndexInv, ShapeOK
  <1>2. Flight' = Flight \cup Elems(ops)
    <2>1. Elems(ops) \subseteq Flight'
      BY <1>1 DEF Flight
    <2>2. ASSUME NEW x \in Flight PROVE x \in Flight'
      <3>1. ASSUME NEW q \in Procs, x \in Elems(todo[q]) PROVE x \in Flight'
        <4>1. todo'[q] = todo[q]
          BY <1>1, <3>1
        <4>2. Elems(todo'[q]) \subseteq Flight'
          BY DEF Flight
        <4> QED BY <3>1, <4>1, <4>2
      <3> QED BY <3>1 DEF Flight
    <2>3. ASSUME NEW x \in Flight', x \notin Elems(ops) PROVE x \in Flight
      <3>1. ASSUME NEW q \in Procs, x \in Elems(todo'[q]) PROVE x \in Flight
        <4>1. todo'[q] = todo[q]
          BY <1>1, <2>3, <3>1
        <4> QED BY <3>1, <4>1 DEF Flight
      <3> QED BY <3>1 DEF Flight
    <2> QED BY <2>1, <2>2, <2>3
  <1>3. DeletesKnown'
    <2> SUFFICES ASSUME NEW x \in Flight', x.task = "delete"
                 PROVE  /\ x = Do("delete", x.id)
                        /\ x.id \in missed' \/ Gone(x.id)' \/ Deleting(x.id)'
      BY DEF DeletesKnown
    <2>1. x \in Flight
      BY <1>2
    <2>2. x = Do("delete", x.id) /\ (x.id \in missed \/ Gone(x.id) \/ Deleting(x.id))
      BY <2>1 DEF OwedInv, DeletesKnown
    <2>3. x.id \in Alerts
      <3>1. Elems(queue) \subseteq Op /\ \A q \in Procs : Elems(todo[q]) \subseteq Op
        BY <1>1, ElemsIn DEF OwedInv, OrderInv, IndexInv, ShapeOK
      <3>2. x \in Op
        BY <2>1, <3>1 DEF Flight
      <3> QED BY <3>2 DEF Op
    <2>4. CASE x.id = a
      BY <2>1, <2>2, <2>4
    <2>5. CASE x.id # a
      BY <2>2, <2>3, <2>5 DEF Gone, Deleting
    <2> QED BY <2>4, <2>5
  <1>4. SendersDelete'
    <2> SUFFICES ASSUME NEW q \in Procs, NEW x \in Elems(todo'[q]), x.task = "send",
                        x.what = "delete"
                 PROVE  lock'[x.id] = q /\ tx'[x.id] = 0
      BY DEF SendersDelete
    <2>1. CASE q = p
      BY <1>1, <2>1
    <2>2. CASE q # p
      <3>1. x \in Elems(todo[q]) /\ todo[q] \in Seq(Op)
        BY <1>1, <2>2
      <3>2. lock[x.id] = q /\ tx[x.id] = 0
        BY <3>1 DEF OwedInv, SendersDelete
      <3>3. x.id \in Alerts
        BY <3>1, ElemsIn DEF Op
      <3>4. q # Nobody
        BY ProcsAssumption DEF Procs
      <3> QED BY <2>2, <3>2, <3>3, <3>4
    <2> QED BY <2>1, <2>2
  <1>5. ASSUME NEW b \in Alerts PROVE History(b)' /\ Cared(b)'
    <2>1. CASE b = a
      BY <1>2, <2>1
    <2>2. CASE b # a
      <3>1. History(b) /\ Cared(b)
        BY DEF OwedInv
      <3>2. SyncDue(b) => SyncDue(b)'
        BY <1>2, <2>2 DEF SyncDue
      <3>3. IocsDue(b) => IocsDue(b)'
        BY <1>2 DEF IocsDue
      <3> QED BY <2>2, <3>1, <3>2, <3>3 DEF History, Cared, Caught, Deleting
    <2> QED BY <2>1, <2>2
  <1> QED BY <1>3, <1>4, <1>5 DEF OwedInv

\* Nobody who does not hold its row has the deletion of an alert to send.
LEMMA NoOtherDelete ==
    ASSUME OwedInv, NEW a, NEW p, lock[a] \in {Nobody, p}, NEW q \in Procs \ {p},
           NEW x \in Elems(todo[q]), x.task = "send", x.what = "delete"
    PROVE  x.id # a
  BY ProcsAssumption DEF OwedInv, SendersDelete, Procs

LEMMA OwedSave ==
    ASSUME OwedInv, OrderInv', NEW p \in Requests, NEW a \in Alerts, Save(p, a)
    PROVE  OwedInv'
  <1>1. PICK ops : ops = SaveSignal(a)
    OBVIOUS
  <1>2. /\ p \in Procs /\ ops \in Seq(Op) /\ Elems(ops) = {Send("sync", a), Send("iocs", a)}
    BY <1>1, SignalOps, ElemsTwo DEF SaveSignal, Procs
  <1>t. /\ row \in [Alerts -> Nat] /\ last \in [Alerts -> Nat] /\ committed \in [Alerts -> SUBSET Nat]
        /\ lock \in [Alerts -> Procs \cup {Nobody}] /\ History(a)
    BY DEF OwedInv, OrderInv, IndexInv, ShapeOK
  <1>3. /\ todo[p] = << >> /\ todo' = [todo EXCEPT ![p] = ops]
        /\ UNCHANGED <<queue, doc, missed, lock, tx>> /\ lock[a] = Nobody
        /\ row[a] # 0 \/ last[a] = 0
        /\ last' = [last EXCEPT ![a] = last[a] + 1] /\ row' = [row EXCEPT ![a] = last[a] + 1]
        /\ committed' = [committed EXCEPT ![a] = committed[a] \cup {last[a] + 1}]
    BY <1>1, <1>t DEF Save, Writable, Idle, history
  <1>4. History(a)'
    <2>1. committed'[a] \subseteq 1 .. last'[a]
      BY <1>t, <1>3 DEF History
    <2> QED BY <1>t, <1>3, <2>1 DEF History, Deleting
  <1>5. \A x \in Flight : x.task = "delete" /\ x.id = a => a \in missed
    BY <1>3 DEF OwedInv, DeletesKnown, Gone, Deleting
  <1>6. Elems(ops) \subseteq Flight' => Cared(a)'
    BY <1>2, <1>3 DEF Cared, SyncDue
  <1>7. \A x \in Elems(ops) : x.task = "send" /\ x.id = a /\ x.what # "delete"
    BY <1>2 DEF Send
  <1>8. \A b \in Alerts \ {a} : /\ row'[b] = row[b] /\ last'[b] = last[b] /\ lock'[b] = lock[b]
                                /\ tx'[b] = tx[b] /\ committed'[b] = committed[b]
    BY <1>t, <1>3
  <1> QED BY <1>2, <1>3, <1>4, <1>5, <1>6, <1>7, <1>8, OwedDb

LEMMA OwedOpen ==
    ASSUME OwedInv, OrderInv', NEW p \in Requests, NEW a \in Alerts,
           SaveInTransaction(p, a) \/ DeleteInTransaction(p, a)
    PROVE  OwedInv'
  <1>t. /\ row \in [Alerts -> Nat] /\ last \in [Alerts -> Nat] /\ tx \in [Alerts -> Nat]
        /\ lock \in [Alerts -> Procs \cup {Nobody}] /\ History(a) /\ Cared(a)
        /\ p # Nobody
    BY ProcsAssumption DEF OwedInv, OrderInv, IndexInv, ShapeOK, Procs
  <1>p. p \in Procs
    BY DEF Procs
  <1>1. /\ todo[p] = << >> /\ lock[a] = Nobody /\ lock' = [lock EXCEPT ![a] = p]
        /\ UNCHANGED <<queue, doc, missed, row, committed>>
    BY DEF SaveInTransaction, DeleteInTransaction, Writable, Idle, history
  <1>2. CASE SaveInTransaction(p, a)
    <2>1. PICK ops : ops = SaveSignal(a)
      OBVIOUS
    <2>2. /\ ops \in Seq(Op) /\ Elems(ops) = {Send("sync", a), Send("iocs", a)}
      BY <2>1, SignalOps, ElemsTwo DEF SaveSignal
    <2>3. /\ todo' = [todo EXCEPT ![p] = ops]
          /\ row[a] # 0 \/ last[a] = 0
          /\ last' = [last EXCEPT ![a] = last[a] + 1] /\ tx' = [tx EXCEPT ![a] = last[a] + 1]
      BY <1>t, <1>2, <2>1 DEF SaveInTransaction, Writable
    <2>4. History(a)'
      <3>1. committed[a] \subseteq 1 .. last'[a] /\ (row[a] = 0 => committed[a] = {})
        BY <1>t, <2>3 DEF History
      <3> QED BY <1>t, <1>1, <2>3, <3>1 DEF History, Deleting
    <2>5. \A x \in Flight : x.task = "delete" /\ x.id = a => a \in missed
      BY <1>1, <2>3 DEF OwedInv, DeletesKnown, Gone, Deleting
    <2>6. Flight \subseteq Flight' /\ Elems(ops) \subseteq Flight' => Cared(a)'
      <3> SUFFICES ASSUME Flight \subseteq Flight', Elems(ops) \subseteq Flight' PROVE Cared(a)'
        OBVIOUS
      <3>1. IocsDue(a)'
        BY <2>2 DEF IocsDue
      <3> QED BY <3>1 DEF Cared
    <2>7. \A x \in Elems(ops) : x.task = "send" /\ x.id = a /\ x.what # "delete"
      BY <2>2 DEF Send
    <2>8. \A b \in Alerts \ {a} : /\ row'[b] = row[b] /\ last'[b] = last[b] /\ lock'[b] = lock[b]
                                  /\ tx'[b] = tx[b] /\ committed'[b] = committed[b]
      BY <1>t, <1>1, <2>3
    <2>9. /\ todo[p] = << >> /\ todo' = [todo EXCEPT ![p] = ops] /\ lock[a] \in {Nobody, p}
          /\ UNCHANGED <<queue, doc, missed>>
      BY <1>1, <2>3
    <2> QED BY <1>p, <2>2, <2>4, <2>5, <2>6, <2>7, <2>8, <2>9, OwedDb
  <1>3. CASE DeleteInTransaction(p, a)
    <2>1. PICK ops : ops = <<Send("delete", a)>>
      OBVIOUS
    <2>2. /\ ops \in Seq(Op) /\ Elems(ops) = {Send("delete", a)}
      BY <2>1, SignalOps, ElemsOne
    <2>3. /\ todo' = [todo EXCEPT ![p] = ops] /\ row[a] # 0 /\ last' = last
          /\ tx' = [tx EXCEPT ![a] = 0]
      BY <1>3, <2>1 DEF DeleteInTransaction
    <2>4. lock'[a] = p /\ tx'[a] = 0 /\ Deleting(a)'
      BY <1>t, <1>p, <1>1, <2>3 DEF Deleting
    <2>5. History(a)' /\ Cared(a)'
      BY <1>t, <1>1, <2>3, <2>4 DEF History, Cared
    <2>7. \A x \in Elems(ops) : x.task = "send" /\ x.id = a
      BY <2>2 DEF Send
    <2>8. \A b \in Alerts \ {a} : /\ row'[b] = row[b] /\ last'[b] = last[b] /\ lock'[b] = lock[b]
                                  /\ tx'[b] = tx[b] /\ committed'[b] = committed[b]
      BY <1>t, <1>1, <2>3
    <2>9. /\ todo[p] = << >> /\ todo' = [todo EXCEPT ![p] = ops] /\ lock[a] \in {Nobody, p}
          /\ UNCHANGED <<queue, doc, missed>>
      BY <1>1, <2>3
    <2> QED BY <1>p, <2>2, <2>4, <2>5, <2>7, <2>8, <2>9, OwedDb
  <1> QED BY <1>2, <1>3

LEMMA OwedClose ==
    ASSUME OwedInv, OrderInv', NEW p \in Procs, NEW a \in Alerts, Commit(p, a) \/ Rollback(p, a)
    PROVE  OwedInv'
  <1>t. /\ row \in [Alerts -> Nat] /\ last \in [Alerts -> Nat] /\ tx \in [Alerts -> Nat]
        /\ doc \in [Alerts -> Nat] /\ committed \in [Alerts -> SUBSET Nat]
        /\ lock \in [Alerts -> Procs \cup {Nobody}] /\ History(a) /\ Cared(a) /\ Ages(a)
        /\ todo \in [Procs -> Seq(Op)] /\ p # Nobody /\ (doc[a] # 0 => doc[a] \in committed[a])
    BY ProcsAssumption DEF OwedInv, OrderInv, IndexInv, ShapeOK, Procs, DocsCommitted
  <1>1. /\ todo[p] = << >> /\ lock[a] = p /\ lock' = [lock EXCEPT ![a] = Nobody]
        /\ tx' = [tx EXCEPT ![a] = 0] /\ UNCHANGED <<last, queue, todo, doc>>
        /\ missed \subseteq missed'
    BY DEF Commit, Rollback, Miss, history
  <1>2. /\ << >> \in Seq(Op) /\ Elems(<< >>) = {} /\ todo' = [todo EXCEPT ![p] = << >>]
    BY <1>t, <1>1, ElemsEmpty
  <1>3. Flight \subseteq Flight' => (SyncDue(a) /\ row'[a] = row[a] => SyncDue(a)') /\ (IocsDue(a) => IocsDue(a)')
    BY DEF SyncDue, IocsDue
  <1>4. CASE Rollback(p, a)
    <2>1. UNCHANGED <<row, committed>> /\ (tx[a] = 0 => a \in missed')
      BY <1>4 DEF Rollback, Miss
    <2>2. History(a)'
      BY <1>t, <1>1, <2>1 DEF History, Deleting
    <2>3. Flight \subseteq Flight' => Cared(a)'
      BY <1>t, <1>1, <1>3, <2>1 DEF Cared, Deleting, Caught
    <2>4. \A x \in Flight : x.task = "delete" /\ x.id = a => a \in missed'
      BY <1>t, <1>1, <2>1 DEF OwedInv, DeletesKnown, Gone, Deleting
    <2>5. \A b \in Alerts \ {a} : /\ row'[b] = row[b] /\ last'[b] = last[b] /\ lock'[b] = lock[b]
                                  /\ tx'[b] = tx[b] /\ committed'[b] = committed[b]
      BY <1>t, <1>1, <2>1
    <2> QED BY <1>1, <1>2, <2>2, <2>3, <2>4, <2>5, OwedDb
  <1>5. CASE Commit(p, a)
    <2>1. /\ row' = [row EXCEPT ![a] = tx[a]]
          /\ committed' = [committed EXCEPT ![a] = IF tx[a] = 0 THEN committed[a]
                                                   ELSE committed[a] \cup {tx[a]}]
      BY <1>5 DEF Commit
    <2>5. \A b \in Alerts \ {a} : /\ row'[b] = row[b] /\ last'[b] = last[b] /\ lock'[b] = lock[b]
                                  /\ tx'[b] = tx[b] /\ committed'[b] = committed[b]
      BY <1>t, <1>1, <2>1
    <2>6. CASE tx[a] = 0
      <3>1. row[a] # 0 /\ row'[a] = 0 /\ committed'[a] = committed[a] /\ lock'[a] = Nobody
        BY <1>t, <1>1, <2>1, <2>6 DEF History, Deleting
      <3>2. last'[a] # 0
        BY <1>t, <1>1, <3>1 DEF Ages
      <3>3. History(a)' /\ Cared(a)' /\ Gone(a)'
        BY <1>t, <1>1, <3>1, <3>2 DEF History, Cared, Gone, Deleting
      <3> QED BY <1>1, <1>2, <2>5, <3>3, OwedDb
    <2>7. CASE tx[a] # 0
      <3>1. /\ tx[a] = last[a] /\ row'[a] = last[a] /\ lock'[a] = Nobody
            /\ committed'[a] = committed[a] \cup {last[a]}
        BY <1>t, <1>1, <2>1, <2>7 DEF Ages
      <3>2. History(a)'
        <4>1. committed'[a] \subseteq 1 .. last'[a]
          BY <1>t, <1>1, <2>7, <3>1 DEF History
        <4> QED BY <3>1, <4>1 DEF History, Deleting
      <3>3. \A x \in Flight : x.task = "delete" /\ x.id = a => a \in missed
        BY <1>t, <1>1, <2>7 DEF OwedInv, DeletesKnown, Gone, Deleting
      <3>4. Flight \subseteq Flight' => Cared(a)'
        <4>1. CASE row[a] = 0
          <5>1. committed'[a] = {last[a]} /\ doc[a] = 0
            BY <1>t, <1>1, <3>1, <4>1 DEF History
          <5> QED BY <1>1, <3>1, <5>1 DEF Cared, Caught
        <4>2. CASE row[a] # 0
          <5>1. a \notin missed => IocsDue(a)
            BY <1>t, <1>1, <2>7, <4>2 DEF Cared, Deleting
          <5> QED BY <1>1, <1>3, <3>1, <5>1 DEF Cared
        <4> QED BY <4>1, <4>2
      <3> QED BY <1>1, <1>2, <2>5, <3>2, <3>3, <3>4, OwedDb
    <2> QED BY <2>6, <2>7
  <1> QED BY <1>4, <1>5

LEMMA OwedCrash ==
    ASSUME OwedInv, OrderInv', NEW p \in Procs, Crash(p)
    PROVE  OwedInv'
  <1>t. /\ todo \in [Procs -> Seq(Op)] /\ ShapeOK /\ p # Nobody
    BY ProcsAssumption DEF OwedInv, OrderInv, IndexInv, ShapeOK, Procs
  <1>1. /\ todo' = [todo EXCEPT ![p] = << >>] /\ UNCHANGED <<row, last, committed, queue, doc>>
        /\ \A a \in Alerts : lock[a] = p => lock'[a] = Nobody /\ a \in missed'
        /\ \A a \in Alerts : lock[a] # p => lock'[a] = lock[a] /\ tx'[a] = tx[a]
        /\ missed \subseteq missed'
    BY DEF Crash, Miss
  <1>2. /\ \A q \in Procs \ {p} : todo'[q] = todo[q]
        /\ Elems(todo'[p]) = {} /\ Flight \ Elems(todo[p]) \subseteq Flight'
    BY <1>t, <1>1, FlightDrop
  <1>3. \A x \in Elems(todo[p]) : x.id \in missed' /\ x.id \in Alerts
    <2>1. \A x \in Elems(todo[p]) : x.id \in missed'
      BY DEF Crash, Miss, Elems
    <2>2. Elems(todo[p]) \subseteq Op
      BY <1>t, ElemsIn
    <2> QED BY <2>1, <2>2 DEF Op
  <1>4. Flight' \subseteq Flight
    <2>1. ASSUME NEW x \in Flight', NEW q \in Procs, x \in Elems(todo'[q]) PROVE x \in Flight
      <3>1. q # p /\ todo'[q] = todo[q]
        BY <1>2, <2>1
      <3> QED BY <2>1, <3>1 DEF Flight
    <2> QED BY <1>1, <2>1 DEF Flight
  <1>5. Flight \subseteq Op
    <2>1. Elems(queue) \subseteq Op /\ \A q \in Procs : Elems(todo[q]) \subseteq Op
      BY <1>t, ElemsIn DEF ShapeOK
    <2> QED BY <2>1 DEF Flight
  <1>6. DeletesKnown'
    <2> SUFFICES ASSUME NEW x \in Flight', x.task = "delete"
                 PROVE  /\ x = Do("delete", x.id)
                        /\ x.id \in missed' \/ Gone(x.id)' \/ Deleting(x.id)'
      BY DEF DeletesKnown
    <2>1. /\ x = Do("delete", x.id) /\ x.id \in Alerts
          /\ x.id \in missed \/ Gone(x.id) \/ Deleting(x.id)
      BY <1>4, <1>5 DEF OwedInv, DeletesKnown, Op
    <2> QED BY <1>t, <1>1, <2>1 DEF Gone, Deleting
  <1>7. SendersDelete'
    <2> SUFFICES ASSUME NEW q \in Procs, NEW x \in Elems(todo'[q]), x.task = "send",
                        x.what = "delete"
                 PROVE  lock'[x.id] = q /\ tx'[x.id] = 0
      BY DEF SendersDelete
    <2>1. q # p /\ x \in Elems(todo[q]) /\ x \in Op
      BY <1>t, <1>2, ElemsIn
    <2> QED BY <1>1, <2>1 DEF OwedInv, SendersDelete, Op
  <1>8. ASSUME NEW a \in Alerts PROVE History(a)' /\ Cared(a)'
    <2>1. History(a) /\ Cared(a)
      BY DEF OwedInv
    <2>2. CASE lock[a] = p
      BY <1>1, <2>1, <2>2 DEF History, Cared, Deleting
    <2>3. CASE lock[a] # p
      <3>1. History(a)'
        BY <1>1, <2>1, <2>3 DEF History, Deleting
      <3>2. CASE a \in missed'
        BY <3>1, <3>2 DEF Cared
      <3>3. CASE a \notin missed'
        <4>1. (Syncs(a) \cup Iocs(a)) \cap Elems(todo[p]) = {}
          BY <1>3, <3>3, DueKinds
        <4>2. (SyncDue(a) => SyncDue(a)') /\ (IocsDue(a) => IocsDue(a)')
          BY <1>1, <1>2, <4>1 DEF SyncDue, IocsDue, Syncs, Iocs
        <4> QED BY <1>1, <2>1, <2>3, <3>1, <3>3, <4>2 DEF Cared, Deleting, Caught
      <3> QED BY <3>2, <3>3
    <2> QED BY <2>2, <2>3
  <1> QED BY <1>6, <1>7, <1>8 DEF OwedInv

LEMMA OwedFault ==
    ASSUME OwedInv, OrderInv', SendRebuild \/ IndexFails \/ IndexRecovers
    PROVE  OwedInv'
  <1>1. UNCHANGED <<rows, todo, doc, missed>>
    BY DEF SendRebuild, IndexFails, IndexRecovers, history
  <1>2. PICK m : queue' = queue \/ (queue' = Append(queue, m) /\ m \in Op /\ m.task = "rebuild")
    <2>1. \A a \in Alerts : Do("rebuild", a) \in Op /\ Do("rebuild", a).task = "rebuild"
      BY DEF Do, Op, Tasks
    <2> QED BY <2>1 DEF SendRebuild, IndexFails, IndexRecovers
  <1>3. PICK Made : Made = IF queue' = queue THEN {} ELSE {m}
    OBVIOUS
  <1>4. Elems(queue') = Elems(queue) \cup Made
    <2>1. queue \in Seq(Op)
      BY DEF OwedInv, OrderInv, IndexInv, ShapeOK
    <2>2. CASE queue' = queue
      BY <1>3, <2>2
    <2>3. CASE queue' # queue
      <3>1. queue' = Append(queue, m) /\ m \in Op /\ Made = {m}
        BY <1>2, <1>3, <2>3
      <3> QED BY <2>1, <3>1, ElemsAppend
    <2> QED BY <2>2, <2>3
  <1>5. Flight \subseteq Flight'
    BY <1>1, <1>4 DEF Flight
  <1>6. \A a \in Alerts : Cared(a)'
    BY <1>1, <1>5, CaredStays DEF OwedInv
  <1>7. \A op \in Made : MayBeMade(op)
    BY <1>2, <1>3 DEF MayBeMade
  <1> QED BY <1>1, <1>4, <1>6, <1>7, OwedStep

LEMMA OwedNext ==
    ASSUME ~refused', OwedInv, [Next]_vars
    PROVE  OwedInv'
  <1>0. OrderInv'
    BY OrderStep DEF OwedInv
  <1>1. ASSUME NEW p \in Procs, Step(p) PROVE OwedInv'
    BY <1>0, <1>1, OwedSend, OwedSync, OwedPut, OwedDelete, OwedReadIocs, OwedSaveIocs, OwedRebuild,
       OwedClose DEF Step
  <1>2. ASSUME NEW p \in Procs, RunInline(p) PROVE FALSE
    BY <1>2 DEF RunInline
  <1>3. ASSUME NEW v \in Workers, Take(v) PROVE OwedInv'
    BY <1>0, <1>3, OwedTake
  <1>4. ASSUME Else PROVE OwedInv'
    BY <1>0, <1>4, OwedSave, OwedOpen, OwedCrash, OwedFault DEF Else
  <1>5. CASE UNCHANGED vars
    <2>1. UNCHANGED <<row, last, lock, tx, committed, queue, todo, doc, missed>>
      BY <1>5 DEF vars, rows, history
    <2>2. Flight' = Flight
      BY <2>1 DEF Flight
    <2>3. DeletesKnown' /\ SendersDelete'
      BY <2>1, <2>2 DEF OwedInv, DeletesKnown, SendersDelete, Gone, Deleting
    <2>4. \A a \in Alerts : History(a)' /\ Cared(a)'
      BY <2>1, <2>2 DEF OwedInv, History, Cared, Deleting, Caught, SyncDue, IocsDue
    <2> QED BY <1>0, <2>3, <2>4 DEF OwedInv
  <1> QED BY <1>1, <1>2, <1>3, <1>4, <1>5 DEF Next, Works

LEMMA OwedInit == Init => OwedInv
  <1> SUFFICES ASSUME Init PROVE OwedInv
    OBVIOUS
  <1>1. Elems(queue) = {} /\ \A p \in Procs : Elems(todo[p]) = {}
    BY ElemsEmpty DEF Init
  <1>2. SendersDelete /\ DeletesKnown
    BY <1>1 DEF SendersDelete, DeletesKnown, Flight
  <1>3. \A a \in Alerts : History(a) /\ Cared(a)
    BY DEF Init, History, Cared, Deleting
  <1> QED BY <1>2, <1>3, OrderInit DEF OwedInv

\* StaleOnlyIfNew: when the work is done, the index has every alert that met
\* no failure, no undone deletion and no overtaken worker, except one whose
\* tasks ran before its insertion was committed and that was never written again.
THEOREM OnlyNewIsStale == Spec => []StaleOnlyIfNew
  <1> DEFINE Inv == ~refused => OwedInv
  <1>1. Init => Inv
    BY OwedInit
  <1>2. Inv /\ [Next]_vars => Inv'
    BY OwedNext, RefusedStays
  <1>3. Inv => StaleOnlyIfNew
    <2> SUFFICES ASSUME OwedInv, Settled, NEW a \in Alerts \ missed, row[a] # 0
                 PROVE  Caught(a)
      BY DEF StaleOnlyIfNew, Caught
    <2>1. Elems(queue) = {} /\ \A p \in Procs : Elems(todo[p]) = {}
      BY ElemsEmpty DEF Settled, Idle
    <2>2. Flight = {}
      BY <2>1 DEF Flight
    <2>3. lock[a] = Nobody
      BY DEF Settled, Idle, OwedInv, OrderInv, IndexInv, ShapeOK
    <2> QED BY <2>2, <2>3 DEF OwedInv, Cared, Deleting, SyncDue, IocsDue
  <1> QED BY <1>1, <1>2, <1>3, PTL DEF Spec
=============================================================================
