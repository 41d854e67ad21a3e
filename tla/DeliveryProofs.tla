--------------------------- MODULE DeliveryProofs ---------------------------
(***************************************************************************)
(* For any orders, cards, workers, operators and faults: the content of an *)
(* order was handed to the connection for that order, its consumptions     *)
(* tell what was sold, the stock of a card counts its free lines, and no   *)
(* code reaches two buyers, but for what the takers of a code, or a take   *)
(* and a restock, do to one another.                                       *)
(*                                                                         *)
(* The argument for the content: between the send and the record the       *)
(* outcome lives in the memory of one process, which may die but cannot be *)
(* mistaken (InMemory); everything else that writes orders leaves their    *)
(* content alone.  The other invariants rest on the types of the rows and  *)
(* of what the processes remember of them (StoreInv).                      *)
(*                                                                         *)
(* After them, the mirrors of items and orders.                            *)
(***************************************************************************)
EXTENDS Delivery, Catalog, FiniteSetTheorems, SequenceTheorems, WellFoundedInduction, TLAPS

Procs == Workers \cup Hands \cup {Redo}

\* A process about to record a success has handed the code to the connection.
InMemory ==
  \A p \in Procs : At(p, "record") /\ job[p].ok => <<job[p].who, job[p].code>> \in sent

DeliveryInv ==
  /\ DOMAIN job = Procs /\ DOMAIN content = Orders
  /\ InMemory /\ ContentWasSent

\* A process goes anywhere but to the record, and no content changes.
LEMMA GoesElsewhere ==
  ASSUME DeliveryInv, NEW p, NEW j, j.pc # "record", Goes(p, j), UNCHANGED <<content, sent>>
  PROVE  DeliveryInv'
BY DEF DeliveryInv, Goes, InMemory, ContentWasSent, At

\* Nothing moves that the invariant speaks of.
LEMMA StaysPut ==
  ASSUME DeliveryInv, UNCHANGED <<job, content, sent>>
  PROVE  DeliveryInv'
BY DEF DeliveryInv, InMemory, ContentWasSent, At

LEMMA SendKeeps ==
  ASSUME DeliveryInv, NEW p \in Workers \cup {Redo}, Send(p)
  PROVE  DeliveryInv'
<1>1. PICK ok \in BOOLEAN, out \in BOOLEAN :
        /\ ok => out
        /\ sent' = IF out THEN sent \cup {<<job[p].who, job[p].code>>} ELSE sent
        /\ Goes(p, [pc |-> "record", who |-> job[p].who, code |-> job[p].code, ok |-> ok])
  BY DEF Send
<1>2. UNCHANGED content BY DEF Send, orderRows
<1>3. sent \subseteq sent' BY <1>1
<1>4. ContentWasSent' BY <1>2, <1>3 DEF DeliveryInv, ContentWasSent
<1>5. DOMAIN job' = Procs /\ p \in Procs BY <1>1 DEF DeliveryInv, Goes, Procs
<1>6. ASSUME NEW q \in Procs, q # p PROVE job'[q] = job[q]
  BY <1>1, <1>6 DEF DeliveryInv, Goes
<1>7. job'[p] = [pc |-> "record", who |-> job[p].who, code |-> job[p].code, ok |-> ok]
  BY <1>1, <1>5 DEF DeliveryInv, Goes
<1>8. job'[p].ok => <<job'[p].who, job'[p].code>> \in sent' BY <1>1, <1>7
<1>9. InMemory' BY <1>3, <1>6, <1>8 DEF DeliveryInv, InMemory, At
<1> QED BY <1>2, <1>4, <1>5, <1>9 DEF DeliveryInv

LEMMA RecordKeeps ==
  ASSUME DeliveryInv, NEW p \in Workers \cup {Redo}, Record(p)
  PROVE  DeliveryInv'
<1>1. UNCHANGED sent /\ Goes(p, Idle) BY DEF Record, history, races
<1>2. DOMAIN content' = Orders BY DEF Record, RecordOutcome, DeliveryInv
<1>3. ASSUME NEW o \in Orders
      PROVE  content'[o] = content[o] \/ (o = job[p].who /\ job[p].ok /\ content'[o] = job[p].code)
  BY DEF Record, RecordOutcome, DeliveryInv
<1>4. job[p].ok => <<job[p].who, job[p].code>> \in sent
  BY DEF Record, DeliveryInv, InMemory, Procs
<1>5. ContentWasSent' BY <1>1, <1>3, <1>4 DEF DeliveryInv, ContentWasSent
<1>6. Idle.pc # "record" BY DEF Idle
<1>7. DOMAIN job' = Procs /\ InMemory' BY <1>1, <1>6 DEF DeliveryInv, InMemory, Goes, At
<1> QED BY <1>2, <1>5, <1>7 DEF DeliveryInv

\* Every other step of a worker or an operator.
LEMMA WorkerKeeps ==
  ASSUME DeliveryInv, WorkerNext
  PROVE  DeliveryInv'
<1> USE DEF orderRows, stockRows, history, races, bounds
<1>1. ASSUME NEW w \in Workers, NEW o \in Orders, OrderCreated(w, o) \/ OrderDelivered(w, o)
      PROVE  DeliveryInv'
  BY <1>1, StaysPut DEF OrderCreated, OrderDelivered
<1>2. ASSUME NEW w \in Workers, NEW o \in Orders, NEW ov \in BOOLEAN, OrderPaid(w, o, ov)
      PROVE  DeliveryInv'
  BY <1>2, GoesElsewhere DEF OrderPaid
<1>3. ASSUME NEW w \in Workers, Deliver(w) PROVE DeliveryInv'
  <2> DEFINE j == IF job[w].over THEN Idle ELSE [pc |-> "pick", who |-> job[w].who]
  <2>1. j.pc # "record" BY DEF Idle
  <2>2. Goes(w, j) /\ UNCHANGED <<content, sent>> BY <1>3 DEF Deliver
  <2> QED BY <2>1, <2>2, GoesElsewhere
<1>4. ASSUME NEW w \in Workers, PickCard(w) PROVE DeliveryInv'
  <2> DEFINE S == {c \in Cards : Stocked(c)}
             j == IF S = {} THEN Idle ELSE [pc |-> "read", who |-> job[w].who, c |-> Least(S)]
  <2>1. j.pc # "record" BY DEF Idle
  <2>2. Goes(w, j) /\ UNCHANGED <<content, sent>> BY <1>4 DEF PickCard
  <2> QED BY <2>1, <2>2, GoesElsewhere
<1>5. ASSUME NEW w \in Workers, Connect(w) \/ Disconnect(w) PROVE DeliveryInv'
  BY <1>5, StaysPut DEF Connect, Disconnect
<1>6. ASSUME NEW p \in Workers \cup Hands, ReadCard(p) PROVE DeliveryInv'
  <2> DEFINE c == job[p].c
             j == IF Stocked(c) /\ cards[c].lines # <<>>
                  THEN [pc |-> "choose", who |-> job[p].who, c |-> c, lines |-> cards[c].lines]
                  ELSE Idle
  <2>1. j.pc # "record" BY DEF Idle
  <2>2. Goes(p, j) /\ UNCHANGED <<content, sent>> BY <1>6 DEF ReadCard
  <2> QED BY <2>1, <2>2, GoesElsewhere
<1>7. ASSUME NEW p \in Workers \cup Hands, ChooseCode(p) PROVE DeliveryInv'
  <2> DEFINE code == Choice(job[p].c, job[p].lines)
             j == IF code = NoCode THEN Idle
                  ELSE [pc |-> "take", who |-> job[p].who, c |-> job[p].c, code |-> code]
  <2>1. j.pc # "record" BY DEF Idle
  <2>2. Goes(p, j) /\ UNCHANGED <<content, sent>> BY <1>7 DEF ChooseCode
  <2> QED BY <2>1, <2>2, GoesElsewhere
<1>8. ASSUME NEW p \in Workers \cup Hands, TakeCode(p) PROVE DeliveryInv'
  <2>1. UNCHANGED <<content, sent>> BY <1>8 DEF TakeCode
  <2>2. \/ Goes(p, Idle)
        \/ Goes(p, [pc |-> "send", who |-> job[p].who, code |-> job[p].code])
    BY <1>8 DEF TakeCode
  <2>3. Idle.pc # "record" /\ [pc |-> "send", who |-> job[p].who, code |-> job[p].code].pc # "record"
    BY DEF Idle
  <2> QED BY <2>1, <2>2, <2>3, GoesElsewhere
<1>9. ASSUME Die PROVE DeliveryInv'
  <2>1. /\ job' = [p \in Procs |-> IF p \in Workers THEN Idle ELSE job[p]]
        /\ UNCHANGED <<content, sent>>
    BY <1>9 DEF Die, DeliveryInv
  <2>2. Idle.pc # "record" BY DEF Idle
  <2> QED BY <2>1, <2>2 DEF DeliveryInv, InMemory, ContentWasSent, At
<1> QED
  BY <1>1, <1>2, <1>3, <1>4, <1>5, <1>6, <1>7, <1>8, <1>9, SendKeeps, RecordKeeps DEF WorkerNext

LEMMA CommandKeeps ==
  ASSUME DeliveryInv, CommandNext
  PROVE  DeliveryInv'
<1> USE DEF orderRows, stockRows, history, races, bounds
<1>1. ASSUME NEW o \in Orders, Redeliver(o) PROVE DeliveryInv'
  BY <1>1, GoesElsewhere DEF Redeliver
<1>6. ASSUME ConnectRedo PROVE DeliveryInv'
  <2>1. Idle.pc # "record" /\ [job[Redo] EXCEPT !.pc = "retry"].pc # "record"
    BY <1>6 DEF Idle, ConnectRedo, At
  <2>2. Goes(Redo, [job[Redo] EXCEPT !.pc = "retry"]) \/ Goes(Redo, Idle) BY <1>6 DEF ConnectRedo
  <2>3. UNCHANGED <<content, sent>> BY <1>6 DEF ConnectRedo
  <2> QED BY <2>1, <2>2, <2>3, GoesElsewhere
<1>7. ASSUME Retry PROVE DeliveryInv'
  <2> DEFINE o == job[Redo].who
             j == [pc |-> "send", who |-> o, code |-> cons[Least(Failed(o))].code]
  <2>1. Idle.pc # "record" /\ j.pc # "record" BY DEF Idle
  <2>2. Goes(Redo, j) \/ Goes(Redo, Idle) BY <1>7 DEF Retry
  <2>3. UNCHANGED <<content, sent>> BY <1>7 DEF Retry
  <2> QED BY <2>1, <2>2, <2>3, GoesElsewhere
<1>2. ASSUME NEW o \in Orders, NEW st, NEW ov, Sync(o, st, ov) PROVE DeliveryInv'
  BY <1>2, StaysPut DEF Sync
<1>3. ASSUME NEW c \in Cards, RestockReads(c) \/ SetEnabled(c) \/ DeleteCard(c) PROVE DeliveryInv'
  BY <1>3, StaysPut DEF RestockReads, SetEnabled, DeleteCard
<1>4. ASSUME NEW c \in Cards, NEW h \in Hands, Consume(h, c) PROVE DeliveryInv'
  BY <1>4, GoesElsewhere DEF Consume
<1>5. ASSUME RestockWrites PROVE DeliveryInv'
  BY <1>5, StaysPut DEF RestockWrites
<1> QED BY <1>1, <1>2, <1>3, <1>4, <1>5, <1>6, <1>7 DEF CommandNext

\* The inductive invariant of every behaviour.
THEOREM DeliveryInvariant == Spec => []DeliveryInv
<1>1. Init => DeliveryInv
  BY DEF Init, DeliveryInv, InMemory, ContentWasSent, At, Idle, Procs
<1>2. DeliveryInv /\ [Next]_vars => DeliveryInv'
  <2> SUFFICES ASSUME DeliveryInv, [Next]_vars PROVE DeliveryInv' OBVIOUS
  <2>1. CASE WorkerNext BY <2>1, WorkerKeeps
  <2>2. CASE CommandNext BY <2>2, CommandKeeps
  <2>3. CASE UNCHANGED vars BY <2>3, StaysPut DEF vars, orderRows, history, races
  <2> QED BY <2>1, <2>2, <2>3 DEF Next
<1> QED BY <1>1, <1>2, PTL DEF Spec

\* An order's recorded content was handed to the connection for that order,
\* whatever dies, repeats, or fails in between.
THEOREM ContentIsHonest == Spec => []ContentWasSent
<1>1. DeliveryInv => ContentWasSent BY DEF DeliveryInv
<1> QED BY <1>1, DeliveryInvariant, PTL

-----------------------------------------------------------------------------
(* The rows, and what the processes remember of them.                      *)

CodesOf(c) == Range(Stock[c]) \cup Refill[c]

\* What process p may be in the middle of.
Sound(p, j) ==
  /\ j.pc # "idle" => j.who \in IF p \in Hands THEN {p} ELSE Orders
  /\ j.pc \in {"read", "choose", "take"} => j.c \in Cards
  /\ j.pc = "choose" => j.lines \in Seq(CodesOf(j.c))
  /\ j.pc = "take" => j.code \in CodesOf(j.c)
  /\ j.pc = "send" => p \notin Hands /\ j.code \in Codes
  /\ j.pc = "record" => p \notin Hands /\ j.ok \in BOOLEAN

CardsTypeOK ==
  /\ cards \in [Cards -> [lines : Seq(Codes), left : Int, enabled : BOOLEAN, live : BOOLEAN]]
  /\ \A c \in Cards : cards[c].lines \in Seq(CodesOf(c))

ConsTypeOK ==
  /\ cons \in [DOMAIN cons -> [card : Cards, who : Orders \cup Hands, code : Codes, ok : BOOLEAN]]
  /\ \A i \in DOMAIN cons : cons[i].code \in CodesOf(cons[i].card)
  /\ DOMAIN cons \subseteq Nat /\ \E n \in Nat : \A i \in DOMAIN cons : i <= n

JobsTypeOK == DOMAIN job = Procs /\ \A p \in Procs : Sound(p, job[p])

RestockTypeOK ==
  restock.pc = "write" =>
    restock.c \in Cards /\ restock.lines \in Seq(CodesOf(restock.c)) /\ restock.left \in Int

StoreInv == CardsTypeOK /\ ConsTypeOK /\ JobsTypeOK /\ RestockTypeOK

\* A set of numbers that is not empty has a least one, and the next id is new.
LEMMA LeastIsOne ==
  ASSUME NEW S, S \subseteq Nat, S # {}
  PROVE  Least(S) \in S /\ \A j \in S : Least(S) <= j
<1>1. PICK x \in S : \A y \in S : ~(<<y, x>> \in OpToRel(<, Nat))
  BY NatLessThanWellFounded, WFMin
<1>2. ASSUME NEW y \in S PROVE x <= y
  <2>1. y < x => <<y, x>> \in OpToRel(<, Nat) BY DEF OpToRel
  <2>2. ~(y < x) BY <1>1, <2>1, Zenon
  <2>3. x \in Nat /\ y \in Nat OBVIOUS
  <2> QED BY <2>2, <2>3
<1> QED BY <1>2 DEF Least

LEMMA NextIdIsNew ==
  ASSUME ConsTypeOK
  PROVE  /\ NextId \in Nat /\ NextId \notin DOMAIN cons
         /\ \E n \in Nat : \A i \in DOMAIN cons \cup {NextId} : i <= n
<1> DEFINE S == DOMAIN cons \cup {0}
           U == {u \in Nat : \A i \in S : i <= u}
<1>1. S \subseteq Nat /\ U \subseteq Nat /\ U # {} BY DEF ConsTypeOK
<1>2. PICK m \in U : \A u \in U : m <= u BY <1>1, LeastIsOne
<1>3. m \in S
  <2>1. CASE m = 0 BY <2>1
  <2>2. CASE m # 0
    <3>1. m - 1 \in Nat /\ m - 1 \notin U BY <1>1, <1>2, <2>2
    <3>2. PICK i \in S : ~(i <= m - 1) BY <3>1
    <3>3. i \in Nat /\ i <= m BY <1>1, <3>2
    <3>4. i = m BY <3>1, <3>2, <3>3
    <3> QED BY <3>4
  <2> QED BY <2>1, <2>2
<1>4. \A y \in S : m >= y BY <1>1
<1>5. Max(S) \in S /\ \A y \in S : Max(S) >= y BY <1>3, <1>4 DEF Max
<1> HIDE DEF S
<1>6. Max(S) \in Nat BY <1>1, <1>5
<1>7. NextId = Max(S) + 1 BY DEF NextId, S
<1>8. \A i \in S : i <= NextId /\ i # NextId BY <1>1, <1>5, <1>6, <1>7
<1>9. \A i \in DOMAIN cons \cup {NextId} : i <= NextId BY <1>6, <1>7, <1>8 DEF S
<1> QED BY <1>6, <1>7, <1>8, <1>9 DEF S

\* One process moves to something it may be in the middle of.
LEMMA StoreGoes ==
  ASSUME StoreInv, NEW p \in Procs, NEW j, Sound(p, j), Goes(p, j), UNCHANGED <<cards, cons, restock>>
  PROVE  StoreInv'
<1>1. CardsTypeOK' /\ ConsTypeOK' /\ RestockTypeOK'
  BY DEF StoreInv, CardsTypeOK, ConsTypeOK, RestockTypeOK
<1>2. JobsTypeOK' BY DEF StoreInv, JobsTypeOK, Goes
<1> QED BY <1>1, <1>2 DEF StoreInv

LEMMA StoreStays ==
  ASSUME StoreInv, UNCHANGED <<cards, cons, job, restock>>
  PROVE  StoreInv'
BY DEF StoreInv, CardsTypeOK, ConsTypeOK, RestockTypeOK, JobsTypeOK

LEMMA IdleIsSound == ASSUME NEW p PROVE Sound(p, Idle)
BY DEF Sound, Idle

\* The line that is chosen is one of those that were read.
LEMMA ChoiceIsALine ==
  ASSUME NEW c, NEW S, NEW lines \in Seq(S), Choice(c, lines) # NoCode
  PROVE  /\ Choice(c, lines) \in S
         /\ \E i \in DOMAIN lines : Choice(c, lines) = lines[i]
<1> DEFINE free == {i \in DOMAIN lines : lines[i] \notin Held(c)}
<1>1. free # {} /\ Choice(c, lines) = lines[Least(free)] BY DEF Choice
<1>2. free \subseteq Nat OBVIOUS
<1>3. Least(free) \in free BY <1>1, <1>2, LeastIsOne
<1> HIDE DEF free
<1>4. Least(free) \in DOMAIN lines BY <1>3 DEF free
<1> QED BY <1>1, <1>4

\* A code taken is a row of its card.
LEMMA TakeKeepsRows ==
  ASSUME StoreInv, NEW c \in Cards, NEW who \in Orders \cup Hands, NEW code \in CodesOf(c),
         Take(c, who, code)
  PROVE  CardsTypeOK' /\ ConsTypeOK'
<1>1. CardsTypeOK'
  <2> DEFINE CardRow == [lines : Seq(Codes), left : Int, enabled : BOOLEAN, live : BOOLEAN]
  <2>1. cards \in [Cards -> CardRow] /\ \A d \in Cards : cards[d].lines \in Seq(CodesOf(d))
    BY DEF StoreInv, CardsTypeOK
  <2>2. cards' = [cards EXCEPT ![c].left = @ - 1] BY DEF Take
  <2>3. cards[c] \in CardRow BY <2>1
  <2>4. [cards[c] EXCEPT !.left = @ - 1] \in CardRow
        /\ [cards[c] EXCEPT !.left = @ - 1].lines = cards[c].lines
    BY <2>3
  <2> HIDE DEF CardRow
  <2>5. cards' \in [Cards -> CardRow] BY <2>1, <2>2, <2>4
  <2>6. \A d \in Cards : cards'[d].lines = cards[d].lines BY <2>1, <2>2, <2>4
  <2>7. \A d \in Cards : cards'[d].lines \in Seq(CodesOf(d)) BY <2>1, <2>6
  <2> QED BY <2>5, <2>7 DEF CardsTypeOK, CardRow
<1> DEFINE row == [card |-> c, who |-> who, code |-> code, ok |-> TRUE]
<1>2. code \in Codes BY DEF CodesOf, Codes
<1>3. /\ NextId \in Nat /\ NextId \notin DOMAIN cons
      /\ \E n \in Nat : \A i \in DOMAIN cons \cup {NextId} : i <= n
  BY NextIdIsNew DEF StoreInv
<1>4. cons' = [i \in DOMAIN cons \cup {NextId} |-> IF i = NextId THEN row ELSE cons[i]]
  BY DEF Take
<1>5. DOMAIN cons' = DOMAIN cons \cup {NextId} BY <1>4
<1>6. ASSUME NEW i \in DOMAIN cons'
      PROVE  /\ cons'[i] \in [card : Cards, who : Orders \cup Hands, code : Codes, ok : BOOLEAN]
             /\ cons'[i].code \in CodesOf(cons'[i].card)
  <2>1. CASE i = NextId BY <1>2, <1>4, <2>1
  <2>2. CASE i # NextId BY <1>4, <1>5, <2>2 DEF StoreInv, ConsTypeOK
  <2> QED BY <2>1, <2>2
<1>7. cons' \in [DOMAIN cons' -> [card : Cards, who : Orders \cup Hands, code : Codes, ok : BOOLEAN]]
  BY <1>4, <1>6
<1>8. DOMAIN cons' \subseteq Nat /\ \E n \in Nat : \A i \in DOMAIN cons' : i <= n
  BY <1>3, <1>5 DEF StoreInv, ConsTypeOK
<1> QED BY <1>1, <1>6, <1>7, <1>8 DEF ConsTypeOK

LEMMA TakeKeepsStore ==
  ASSUME StoreInv, NEW p \in Workers \cup Hands, TakeCode(p)
  PROVE  StoreInv'
<1> DEFINE c == job[p].c
           j == [pc |-> "send", who |-> job[p].who, code |-> job[p].code]
<1>1. p \in Procs /\ Sound(p, job[p]) /\ job[p].pc = "take"
  BY DEF StoreInv, JobsTypeOK, Procs, TakeCode, At
<1>2. /\ c \in Cards /\ job[p].code \in CodesOf(c) /\ job[p].who \in Orders \cup Hands
  BY <1>1 DEF Sound
<1>3. UNCHANGED restock BY DEF TakeCode
<1>4. CASE cards[c].live /\ cards[c].left > 0
  <2>1. Take(c, job[p].who, job[p].code) BY <1>4 DEF TakeCode
  <2>2. CardsTypeOK' /\ ConsTypeOK' BY <1>2, <2>1, TakeKeepsRows
  <2>3. Goes(p, IF p \in Workers THEN j ELSE Idle) BY <1>4 DEF TakeCode
  <2>4. p \in Workers => p \notin Hands BY DeliveryAssumption
  <2>5. Sound(p, IF p \in Workers THEN j ELSE Idle)
    <3>1. p \in Workers => Sound(p, j) BY <1>1, <1>2, <2>4 DEF Sound, CodesOf, Codes
    <3> QED BY <3>1, IdleIsSound
  <2>6. JobsTypeOK' BY <1>1, <2>3, <2>5 DEF StoreInv, JobsTypeOK, Goes
  <2>7. RestockTypeOK' BY <1>3 DEF StoreInv, RestockTypeOK
  <2> QED BY <2>2, <2>6, <2>7 DEF StoreInv
<1>5. CASE ~(cards[c].live /\ cards[c].left > 0)
  <2>1. Goes(p, Idle) /\ UNCHANGED <<cards, cons>> BY <1>5 DEF TakeCode, stockRows
  <2> QED BY <1>1, <1>3, <2>1, StoreGoes, IdleIsSound
<1> QED BY <1>4, <1>5

LEMMA RecordKeepsStore ==
  ASSUME StoreInv, NEW p \in Workers \cup {Redo}, Record(p)
  PROVE  StoreInv'
<1>1. /\ p \in Procs /\ Goes(p, Idle) /\ UNCHANGED <<cards, restock>> /\ job[p].pc = "record"
      /\ cons' = [i \in DOMAIN cons |->
                    IF i \in RowsOf(job[p].who) THEN [cons[i] EXCEPT !.ok = job[p].ok] ELSE cons[i]]
  BY DEF Record, RecordOutcome, Procs, At
<1>2. job[p].ok \in BOOLEAN BY <1>1 DEF StoreInv, JobsTypeOK, Sound
<1>3. ConsTypeOK' BY <1>1, <1>2 DEF StoreInv, ConsTypeOK
<1>4. JobsTypeOK' BY <1>1, IdleIsSound DEF StoreInv, JobsTypeOK, Goes
<1>5. CardsTypeOK' /\ RestockTypeOK' BY <1>1 DEF StoreInv, CardsTypeOK, RestockTypeOK
<1> QED BY <1>3, <1>4, <1>5 DEF StoreInv

LEMMA WorkerKeepsStore ==
  ASSUME StoreInv, WorkerNext
  PROVE  StoreInv'
<1> USE DEF orderRows, stockRows, history, races, bounds
<1>0. /\ \A p \in Procs : Sound(p, job[p])
      /\ \A w \in Workers : w \in Procs /\ w \notin Hands
      /\ \A p \in Workers \cup {Redo} : p \in Procs /\ p \notin Hands
      /\ \A p \in Workers \cup Hands : p \in Procs
  BY DeliveryAssumption DEF StoreInv, JobsTypeOK, Procs
<1>1. ASSUME NEW w \in Workers, NEW o \in Orders, OrderCreated(w, o) \/ OrderDelivered(w, o)
      PROVE  StoreInv'
  BY <1>1, StoreStays DEF OrderCreated, OrderDelivered
<1>2. ASSUME NEW w \in Workers, NEW o \in Orders, NEW ov \in BOOLEAN, OrderPaid(w, o, ov)
      PROVE  StoreInv'
  <2> DEFINE j == [pc |-> "deliver", who |-> o, over |-> ov]
  <2>1. Sound(w, j) BY <1>0 DEF Sound
  <2>2. Goes(w, j) /\ UNCHANGED <<cards, cons, restock>> BY <1>2 DEF OrderPaid
  <2> QED BY <1>0, <2>1, <2>2, StoreGoes
<1>3. ASSUME NEW w \in Workers, Deliver(w) PROVE StoreInv'
  <2> DEFINE j == IF job[w].over THEN Idle ELSE [pc |-> "pick", who |-> job[w].who]
  <2>1. job[w].pc = "deliver" BY <1>3 DEF Deliver, At
  <2>2. Sound(w, [pc |-> "pick", who |-> job[w].who]) BY <1>0, <2>1 DEF Sound
  <2>3. Sound(w, j) BY <2>2, IdleIsSound
  <2>4. Goes(w, j) /\ UNCHANGED <<cards, cons, restock>> BY <1>3 DEF Deliver
  <2> QED BY <1>0, <2>3, <2>4, StoreGoes
<1>4. ASSUME NEW w \in Workers, PickCard(w) PROVE StoreInv'
  <2> DEFINE S == {c \in Cards : Stocked(c)}
             j == IF S = {} THEN Idle ELSE [pc |-> "read", who |-> job[w].who, c |-> Least(S)]
  <2>1. job[w].pc = "pick" BY <1>4 DEF PickCard, At
  <2>2. S # {} => Least(S) \in Cards BY LeastIsOne, DeliveryAssumption
  <2> HIDE DEF S
  <2>3. S # {} => Sound(w, [pc |-> "read", who |-> job[w].who, c |-> Least(S)])
    BY <1>0, <2>1, <2>2 DEF Sound
  <2>4. Sound(w, j) BY <2>3, IdleIsSound
  <2>5. Goes(w, j) /\ UNCHANGED <<cards, cons, restock>> BY <1>4 DEF PickCard, S
  <2> QED BY <1>0, <2>4, <2>5, StoreGoes
<1>5. ASSUME NEW w \in Workers, Connect(w) \/ Disconnect(w) PROVE StoreInv'
  BY <1>5, StoreStays DEF Connect, Disconnect
<1>6. ASSUME NEW p \in Workers \cup Hands, ReadCard(p) PROVE StoreInv'
  <2> DEFINE c == job[p].c
             go == [pc |-> "choose", who |-> job[p].who, c |-> c, lines |-> cards[c].lines]
             j == IF Stocked(c) /\ cards[c].lines # <<>> THEN go ELSE Idle
  <2>1. job[p].pc = "read" BY <1>6 DEF ReadCard, At
  <2>2. c \in Cards BY <1>0, <2>1 DEF Sound
  <2>3. cards[c].lines \in Seq(CodesOf(c)) BY <2>2 DEF StoreInv, CardsTypeOK
  <2>4. Sound(p, go) BY <1>0, <2>1, <2>2, <2>3 DEF Sound
  <2>5. Sound(p, j) BY <2>4, IdleIsSound
  <2>6. Goes(p, j) /\ UNCHANGED <<cards, cons, restock>> BY <1>6 DEF ReadCard
  <2> QED BY <1>0, <2>5, <2>6, StoreGoes
<1>7. ASSUME NEW p \in Workers \cup Hands, ChooseCode(p) PROVE StoreInv'
  <2> DEFINE code == Choice(job[p].c, job[p].lines)
             go == [pc |-> "take", who |-> job[p].who, c |-> job[p].c, code |-> code]
             j == IF code = NoCode THEN Idle ELSE go
  <2>1. job[p].pc = "choose" BY <1>7 DEF ChooseCode, At
  <2>2. job[p].c \in Cards /\ job[p].lines \in Seq(CodesOf(job[p].c)) BY <1>0, <2>1 DEF Sound
  <2>3. code # NoCode => code \in CodesOf(job[p].c) BY <2>2, ChoiceIsALine
  <2> HIDE DEF code
  <2>4. code # NoCode => Sound(p, go) BY <1>0, <2>1, <2>2, <2>3 DEF Sound
  <2>5. Sound(p, j) BY <2>4, IdleIsSound
  <2>6. Goes(p, j) /\ UNCHANGED <<cards, cons, restock>> BY <1>7 DEF ChooseCode, code
  <2> QED BY <1>0, <2>5, <2>6, StoreGoes
<1>8. ASSUME NEW p \in Workers \cup {Redo}, Send(p) PROVE StoreInv'
  <2>1. job[p].pc = "send" BY <1>8 DEF Send, At
  <2>2. PICK ok \in BOOLEAN :
          Goes(p, [pc |-> "record", who |-> job[p].who, code |-> job[p].code, ok |-> ok])
    BY <1>8 DEF Send
  <2>3. Sound(p, [pc |-> "record", who |-> job[p].who, code |-> job[p].code, ok |-> ok])
    BY <1>0, <2>1 DEF Sound
  <2>4. UNCHANGED <<cards, cons, restock>> BY <1>8 DEF Send
  <2> QED BY <1>0, <2>2, <2>3, <2>4, StoreGoes
<1>9. ASSUME Die PROVE StoreInv'
  <2>1. /\ job' = [p \in Procs |-> IF p \in Workers THEN Idle ELSE job[p]]
        /\ UNCHANGED <<cards, cons, restock>>
    BY <1>9 DEF Die, StoreInv, JobsTypeOK
  <2>2. JobsTypeOK' BY <1>0, <2>1, IdleIsSound DEF JobsTypeOK
  <2>3. CardsTypeOK' /\ ConsTypeOK' /\ RestockTypeOK'
    BY <2>1 DEF StoreInv, CardsTypeOK, ConsTypeOK, RestockTypeOK
  <2> QED BY <2>2, <2>3 DEF StoreInv
<1> QED
  BY <1>1, <1>2, <1>3, <1>4, <1>5, <1>6, <1>7, <1>8, <1>9, TakeKeepsStore, RecordKeepsStore
  DEF WorkerNext

LEMMA CommandKeepsStore ==
  ASSUME StoreInv, CommandNext
  PROVE  StoreInv'
<1> USE DEF orderRows, stockRows, history, races, bounds
<1>0. /\ \A p \in Procs : Sound(p, job[p])
      /\ Redo \in Procs /\ Redo \notin Hands
      /\ \A h \in Hands : h \in Procs
  BY DeliveryAssumption DEF StoreInv, JobsTypeOK, Procs
<1>1. ASSUME NEW o \in Orders, Redeliver(o) PROVE StoreInv'
  <2>1. Sound(Redo, [pc |-> "connect", who |-> o]) BY <1>0 DEF Sound
  <2>2. Goes(Redo, [pc |-> "connect", who |-> o]) /\ UNCHANGED <<cards, cons, restock>>
    BY <1>1 DEF Redeliver
  <2> QED BY <1>0, <2>1, <2>2, StoreGoes
<1>2. ASSUME ConnectRedo PROVE StoreInv'
  <2> DEFINE go == [job[Redo] EXCEPT !.pc = "retry"]
  <2>1. job[Redo].pc = "connect" /\ job[Redo].who \in Orders
    BY <1>0, <1>2 DEF ConnectRedo, At, Sound
  <2>2. go.pc = "retry" /\ go.who = job[Redo].who
    BY <2>1
  <2>3. Sound(Redo, go) BY <1>0, <2>1, <2>2 DEF Sound
  <2>4. /\ Goes(Redo, go) \/ Goes(Redo, Idle)
        /\ UNCHANGED <<cards, cons, restock>>
    BY <1>2 DEF ConnectRedo
  <2> HIDE DEF go
  <2> QED BY <1>0, <2>3, <2>4, StoreGoes, IdleIsSound
<1>3. ASSUME Retry PROVE StoreInv'
  <2> DEFINE o == job[Redo].who
             go == [pc |-> "send", who |-> o, code |-> cons[Least(Failed(o))].code]
  <2>1. job[Redo].pc = "retry" /\ o \in Orders
    BY <1>0, <1>3 DEF Retry, At, Sound
  <2>2. Failed(o) \subseteq DOMAIN cons /\ DOMAIN cons \subseteq Nat
    BY DEF Failed, RowsOf, StoreInv, ConsTypeOK
  <2>3. Failed(o) # {} => Least(Failed(o)) \in DOMAIN cons BY <2>2, LeastIsOne
  <2>4. Failed(o) # {} => cons[Least(Failed(o))].code \in Codes
    BY <2>3 DEF StoreInv, ConsTypeOK
  <2>5. Failed(o) # {} => Sound(Redo, go) BY <1>0, <2>1, <2>4 DEF Sound
  <2>6. /\ (Failed(o) # {} /\ Goes(Redo, go)) \/ Goes(Redo, Idle)
        /\ UNCHANGED <<cards, cons, restock>>
    BY <1>3 DEF Retry, Retries
  <2> HIDE DEF go
  <2> QED BY <1>0, <2>5, <2>6, StoreGoes, IdleIsSound
<1>4. ASSUME NEW o \in Orders, NEW st, NEW ov, Sync(o, st, ov) PROVE StoreInv'
  BY <1>4, StoreStays DEF Sync
<1>5. ASSUME NEW c \in Cards, NEW h \in Hands, Consume(h, c) PROVE StoreInv'
  <2>1. Sound(h, [pc |-> "read", who |-> h, c |-> c]) BY DEF Sound
  <2>2. Goes(h, [pc |-> "read", who |-> h, c |-> c]) /\ UNCHANGED <<cards, cons, restock>>
    BY <1>5 DEF Consume
  <2> QED BY <1>0, <2>1, <2>2, StoreGoes
<1>6. ASSUME NEW c \in Cards, RestockReads(c) PROVE StoreInv'
  <2>1. UNCHANGED <<cards, cons, job>> BY <1>6 DEF RestockReads
  <2>2. PICK code \in Refill[c] :
          restock' = [pc |-> "write", c |-> c,
                      lines |-> Append(cards[c].lines, code), left |-> cards[c].left + 1]
    BY <1>6 DEF RestockReads
  <2>3. code \in CodesOf(c) /\ cards[c].lines \in Seq(CodesOf(c)) /\ cards[c].left \in Int
    BY DEF CodesOf, StoreInv, CardsTypeOK
  <2>4. Append(cards[c].lines, code) \in Seq(CodesOf(c)) BY <2>3, AppendProperties
  <2>5. RestockTypeOK' BY <2>2, <2>3, <2>4 DEF RestockTypeOK
  <2> QED BY <2>1, <2>5 DEF StoreInv, CardsTypeOK, ConsTypeOK, JobsTypeOK
<1>7. ASSUME RestockWrites PROVE StoreInv'
  <2> DEFINE c == restock.c
  <2>1. /\ c \in Cards /\ restock.lines \in Seq(CodesOf(c)) /\ restock.left \in Int
    BY <1>7 DEF RestockWrites, StoreInv, RestockTypeOK
  <2>2. restock.lines \in Seq(Codes) BY <2>1 DEF CodesOf, Codes
  <2>3. CardsTypeOK'
    <3>1. CASE cards[c].live
      <4>1. cards' = [cards EXCEPT ![c].lines = restock.lines, ![c].left = restock.left]
        BY <1>7, <3>1 DEF RestockWrites
      <4> QED BY <2>1, <2>2, <4>1 DEF StoreInv, CardsTypeOK
    <3>2. CASE ~cards[c].live BY <1>7, <3>2 DEF RestockWrites, StoreInv, CardsTypeOK
    <3> QED BY <3>1, <3>2
  <2>4. RestockTypeOK' BY <1>7 DEF RestockWrites, RestockTypeOK, Idle
  <2> QED BY <1>7, <2>3, <2>4 DEF RestockWrites, StoreInv, ConsTypeOK, JobsTypeOK
<1>8. ASSUME NEW c \in Cards, SetEnabled(c) PROVE StoreInv'
  <2>1. CardsTypeOK' BY <1>8 DEF SetEnabled, StoreInv, CardsTypeOK
  <2> QED BY <1>8, <2>1 DEF SetEnabled, StoreInv, ConsTypeOK, JobsTypeOK, RestockTypeOK
<1>9. ASSUME NEW c \in Cards, DeleteCard(c) PROVE StoreInv'
  <2>1. CardsTypeOK' BY <1>9 DEF DeleteCard, StoreInv, CardsTypeOK
  <2>2. cons' = [i \in DOMAIN cons \ Rows(c) |-> cons[i]] BY <1>9 DEF DeleteCard, Restrict
  <2>3. ConsTypeOK' BY <2>2 DEF StoreInv, ConsTypeOK
  <2> QED BY <1>9, <2>1, <2>3 DEF DeleteCard, StoreInv, JobsTypeOK, RestockTypeOK
<1> QED BY <1>1, <1>2, <1>3, <1>4, <1>5, <1>6, <1>7, <1>8, <1>9 DEF CommandNext

\* Rows and memories keep their types.
THEOREM StoreInvariant == Spec => []StoreInv
<1>1. Init => StoreInv
  <2> SUFFICES ASSUME Init PROVE StoreInv OBVIOUS
  <2> USE DEF Init
  <2>1. JobsTypeOK /\ RestockTypeOK BY IdleIsSound DEF JobsTypeOK, RestockTypeOK, Idle, Procs
  <2>2. cons = [i \in {} |-> cons[i]] /\ DOMAIN cons = {} OBVIOUS
  <2>5. ConsTypeOK BY <2>2 DEF ConsTypeOK
  <2>3. ASSUME NEW c \in Cards
        PROVE  Stock[c] \in Seq(CodesOf(c)) /\ Stock[c] \in Seq(Codes) /\ Len(Stock[c]) \in Nat
    <3>1. Stock[c] \in Seq(Range(Stock[c])) BY DeliveryAssumption
    <3>2. Range(Stock[c]) \subseteq CodesOf(c) /\ Range(Stock[c]) \subseteq Codes BY DEF CodesOf, Codes
    <3> QED BY <3>1, <3>2
  <2>4. CardsTypeOK BY <2>3 DEF CardsTypeOK
  <2> QED BY <2>1, <2>4, <2>5 DEF StoreInv
<1>2. StoreInv /\ [Next]_vars => StoreInv'
  <2> SUFFICES ASSUME StoreInv, [Next]_vars PROVE StoreInv' OBVIOUS
  <2>1. CASE WorkerNext BY <2>1, WorkerKeepsStore
  <2>2. CASE CommandNext BY <2>2, CommandKeepsStore
  <2>3. CASE UNCHANGED vars BY <2>3, StoreStays DEF vars, stockRows
  <2> QED BY <2>1, <2>2, <2>3 DEF Next
<1> QED BY <1>1, <1>2, PTL DEF Spec

-----------------------------------------------------------------------------
(* The stock of a card counts its free lines.                              *)

\* What a process remembers of a card are lines of it.
Sees(j) ==
  /\ j.pc = "choose" /\ cards[j.c].live => Range(j.lines) \subseteq Range(cards[j.c].lines)
  /\ j.pc = "take" /\ cards[j.c].live => j.code \in Range(cards[j.c].lines)

JobsSeeLines == \A p \in Procs : Sees(job[p])

SoldAreLines == \A c \in Cards : cards[c].live => Held(c) \subseteq Range(cards[c].lines)

\* A restock is about to add one line, and at least as much to the stock.
RestockAdds ==
  restock.pc = "write" /\ cards[restock.c].live =>
    LET c == restock.c IN
    /\ restock.left >= cards[c].left + 1
    /\ \E code : /\ code \notin Range(cards[c].lines)
                 /\ Range(restock.lines) = Range(cards[c].lines) \cup {code}

LinesInv == StockIsExact /\ JobsSeeLines /\ SoldAreLines /\ RestockAdds

LEMMA RowsAreFinite ==
  ASSUME ConsTypeOK
  PROVE  /\ IsFiniteSet(DOMAIN cons)
         /\ \A c : IsFiniteSet(Rows(c)) /\ Cardinality(Rows(c)) \in Nat
         /\ \A o : IsFiniteSet(RowsOf(o)) /\ Cardinality(RowsOf(o)) \in Nat
<1>1. PICK n \in Nat : \A i \in DOMAIN cons : i <= n BY DEF ConsTypeOK
<1>2. DOMAIN cons \subseteq 0 .. n BY <1>1 DEF ConsTypeOK
<1>6. IsFiniteSet(0 .. n) BY <1>1, FS_Interval
<1>3. IsFiniteSet(DOMAIN cons) BY <1>2, <1>6, FS_Subset
<1>4. ASSUME NEW c PROVE IsFiniteSet(Rows(c)) BY <1>3, FS_Subset DEF Rows
<1>5. ASSUME NEW o PROVE IsFiniteSet(RowsOf(o)) BY <1>3, FS_Subset DEF RowsOf
<1> QED BY <1>3, <1>4, <1>5, FS_CardinalityType

\* A code taken adds one row, to its card and to whoever took it.
LEMMA TakeAddsARow ==
  ASSUME ConsTypeOK, NEW c, NEW who, NEW code, Take(c, who, code)
  PROVE  /\ DOMAIN cons' = DOMAIN cons \cup {NextId} /\ NextId \notin DOMAIN cons
         /\ \A i \in DOMAIN cons : cons'[i] = cons[i]
         /\ cons'[NextId].code = code /\ cons'[NextId].who = who /\ cons'[NextId].card = c
         /\ \A d : Rows(d)' = Rows(d) \cup (IF d = c THEN {NextId} ELSE {})
         /\ \A o : RowsOf(o)' = RowsOf(o) \cup (IF o = who THEN {NextId} ELSE {})
<1> DEFINE row == [card |-> c, who |-> who, code |-> code, ok |-> TRUE]
<1>1. NextId \notin DOMAIN cons BY NextIdIsNew
<1>2. cons' = [i \in DOMAIN cons \cup {NextId} |-> IF i = NextId THEN row ELSE cons[i]]
  BY DEF Take
<1>3. DOMAIN cons' = DOMAIN cons \cup {NextId} BY <1>2
<1>4. ASSUME NEW i \in DOMAIN cons PROVE cons'[i] = cons[i] BY <1>1, <1>2
<1>5. cons'[NextId] = row BY <1>2
<1>6. row.card = c /\ row.who = who /\ row.code = code OBVIOUS
<1>7. ASSUME NEW d PROVE Rows(d)' = Rows(d) \cup (IF d = c THEN {NextId} ELSE {})
  BY <1>1, <1>3, <1>4, <1>5, <1>6 DEF Rows
<1>8. ASSUME NEW o PROVE RowsOf(o)' = RowsOf(o) \cup (IF o = who THEN {NextId} ELSE {})
  BY <1>1, <1>3, <1>4, <1>5, <1>6 DEF RowsOf
<1> QED BY <1>1, <1>3, <1>4, <1>5, <1>6, <1>7, <1>8

LEMMA AppendRange ==
  ASSUME NEW S, NEW s \in Seq(S), NEW e \in S
  PROVE  Range(Append(s, e)) = Range(s) \cup {e}
<1>1. /\ Append(s, e) \in Seq(S) /\ Len(Append(s, e)) = Len(s) + 1
      /\ \A i \in 1 .. Len(s) : Append(s, e)[i] = s[i]
      /\ Append(s, e)[Len(s) + 1] = e
  BY AppendProperties
<1>2. Len(s) \in Nat /\ DOMAIN s = 1 .. Len(s) /\ DOMAIN Append(s, e) = 1 .. (Len(s) + 1)
  BY <1>1
<1>3. 1 .. (Len(s) + 1) = (1 .. Len(s)) \cup {Len(s) + 1} BY <1>2
<1> QED BY <1>1, <1>2, <1>3 DEF Range

\* As many lines as positions, when all are distinct.
LEMMA DistinctLines ==
  ASSUME NEW S, NEW s \in Seq(S), IsInjective(s)
  PROVE  Cardinality(Range(s)) = Len(s)
<1>1. Len(s) \in Nat /\ DOMAIN s = 1 .. Len(s) BY DEF IsInjective
<1>2. IsFiniteSet(DOMAIN s) /\ Cardinality(DOMAIN s) = Len(s) BY <1>1, FS_Interval
<1>3. \A a, b \in DOMAIN s : s[a] = s[b] => a = b BY DEF IsInjective
<1>4. s \in [DOMAIN s -> Range(s)] BY <1>1 DEF Range
<1>5. s \in Surjection(DOMAIN s, Range(s)) BY <1>4 DEF Surjection, Range
<1>6. s \in Injection(DOMAIN s, Range(s)) BY <1>4 DEF Injection
<1> QED BY <1>2, <1>5, <1>6, FS_Surjection

LEMMA LinesAreFinite ==
  ASSUME StoreInv, NEW c \in Cards
  PROVE  IsFiniteSet(FreeLines(c)) /\ Cardinality(FreeLines(c)) \in Nat
<1>1. cards[c].lines \in Seq(CodesOf(c)) BY DEF StoreInv, CardsTypeOK
<1>2. DOMAIN cards[c].lines = 1 .. Len(cards[c].lines) /\ Len(cards[c].lines) \in Nat BY <1>1
<1>3. IsFiniteSet(DOMAIN cards[c].lines) BY <1>2, FS_Interval
<1>4. cards[c].lines \in Surjection(DOMAIN cards[c].lines, Range(cards[c].lines))
  BY <1>1 DEF Surjection, Range
<1>5. IsFiniteSet(Range(cards[c].lines)) BY <1>3, <1>4, FS_Surjection
<1> QED BY <1>5, FS_Subset, FS_CardinalityType DEF FreeLines

LEMMA SameCons == ASSUME UNCHANGED cons PROVE \A c : /\ Rows(c)' = Rows(c) /\ RowsOf(c)' = RowsOf(c)
                                                   /\ Held(c)' = Held(c)
BY DEF Rows, RowsOf, Held

\* No card loses lines, stock or rows but by its deletion.
LEMMA LinesKeep ==
  ASSUME StoreInv, LinesInv, UNCHANGED <<raced, crossed>>, JobsSeeLines', RestockAdds',
         \A c \in Cards : cards'[c].live =>
           /\ cards[c].live /\ cards'[c].lines = cards[c].lines /\ cards'[c].left = cards[c].left
           /\ Held(c)' = Held(c)
  PROVE  LinesInv'
<1>1. ASSUME NEW c \in Cards, cards'[c].live PROVE FreeLines(c)' = FreeLines(c)
  BY <1>1 DEF FreeLines
<1>2. StockIsExact' BY <1>1 DEF LinesInv, StockIsExact
<1>3. SoldAreLines' BY DEF LinesInv, SoldAreLines
<1> QED BY <1>2, <1>3 DEF LinesInv

\* A process moves to what it may remember.
LEMMA LinesMove ==
  ASSUME StoreInv, LinesInv, NEW p \in Procs, NEW j, Goes(p, j), Sees(j),
         UNCHANGED <<cards, cons, restock, raced, crossed>>
  PROVE  LinesInv'
<1>1. job'[p] = j /\ \A q \in Procs : q # p => job'[q] = job[q]
  BY DEF Goes, StoreInv, JobsTypeOK
<1>2. JobsSeeLines' BY <1>1 DEF LinesInv, JobsSeeLines, Sees
<1>3. RestockAdds' BY DEF LinesInv, RestockAdds
<1> QED BY <1>2, <1>3, SameCons, LinesKeep

LEMMA LinesStay ==
  ASSUME StoreInv, LinesInv, UNCHANGED <<cards, cons, job, restock, raced, crossed>>
  PROVE  LinesInv'
<1>1. JobsSeeLines' /\ RestockAdds' BY DEF LinesInv, JobsSeeLines, Sees, RestockAdds
<1> QED BY <1>1, SameCons, LinesKeep

\* A take counts what it takes, unless another had taken it already.
LEMMA TakeKeepsLines ==
  ASSUME StoreInv, LinesInv, NEW p \in Workers \cup Hands, TakeCode(p)
  PROVE  LinesInv'
<1>0. PICK c, code, who : c = job[p].c /\ code = job[p].code /\ who = job[p].who OBVIOUS
<1>1. /\ p \in Procs /\ job[p].pc = "take" /\ c \in Cards /\ DOMAIN job = Procs
      /\ UNCHANGED <<restock, crossed>>
  BY <1>0 DEF TakeCode, At, StoreInv, JobsTypeOK, Sound, Procs
<1>2. CASE Goes(p, Idle) /\ UNCHANGED <<stockRows, raced>>
  BY <1>1, <1>2, LinesMove DEF Sees, Idle, stockRows
<1>3. CASE /\ cards[c].live /\ Take(c, who, code) /\ job'[p].pc \in {"send", "idle"}
           /\ \A q \in Procs : q # p => job'[q] = job[q]
           /\ raced' = IF code \in Held(c) THEN raced \cup {code} ELSE raced
  <2>1. /\ \A d \in Cards : cards'[d].live = cards[d].live /\ cards'[d].lines = cards[d].lines
        /\ cards'[c].left = cards[c].left - 1
        /\ \A d \in Cards : d # c => cards'[d] = cards[d]
        /\ \A d \in Cards : cards[d].left \in Int
    BY <1>1, <1>3 DEF Take, StoreInv, CardsTypeOK
  <2>2. /\ \A d : Rows(d)' = Rows(d) \cup (IF d = c THEN {NextId} ELSE {})
        /\ NextId \notin DOMAIN cons /\ cons'[NextId].code = code
        /\ \A i \in DOMAIN cons : cons'[i] = cons[i]
    BY <1>3, TakeAddsARow DEF StoreInv
  <2>3. Held(c)' = Held(c) \cup {code} /\ \A d : d # c => Held(d)' = Held(d)
    BY <2>2 DEF Held, Rows
  <2>4. code \in Range(cards[c].lines) BY <1>0, <1>1, <1>3 DEF LinesInv, JobsSeeLines, Sees
  <2>5. JobsSeeLines'
    <3> SUFFICES ASSUME NEW q \in Procs PROVE Sees(job[q])' BY DEF JobsSeeLines
    <3>1. CASE q = p BY <1>3, <3>1 DEF Sees
    <3>2. CASE q # p
      <4>1. job'[q] = job[q] /\ Sees(job[q]) BY <1>3, <3>2 DEF LinesInv, JobsSeeLines
      <4>2. job[q].pc \in {"choose", "take"} => job[q].c \in Cards
        BY DEF StoreInv, JobsTypeOK, Sound
      <4> QED BY <2>1, <4>1, <4>2 DEF Sees
    <3> QED BY <3>1, <3>2
  <2>6. SoldAreLines' BY <2>1, <2>3, <2>4 DEF LinesInv, SoldAreLines
  <2>7. RestockAdds'
    <3>1. restock.pc = "write" => restock.c \in Cards /\ restock.left \in Int
      BY DEF StoreInv, RestockTypeOK
    <3>2. \A d \in Cards : cards'[d].left <= cards[d].left BY <2>1
    <3>3. \A d \in Cards : cards'[d].left \in Int BY <2>1
    <3> SUFFICES ASSUME restock.pc = "write", cards'[restock.c].live
        PROVE  /\ restock.left >= cards'[restock.c].left + 1
               /\ \E x : /\ x \notin Range(cards'[restock.c].lines)
                         /\ Range(restock.lines) = Range(cards'[restock.c].lines) \cup {x}
      BY <1>1 DEF RestockAdds
    <3>4. /\ restock.left >= cards[restock.c].left + 1
          /\ \E x : /\ x \notin Range(cards[restock.c].lines)
                    /\ Range(restock.lines) = Range(cards[restock.c].lines) \cup {x}
      BY <2>1, <3>1 DEF LinesInv, RestockAdds
    <3>5. cards[restock.c].left \in Int BY <2>1, <3>1
    <3>6. restock.left >= cards'[restock.c].left + 1 BY <3>1, <3>2, <3>3, <3>4, <3>5
    <3> QED BY <2>1, <3>1, <3>4, <3>6
  <2>8. ASSUME NEW d \in Cards, cards'[d].live
        PROVE  /\ d \in crossed \/ cards'[d].left <= Cardinality(FreeLines(d)')
               /\ \/ Range(cards'[d].lines) \cap raced' # {}
                  \/ Cardinality(FreeLines(d)') <= cards'[d].left
    <3>1. /\ d \in crossed \/ cards[d].left <= Cardinality(FreeLines(d))
          /\ \/ Range(cards[d].lines) \cap raced # {}
             \/ Cardinality(FreeLines(d)) <= cards[d].left
          /\ IsFiniteSet(FreeLines(d)) /\ Cardinality(FreeLines(d)) \in Nat
      BY <2>1, <2>8, LinesAreFinite DEF LinesInv, StockIsExact
    <3>2. raced \subseteq raced' BY <1>3
    <3>3. CASE d # c
      <4>1. FreeLines(d)' = FreeLines(d) BY <2>1, <2>3, <3>3 DEF FreeLines
      <4> QED BY <2>1, <3>1, <3>2, <3>3, <4>1
    <3>4. CASE d = c /\ code \in Held(c)
      <4>1. FreeLines(d)' = FreeLines(d) BY <2>1, <2>3, <3>4 DEF FreeLines
      <4>2. code \in raced' BY <1>3, <3>4
      <4> QED BY <2>1, <2>4, <3>1, <3>4, <4>1, <4>2
    <3>5. CASE d = c /\ code \notin Held(c)
      <4>1. code \in FreeLines(d) /\ FreeLines(d)' = FreeLines(d) \ {code}
        BY <2>1, <2>3, <2>4, <3>5 DEF FreeLines
      <4>2. Cardinality(FreeLines(d)') = Cardinality(FreeLines(d)) - 1
        BY <3>1, <4>1, FS_RemoveElement
      <4> QED BY <2>1, <3>1, <3>2, <3>5, <4>2
    <3> QED BY <3>3, <3>4, <3>5
  <2>9. StockIsExact' BY <1>1, <2>8 DEF StockIsExact
  <2> QED BY <2>5, <2>6, <2>7, <2>9 DEF LinesInv
<1>4. CASE cards[c].live /\ cards[c].left > 0
  <2>1. Goes(p, IF p \in Workers THEN [pc |-> "send", who |-> job[p].who, code |-> job[p].code] ELSE Idle)
    BY <1>0, <1>4 DEF TakeCode
  <2>2. job'[p].pc \in {"send", "idle"} /\ \A q \in Procs : q # p => job'[q] = job[q]
    BY <1>1, <2>1 DEF Goes, Idle
  <2> QED BY <1>0, <1>3, <1>4, <2>2 DEF TakeCode
<1> QED BY <1>0, <1>2, <1>4 DEF TakeCode

\* A restock that did not overlap a sale adds as much to the stock as lines.
LEMMA RestockKeepsLines ==
  ASSUME StoreInv, LinesInv, RestockWrites
  PROVE  LinesInv'
<1>0. PICK c, lines, left : c = restock.c /\ lines = restock.lines /\ left = restock.left OBVIOUS
<1>1. /\ restock.pc = "write" /\ restock'.pc # "write" /\ UNCHANGED <<cons, job, raced>>
      /\ c \in Cards /\ lines \in Seq(CodesOf(c)) /\ left \in Int
  BY <1>0 DEF RestockWrites, Idle, StoreInv, RestockTypeOK
<1>2. RestockAdds' BY <1>1 DEF RestockAdds
<1>3. \A d : Held(d)' = Held(d) BY <1>1, SameCons
<1>4. CASE ~cards[c].live
  <2>1. UNCHANGED <<cards, crossed>> BY <1>0, <1>4 DEF RestockWrites
  <2>2. JobsSeeLines' BY <1>1, <2>1 DEF LinesInv, JobsSeeLines, Sees
  <2> QED BY <1>1, <1>2, <1>3, <2>1, <2>2, LinesKeep
<1>5. CASE cards[c].live
  <2>1. /\ cards' = [cards EXCEPT ![c].lines = lines, ![c].left = left]
        /\ crossed' = IF left # cards[c].left + 1 THEN crossed \cup {c} ELSE crossed
    BY <1>0, <1>5 DEF RestockWrites
  <2>2. /\ cards'[c].lines = lines /\ cards'[c].left = left /\ cards'[c].live
        /\ \A d \in Cards : d # c => cards'[d] = cards[d]
        /\ cards[c].left \in Int
    BY <1>1, <1>5, <2>1 DEF StoreInv, CardsTypeOK
  <2>3. PICK code : /\ code \notin Range(cards[c].lines)
                    /\ Range(lines) = Range(cards[c].lines) \cup {code}
    BY <1>0, <1>1, <1>5 DEF LinesInv, RestockAdds
  <2>4. left >= cards[c].left + 1 BY <1>0, <1>1, <1>5 DEF LinesInv, RestockAdds
  <2>5. JobsSeeLines'
    <3> SUFFICES ASSUME NEW q \in Procs PROVE Sees(job[q])' BY DEF JobsSeeLines
    <3>1. Sees(job[q]) BY DEF LinesInv, JobsSeeLines
    <3>2. job[q].pc \in {"choose", "take"} => job[q].c \in Cards BY DEF StoreInv, JobsTypeOK, Sound
    <3>3. CASE job[q].c = c BY <1>1, <1>5, <2>2, <2>3, <3>1, <3>3 DEF Sees
    <3>4. CASE job[q].c # c BY <1>1, <2>2, <3>1, <3>2, <3>4 DEF Sees
    <3> QED BY <3>3, <3>4
  <2>6. SoldAreLines'
    <3> SUFFICES ASSUME NEW d \in Cards, cards'[d].live PROVE Held(d) \subseteq Range(cards'[d].lines)
      BY <1>3 DEF SoldAreLines
    <3>1. CASE d = c BY <1>5, <2>2, <2>3, <3>1 DEF LinesInv, SoldAreLines
    <3>2. CASE d # c BY <2>2, <3>2 DEF LinesInv, SoldAreLines
    <3> QED BY <3>1, <3>2
  <2>7. ASSUME NEW d \in Cards, cards'[d].live
        PROVE  /\ d \in crossed' \/ cards'[d].left <= Cardinality(FreeLines(d)')
               /\ \/ Range(cards'[d].lines) \cap raced # {}
                  \/ Cardinality(FreeLines(d)') <= cards'[d].left
    <3>1. CASE d # c
      <4>1. FreeLines(d)' = FreeLines(d) BY <1>3, <2>2, <3>1 DEF FreeLines
      <4>2. crossed \subseteq crossed' BY <2>1
      <4> QED BY <2>2, <2>7, <3>1, <4>1, <4>2 DEF LinesInv, StockIsExact
    <3>2. CASE d = c
      <4>1. /\ c \in crossed \/ cards[c].left <= Cardinality(FreeLines(c))
            /\ \/ Range(cards[c].lines) \cap raced # {}
               \/ Cardinality(FreeLines(c)) <= cards[c].left
            /\ IsFiniteSet(FreeLines(c)) /\ Cardinality(FreeLines(c)) \in Nat
        BY <1>1, <1>5, LinesAreFinite DEF LinesInv, StockIsExact
      <4>2. code \notin Held(c) BY <1>1, <1>5, <2>3 DEF LinesInv, SoldAreLines
      <4>3. FreeLines(c)' = FreeLines(c) \cup {code} /\ code \notin FreeLines(c)
        BY <1>3, <2>2, <2>3, <4>2 DEF FreeLines
      <4>4. Cardinality(FreeLines(c)') = Cardinality(FreeLines(c)) + 1
        BY <4>1, <4>3, FS_AddElement
      <4>5. c \in crossed' \/ left <= Cardinality(FreeLines(c)) + 1
        BY <1>1, <2>1, <2>2, <4>1
      <4>6. Range(lines) \cap raced # {} \/ Cardinality(FreeLines(c)) + 1 <= left
        BY <1>1, <2>2, <2>3, <2>4, <4>1
      <4> QED BY <2>2, <3>2, <4>4, <4>5, <4>6
    <3> QED BY <3>1, <3>2
  <2>8. StockIsExact' BY <1>1, <2>7 DEF StockIsExact
  <2> QED BY <1>2, <2>5, <2>6, <2>8 DEF LinesInv
<1> QED BY <1>4, <1>5

LEMMA DeletionKeepsLines ==
  ASSUME StoreInv, LinesInv, NEW c \in Cards, DeleteCard(c)
  PROVE  LinesInv'
<1>1. /\ UNCHANGED <<restock, job, raced, crossed>> /\ cards' = [cards EXCEPT ![c].live = FALSE]
      /\ cons' = [i \in DOMAIN cons \ Rows(c) |-> cons[i]]
  BY DEF DeleteCard, Restrict, races
<1>2. ~cards'[c].live /\ \A d \in Cards : d # c => cards'[d] = cards[d]
  BY <1>1 DEF StoreInv, CardsTypeOK
<1>3. ASSUME NEW d, d # c PROVE Rows(d)' = Rows(d) /\ \A i \in Rows(d) : cons'[i] = cons[i]
  BY <1>1, <1>3 DEF Rows
<1>4. \A d : d # c => Held(d)' = Held(d) BY <1>3 DEF Held
<1>5. JobsSeeLines'
  <2> SUFFICES ASSUME NEW q \in Procs PROVE Sees(job[q])' BY DEF JobsSeeLines
  <2>1. Sees(job[q]) BY DEF LinesInv, JobsSeeLines
  <2>2. job[q].pc \in {"choose", "take"} => job[q].c \in Cards BY DEF StoreInv, JobsTypeOK, Sound
  <2> QED BY <1>1, <1>2, <2>1, <2>2 DEF Sees
<1>6. RestockAdds'
  <2>1. restock.pc = "write" => restock.c \in Cards BY DEF StoreInv, RestockTypeOK
  <2> QED BY <1>1, <1>2, <2>1 DEF LinesInv, RestockAdds
<1> QED BY <1>1, <1>2, <1>4, <1>5, <1>6, LinesKeep

LEMMA ReadKeepsLines ==
  ASSUME StoreInv, LinesInv, NEW p \in Workers \cup Hands, ReadCard(p) \/ ChooseCode(p)
  PROVE  LinesInv'
<1>0. PICK c, lines, who : c = job[p].c /\ lines = job[p].lines /\ who = job[p].who OBVIOUS
<1>1. p \in Procs /\ UNCHANGED <<cards, cons, restock, raced, crossed>>
  BY DEF ReadCard, ChooseCode, Procs, stockRows, history, races
<1>2. Goes(p, Idle) => LinesInv' BY <1>1, LinesMove DEF Sees, Idle
<1>3. CASE ReadCard(p)
  <2> DEFINE go == [pc |-> "choose", who |-> who, c |-> c, lines |-> cards[c].lines]
  <2>1. go.pc = "choose" /\ go.c = c /\ go.lines = cards[c].lines OBVIOUS
  <2>2. Goes(p, go) \/ Goes(p, Idle) BY <1>0, <1>3 DEF ReadCard
  <2> HIDE DEF go
  <2>3. Sees(go) BY <2>1 DEF Sees
  <2> QED BY <1>1, <1>2, <2>2, <2>3, LinesMove
<1>4. CASE ChooseCode(p)
  <2> DEFINE code == Choice(c, lines)
             go == [pc |-> "take", who |-> who, c |-> c, code |-> code]
  <2>1. go.pc = "take" /\ go.c = c /\ go.code = code OBVIOUS
  <2>2. job[p].pc = "choose" /\ lines \in Seq(CodesOf(c))
    BY <1>0, <1>1, <1>4 DEF ChooseCode, At, StoreInv, JobsTypeOK, Sound
  <2>3. code # NoCode => code \in Range(lines) BY <2>2, ChoiceIsALine DEF Range
  <2>4. cards[c].live => Range(lines) \subseteq Range(cards[c].lines)
    BY <1>0, <1>1, <2>2 DEF LinesInv, JobsSeeLines, Sees
  <2>5. (code # NoCode /\ Goes(p, go)) \/ Goes(p, Idle) BY <1>0, <1>4 DEF ChooseCode
  <2> HIDE DEF go, code
  <2>6. code # NoCode => Sees(go) BY <2>1, <2>3, <2>4 DEF Sees
  <2> QED BY <1>1, <1>2, <2>5, <2>6, LinesMove
<1> QED BY <1>3, <1>4

LEMMA StepKeepsLines ==
  ASSUME StoreInv, LinesInv, Next
  PROVE  LinesInv'
<1> USE DEF orderRows, stockRows, history, races, bounds
<1>0. /\ \A w \in Workers : w \in Procs
      /\ \A p \in Workers \cup {Redo} : p \in Procs
      /\ Redo \in Procs /\ \A h \in Hands : h \in Procs
  BY DEF Procs
<1>1. ASSUME NEW p \in Procs, NEW j, j.pc \notin {"choose", "take"}, Goes(p, j),
             UNCHANGED <<cards, cons, restock, raced, crossed>>
      PROVE  LinesInv'
  BY <1>1, LinesMove DEF Sees
<1>2. ASSUME NEW p \in Procs, Goes(p, Idle), UNCHANGED <<cards, cons, restock, raced, crossed>>
      PROVE  LinesInv'
  BY <1>1, <1>2 DEF Idle
<1>3. ASSUME NEW w \in Workers,
             \/ \E o \in Orders : OrderCreated(w, o) \/ OrderDelivered(w, o)
             \/ Connect(w) \/ Disconnect(w)
      PROVE  LinesInv'
  BY <1>3, LinesStay DEF OrderCreated, OrderDelivered, Connect, Disconnect
<1>4. ASSUME NEW w \in Workers, NEW o \in Orders, NEW ov \in BOOLEAN, OrderPaid(w, o, ov)
      PROVE  LinesInv'
  BY <1>0, <1>1, <1>4 DEF OrderPaid
<1>5. ASSUME NEW w \in Workers, Deliver(w) PROVE LinesInv'
  <2>1. Goes(w, Idle) \/ Goes(w, [pc |-> "pick", who |-> job[w].who]) BY <1>5 DEF Deliver
  <2> QED BY <1>0, <1>1, <1>2, <1>5, <2>1 DEF Deliver
<1>6. ASSUME NEW w \in Workers, PickCard(w) PROVE LinesInv'
  <2> DEFINE go == [pc |-> "read", who |-> job[w].who, c |-> Least({c \in Cards : Stocked(c)})]
  <2>1. go.pc = "read" OBVIOUS
  <2>2. (Goes(w, go) \/ Goes(w, Idle)) /\ UNCHANGED <<cards, cons, restock, raced, crossed>>
    BY <1>6 DEF PickCard
  <2> HIDE DEF go
  <2> QED BY <1>0, <1>1, <1>2, <2>1, <2>2
<1>7. ASSUME NEW p \in Workers \cup {Redo}, Send(p) PROVE LinesInv'
  <2>1. PICK ok \in BOOLEAN :
          Goes(p, [pc |-> "record", who |-> job[p].who, code |-> job[p].code, ok |-> ok])
    BY <1>7 DEF Send
  <2>2. UNCHANGED <<cards, cons, restock, raced, crossed>> BY <1>7 DEF Send
  <2> QED BY <1>0, <1>1, <2>1, <2>2
<1>8. ASSUME NEW p \in Workers \cup {Redo}, Record(p) PROVE LinesInv'
  <2>1. /\ UNCHANGED <<cards, restock, raced, crossed>> /\ Goes(p, Idle)
        /\ cons' = [i \in DOMAIN cons |->
              IF i \in RowsOf(job[p].who) THEN [cons[i] EXCEPT !.ok = job[p].ok] ELSE cons[i]]
    BY <1>8 DEF Record, RecordOutcome
  <2>2. /\ DOMAIN cons' = DOMAIN cons
        /\ \A i \in DOMAIN cons : cons'[i].card = cons[i].card /\ cons'[i].code = cons[i].code
    BY <2>1 DEF StoreInv, ConsTypeOK
  <2>3. \A c : Held(c)' = Held(c) BY <2>2 DEF Held, Rows
  <2>4. \A q \in Procs : job'[q] = job[q] \/ job'[q].pc = "idle"
    BY <1>0, <2>1 DEF Goes, Idle, StoreInv, JobsTypeOK
  <2>5. JobsSeeLines' BY <2>1, <2>4 DEF LinesInv, JobsSeeLines, Sees
  <2>6. RestockAdds' BY <2>1 DEF LinesInv, RestockAdds
  <2> QED BY <2>1, <2>3, <2>5, <2>6, LinesKeep
<1>9. ASSUME Die PROVE LinesInv'
  <2>1. UNCHANGED <<cards, cons, restock, raced, crossed>> BY <1>9 DEF Die
  <2>2. \A q \in Procs : job'[q] = job[q] \/ job'[q].pc = "idle"
    BY <1>9 DEF Die, Idle, StoreInv, JobsTypeOK
  <2>3. JobsSeeLines' BY <2>1, <2>2 DEF LinesInv, JobsSeeLines, Sees
  <2>4. RestockAdds' BY <2>1 DEF LinesInv, RestockAdds
  <2> QED BY <2>1, <2>3, <2>4, SameCons, LinesKeep
<1>10. ASSUME NEW o \in Orders, Redeliver(o) PROVE LinesInv'
  BY <1>0, <1>1, <1>10 DEF Redeliver
<1>11. ASSUME ConnectRedo PROVE LinesInv'
  <2> DEFINE go == [job[Redo] EXCEPT !.pc = "retry"]
  <2>1. go.pc = "retry" BY <1>11 DEF ConnectRedo, At, StoreInv, JobsTypeOK, Sound
  <2>2. (Goes(Redo, go) \/ Goes(Redo, Idle)) /\ UNCHANGED <<cards, cons, restock, raced, crossed>>
    BY <1>11 DEF ConnectRedo
  <2> HIDE DEF go
  <2> QED BY <1>0, <1>1, <1>2, <2>1, <2>2
<1>12. ASSUME Retry PROVE LinesInv'
  <2> DEFINE o == job[Redo].who
             go == [pc |-> "send", who |-> o, code |-> cons[Least(Failed(o))].code]
  <2>1. go.pc = "send" OBVIOUS
  <2>2. (Goes(Redo, go) \/ Goes(Redo, Idle)) /\ UNCHANGED <<cards, cons, restock, raced, crossed>>
    BY <1>12 DEF Retry
  <2> HIDE DEF go
  <2> QED BY <1>0, <1>1, <1>2, <2>1, <2>2
<1>13. ASSUME NEW o \in Orders, NEW st, NEW ov, Sync(o, st, ov) PROVE LinesInv'
  BY <1>13, LinesStay DEF Sync
<1>14. ASSUME NEW c \in Cards, NEW h \in Hands, Consume(h, c) PROVE LinesInv'
  BY <1>0, <1>1, <1>14 DEF Consume
<1>15. ASSUME NEW c \in Cards, RestockReads(c) PROVE LinesInv'
  <2>1. UNCHANGED <<cards, cons, job, raced, crossed>> BY <1>15 DEF RestockReads
  <2>2. PICK code \in Refill[c] \ Range(cards[c].lines) :
          restock' = [pc |-> "write", c |-> c,
                      lines |-> Append(cards[c].lines, code), left |-> cards[c].left + 1]
    BY <1>15 DEF RestockReads
  <2>3. cards[c].lines \in Seq(CodesOf(c)) /\ cards[c].left \in Int /\ code \in CodesOf(c)
    BY DEF StoreInv, CardsTypeOK, CodesOf
  <2>4. Range(Append(cards[c].lines, code)) = Range(cards[c].lines) \cup {code}
    BY <2>3, AppendRange
  <2>5. RestockAdds' BY <2>1, <2>2, <2>3, <2>4 DEF RestockAdds
  <2>6. JobsSeeLines' BY <2>1 DEF LinesInv, JobsSeeLines, Sees
  <2> QED BY <2>1, <2>5, <2>6, SameCons, LinesKeep
<1>16. ASSUME NEW c \in Cards, SetEnabled(c) PROVE LinesInv'
  <2>1. /\ UNCHANGED <<cons, restock, job, raced, crossed>>
        /\ cards' = [cards EXCEPT ![c].enabled = ~@]
    BY <1>16 DEF SetEnabled
  <2>2. \A d \in Cards : /\ cards'[d].lines = cards[d].lines /\ cards'[d].left = cards[d].left
                         /\ cards'[d].live = cards[d].live
    BY <2>1 DEF StoreInv, CardsTypeOK
  <2>3. JobsSeeLines'
    <3> SUFFICES ASSUME NEW q \in Procs PROVE Sees(job[q])' BY <2>1 DEF JobsSeeLines
    <3>1. job[q].pc \in {"choose", "take"} => job[q].c \in Cards BY DEF StoreInv, JobsTypeOK, Sound
    <3> QED BY <2>1, <2>2, <3>1 DEF LinesInv, JobsSeeLines, Sees
  <2>4. restock.pc = "write" => restock.c \in Cards BY DEF StoreInv, RestockTypeOK
  <2>5. RestockAdds' BY <2>1, <2>2, <2>4 DEF LinesInv, RestockAdds
  <2> QED BY <2>1, <2>2, <2>3, <2>5, SameCons, LinesKeep
<1> HIDE DEF orderRows, stockRows, history, races, bounds
<1>17. WorkerNext => LinesInv'
  BY <1>3, <1>4, <1>5, <1>6, <1>7, <1>8, <1>9, ReadKeepsLines, TakeKeepsLines DEF WorkerNext
<1>18. CommandNext => LinesInv'
  BY <1>10, <1>11, <1>12, <1>13, <1>14, <1>15, <1>16, RestockKeepsLines, DeletionKeepsLines
  DEF CommandNext
<1> QED BY <1>17, <1>18 DEF Next

\* The stock of a card counts its free lines: none that is sold unless a restock
\* wrote over a sale, and all that are not unless two takers took one code.
THEOREM StockCountsLines == Spec => []StockIsExact
<1>1. Init => LinesInv
  <2> SUFFICES ASSUME Init PROVE LinesInv OBVIOUS
  <2>1. \A c : Held(c) = {} BY DEF Init, Rows, Held
  <2>2. \A c \in Cards : cards[c].lines = Stock[c] /\ cards[c].left = Len(Stock[c]) BY DEF Init
  <2>3. ASSUME NEW c \in Cards
        PROVE  Cardinality(FreeLines(c)) = cards[c].left /\ cards[c].left \in Nat
    <3>1. Stock[c] \in Seq(Range(Stock[c])) /\ IsInjective(Stock[c]) BY DeliveryAssumption
    <3>2. Len(Stock[c]) \in Nat /\ DOMAIN Stock[c] = 1 .. Len(Stock[c]) BY <3>1
    <3>3. Cardinality(Range(Stock[c])) = Len(Stock[c]) BY <3>1, DistinctLines
    <3>4. FreeLines(c) = Range(Stock[c]) BY <2>1, <2>2 DEF FreeLines
    <3> QED BY <2>2, <3>2, <3>3, <3>4
  <2>4. StockIsExact BY <2>3 DEF StockIsExact
  <2>5. SoldAreLines BY <2>1 DEF SoldAreLines
  <2>6. JobsSeeLines /\ RestockAdds BY DEF Init, JobsSeeLines, Sees, RestockAdds, Idle, Procs
  <2> QED BY <2>4, <2>5, <2>6 DEF LinesInv
<1>2. StoreInv /\ LinesInv /\ [Next]_vars => LinesInv'
  <2> SUFFICES ASSUME StoreInv, LinesInv, [Next]_vars PROVE LinesInv' OBVIOUS
  <2>1. CASE UNCHANGED vars BY <2>1, LinesStay DEF vars, stockRows, history, races
  <2> QED BY <2>1, StepKeepsLines
<1>3. LinesInv => StockIsExact BY DEF LinesInv
<1> QED BY <1>1, <1>2, <1>3, StoreInvariant, PTL DEF Spec

-----------------------------------------------------------------------------
(* The consumptions tell what was sold.                                    *)

\* Workers that may still take a code for order o.
Owed(o) ==
  {w \in Workers : job[w].pc \in {"deliver", "pick", "read", "choose", "take"} /\ job[w].who = o}

\* Each payment is for one code, taken or still to be taken.
PaymentsCover ==
  \A o \in Orders : IsFiniteSet(Owed(o)) /\ Cardinality(RowsOf(o)) + Cardinality(Owed(o)) <= paid[o]

OnRecord(o, code) == o \in forgot \/ \E i \in RowsOf(o) : cons[i].code = code

\* What a process is about to send is on record already.
SendsOnRecord == \A p \in Procs : At(p, "send") => OnRecord(job[p].who, job[p].code)

SalesInv == paid \in [Orders -> Nat] /\ PaymentsCover /\ SendsOnRecord /\ SentIsOnRecord

\* No payment is added, and no order gets a row or another worker.
LEMMA CoverStays ==
  ASSUME ConsTypeOK, paid \in [Orders -> Nat], PaymentsCover, UNCHANGED paid,
         \A o \in Orders : RowsOf(o)' \subseteq RowsOf(o) /\ Owed(o)' \subseteq Owed(o)
  PROVE  PaymentsCover'
<1> SUFFICES ASSUME NEW o \in Orders
    PROVE  IsFiniteSet(Owed(o)') /\ Cardinality(RowsOf(o)') + Cardinality(Owed(o)') <= paid'[o]
  BY DEF PaymentsCover
<1>1. /\ IsFiniteSet(Owed(o)) /\ IsFiniteSet(RowsOf(o))
      /\ Cardinality(RowsOf(o)) + Cardinality(Owed(o)) <= paid[o]
  BY RowsAreFinite DEF PaymentsCover
<1>2. /\ IsFiniteSet(Owed(o)') /\ Cardinality(Owed(o)') <= Cardinality(Owed(o))
      /\ IsFiniteSet(RowsOf(o)') /\ Cardinality(RowsOf(o)') <= Cardinality(RowsOf(o))
  BY <1>1, FS_Subset
<1>3. /\ Cardinality(Owed(o)) \in Nat /\ Cardinality(Owed(o)') \in Nat
      /\ Cardinality(RowsOf(o)) \in Nat /\ Cardinality(RowsOf(o)') \in Nat
  BY <1>1, <1>2, FS_CardinalityType
<1> QED BY <1>1, <1>2, <1>3

\* A process moves, to a send only of what is on record, and to a taking of a
\* code only from one for the same order.
Moves(p, j) ==
  /\ Goes(p, j)
  /\ j.pc = "send" => OnRecord(j.who, j.code)
  /\ j.pc \in {"deliver", "pick", "read", "choose", "take"} /\ p \in Workers => p \in Owed(j.who)

LEMMA OwedShrinks ==
  ASSUME NEW p \in Procs, NEW j, Moves(p, j), NEW o
  PROVE  Owed(o)' \subseteq Owed(o)
BY DEF Moves, Goes, Owed

LEMMA SalesMove ==
  ASSUME StoreInv, SalesInv, NEW p \in Procs, NEW j, Moves(p, j), UNCHANGED <<cons, paid, sent, forgot>>
  PROVE  SalesInv'
<1>1. \A o : RowsOf(o)' = RowsOf(o) BY SameCons
<1>2. PaymentsCover' BY <1>1, OwedShrinks, CoverStays DEF StoreInv, SalesInv
<1>4. SendsOnRecord'
  <2> SUFFICES ASSUME NEW q \in Procs, job'[q].pc = "send"
      PROVE  OnRecord(job'[q].who, job'[q].code)
    BY <1>1 DEF SendsOnRecord, At, OnRecord
  <2>1. CASE q = p BY <2>1 DEF Moves, Goes, StoreInv, JobsTypeOK
  <2>2. CASE q # p BY <2>2 DEF Moves, Goes, StoreInv, JobsTypeOK, SalesInv, SendsOnRecord, At
  <2> QED BY <2>1, <2>2
<1>5. SentIsOnRecord' BY <1>1 DEF SalesInv, SentIsOnRecord
<1> QED BY <1>2, <1>4, <1>5 DEF SalesInv

\* No process moves, and no row is lost or found.
LEMMA SalesStay ==
  ASSUME StoreInv, SalesInv, UNCHANGED <<cons, job, paid, sent, forgot>>
  PROVE  SalesInv'
BY DEF SalesInv, PaymentsCover, SendsOnRecord, SentIsOnRecord, OnRecord, RowsOf, Owed, At

LEMMA IdleMoves == ASSUME NEW p, Goes(p, Idle) PROVE Moves(p, Idle)
BY DEF Moves, Idle

LEMMA OrderPaidKeepsSales ==
  ASSUME StoreInv, SalesInv, NEW w \in Workers, NEW o \in Orders, NEW ov \in BOOLEAN,
         OrderPaid(w, o, ov)
  PROVE  SalesInv'
<1>1. /\ job[w].pc = "idle" /\ Goes(w, [pc |-> "deliver", who |-> o, over |-> ov])
      /\ UNCHANGED <<cons, sent, forgot>> /\ paid' = [paid EXCEPT ![o] = @ + 1]
  BY DEF OrderPaid, Handles, At, stockRows
<1>2. w \in Procs /\ DOMAIN job = Procs BY DEF StoreInv, JobsTypeOK, Procs
<1>3. \A q \in Procs : q # w => job'[q] = job[q] BY <1>1, <1>2 DEF Goes
<1>4. job'[w] = [pc |-> "deliver", who |-> o, over |-> ov] BY <1>1, <1>2 DEF Goes
<1>5. Workers \subseteq Procs BY DEF Procs
<1>6. w \notin Owed(o) /\ Owed(o)' = Owed(o) \cup {w} BY <1>1, <1>3, <1>4, <1>5 DEF Owed
<1>7. \A x : x # o => Owed(x)' = Owed(x) BY <1>1, <1>3, <1>4, <1>5 DEF Owed
<1>8. \A x : RowsOf(x)' = RowsOf(x) BY <1>1, SameCons
<1>9. paid' \in [Orders -> Nat] BY <1>1 DEF SalesInv
<1>10. ASSUME NEW x \in Orders
       PROVE  IsFiniteSet(Owed(x)') /\ Cardinality(RowsOf(x)') + Cardinality(Owed(x)') <= paid'[x]
  <2>1. /\ IsFiniteSet(Owed(x)) /\ Cardinality(RowsOf(x)) + Cardinality(Owed(x)) <= paid[x]
        /\ Cardinality(RowsOf(x)) \in Nat /\ Cardinality(Owed(x)) \in Nat
        /\ paid[x] \in Nat
    BY RowsAreFinite, FS_CardinalityType DEF StoreInv, SalesInv, PaymentsCover
  <2>2. CASE x = o
    <3>1. IsFiniteSet(Owed(o)') /\ Cardinality(Owed(o)') = Cardinality(Owed(o)) + 1
      BY <1>6, <2>1, <2>2, FS_AddElement
    <3>2. paid'[o] = paid[o] + 1 BY <1>1 DEF SalesInv
    <3> QED BY <1>8, <2>1, <2>2, <3>1, <3>2
  <2>3. CASE x # o
    <3>1. paid'[x] = paid[x] BY <1>1, <2>3 DEF SalesInv
    <3> QED BY <1>7, <1>8, <2>1, <2>3, <3>1
  <2> QED BY <2>2, <2>3
<1>11. PaymentsCover' BY <1>10 DEF PaymentsCover
<1>12. SendsOnRecord'
  <2> SUFFICES ASSUME NEW q \in Procs, job'[q].pc = "send"
      PROVE  OnRecord(job'[q].who, job'[q].code)
    BY <1>1, <1>8 DEF SendsOnRecord, At, OnRecord
  <2>1. q # w BY <1>4
  <2> QED BY <1>3, <2>1 DEF SalesInv, SendsOnRecord, At
<1>13. SentIsOnRecord' BY <1>1, <1>8 DEF SalesInv, SentIsOnRecord
<1> QED BY <1>9, <1>11, <1>12, <1>13 DEF SalesInv

\* A code is taken for a payment, or for no order at all.
LEMMA TakeKeepsSales ==
  ASSUME StoreInv, SalesInv, NEW p \in Workers \cup Hands, TakeCode(p)
  PROVE  SalesInv'
<1>0. PICK who, code : who = job[p].who /\ code = job[p].code OBVIOUS
<1> DEFINE go == [pc |-> "send", who |-> who, code |-> code]
<1>1. /\ job[p].pc = "take" /\ UNCHANGED <<paid, sent, forgot>> /\ p \in Procs
      /\ DOMAIN job = Procs /\ Sound(p, job[p])
  BY DEF TakeCode, At, history, races, Procs, StoreInv, JobsTypeOK
<1>2. CASE Goes(p, Idle) /\ UNCHANGED stockRows
  BY <1>1, <1>2, SalesMove, IdleMoves DEF stockRows
<1>3. CASE Take(job[p].c, who, code) /\ Goes(p, IF p \in Workers THEN go ELSE Idle)
  <2>1. /\ NextId \notin DOMAIN cons
        /\ \A i \in DOMAIN cons : i \in DOMAIN cons' /\ cons'[i] = cons[i]
        /\ NextId \in DOMAIN cons' /\ cons'[NextId].code = code /\ cons'[NextId].who = who
        /\ \A o : RowsOf(o)' = RowsOf(o) \cup (IF o = who THEN {NextId} ELSE {})
    BY <1>3, TakeAddsARow DEF StoreInv
  <2>4. SendsOnRecord'
    <3> SUFFICES ASSUME NEW q \in Procs, job'[q].pc = "send"
        PROVE  \/ job'[q].who \in forgot'
               \/ \E i \in DOMAIN cons' : cons'[i].who = job'[q].who /\ cons'[i].code = job'[q].code
      BY DEF SendsOnRecord, At, OnRecord, RowsOf
    <3>1. CASE q = p
      <4>1. job'[p] = (IF p \in Workers THEN go ELSE Idle) BY <1>1, <1>3 DEF Goes
      <4>2. job'[p] = go BY <3>1, <4>1 DEF Idle
      <4>3. job'[q].who = who /\ job'[q].code = code BY <3>1, <4>2
      <4> QED BY <2>1, <4>3
    <3>2. CASE q # p
      <4>1. job'[q] = job[q] BY <1>1, <1>3, <3>2 DEF Goes
      <4>2. OnRecord(job[q].who, job[q].code) BY <4>1 DEF SalesInv, SendsOnRecord, At
      <4> QED BY <1>1, <2>1, <4>1, <4>2 DEF OnRecord, RowsOf
    <3> QED BY <3>1, <3>2
  <2>5. SentIsOnRecord' BY <1>1, <2>1 DEF SalesInv, SentIsOnRecord, RowsOf
  <2>6. PaymentsCover'
    <3>1. CASE p \in Workers
      <4>1. /\ job'[p] = go /\ \A q \in Procs : q # p => job'[q] = job[q]
            /\ Workers \subseteq Procs
        BY <1>1, <1>3, <3>1 DEF Goes, Procs
      <4>2. who \in Orders /\ job[p].who = who
        BY <1>0, <1>1, <3>1, DeliveryAssumption DEF Sound
      <4>3. p \in Owed(who) /\ Owed(who)' = Owed(who) \ {p}
        BY <1>0, <1>1, <3>1, <4>1, <4>2 DEF Owed
      <4>4. \A o : o # who => Owed(o)' = Owed(o) BY <1>0, <1>1, <4>1, <4>2 DEF Owed
      <4>5. ASSUME NEW o \in Orders
            PROVE  /\ IsFiniteSet(Owed(o)')
                   /\ Cardinality(RowsOf(o)') + Cardinality(Owed(o)') <= paid'[o]
        <5>1. /\ IsFiniteSet(Owed(o)) /\ IsFiniteSet(RowsOf(o))
              /\ Cardinality(RowsOf(o)) + Cardinality(Owed(o)) <= paid[o]
              /\ Cardinality(RowsOf(o)) \in Nat /\ Cardinality(Owed(o)) \in Nat /\ paid[o] \in Nat
          BY RowsAreFinite, FS_CardinalityType DEF StoreInv, SalesInv, PaymentsCover
        <5>2. CASE o = who
          <6>1. /\ IsFiniteSet(Owed(o) \ {p})
                /\ Cardinality(Owed(o) \ {p}) = Cardinality(Owed(o)) - 1
            BY <4>3, <5>1, <5>2, FS_RemoveElement
          <6>4. IsFiniteSet(Owed(o)') /\ Cardinality(Owed(o)') = Cardinality(Owed(o)) - 1
            BY <4>3, <5>2, <6>1
          <6>2. RowsOf(o)' = RowsOf(o) \cup {NextId} /\ NextId \notin RowsOf(o)
            BY <2>1, <5>2 DEF RowsOf
          <6>3. Cardinality(RowsOf(o)') = Cardinality(RowsOf(o)) + 1
            BY <5>1, <6>2, FS_AddElement
          <6> QED BY <1>1, <5>1, <6>3, <6>4
        <5>3. CASE o # who BY <1>1, <2>1, <4>4, <5>1, <5>3
        <5> QED BY <5>2, <5>3
      <4> QED BY <4>5 DEF PaymentsCover
    <3>2. CASE p \notin Workers
      <4>1. who \notin Orders BY <1>0, <1>1, <3>2, DeliveryAssumption DEF Sound
      <4>2. \A o \in Orders : RowsOf(o)' = RowsOf(o) BY <2>1, <4>1
      <4>3. \A o : Owed(o)' = Owed(o) BY <1>1, <1>3, <3>2 DEF Owed, Goes
      <4> QED BY <1>1, <4>2, <4>3, CoverStays DEF StoreInv, SalesInv
    <3> QED BY <3>1, <3>2
  <2> QED BY <1>1, <2>4, <2>5, <2>6 DEF SalesInv
<1> QED BY <1>0, <1>2, <1>3 DEF TakeCode

LEMMA SendKeepsSales ==
  ASSUME StoreInv, SalesInv, NEW p \in Workers \cup {Redo}, Send(p)
  PROVE  SalesInv'
<1>1. PICK ok \in BOOLEAN, out \in BOOLEAN :
        /\ sent' = IF out THEN sent \cup {<<job[p].who, job[p].code>>} ELSE sent
        /\ Goes(p, [pc |-> "record", who |-> job[p].who, code |-> job[p].code, ok |-> ok])
  BY DEF Send
<1> DEFINE j == [pc |-> "record", who |-> job[p].who, code |-> job[p].code, ok |-> ok]
<1>2. job[p].pc = "send" /\ p \in Procs /\ UNCHANGED <<cons, paid, forgot>>
  BY DEF Send, At, Procs, stockRows
<1>3. OnRecord(job[p].who, job[p].code) BY <1>2 DEF SalesInv, SendsOnRecord, At
<1>4. Moves(p, j) BY <1>1 DEF Moves
<1>5. \A o : RowsOf(o)' = RowsOf(o) BY <1>2, SameCons
<1>6. PaymentsCover' BY <1>2, <1>4, <1>5, OwedShrinks, CoverStays DEF StoreInv, SalesInv
<1>7. SendsOnRecord'
  <2> SUFFICES ASSUME NEW q \in Procs, job'[q].pc = "send"
      PROVE  OnRecord(job'[q].who, job'[q].code)
    BY <1>2, <1>5 DEF SendsOnRecord, At, OnRecord
  <2>1. q # p /\ job'[q] = job[q] BY <1>1 DEF Goes, StoreInv, JobsTypeOK
  <2> QED BY <2>1 DEF SalesInv, SendsOnRecord, At
<1>8. ASSUME NEW s \in sent'
      PROVE  s[1] \in forgot' \/ \E i \in RowsOf(s[1])' : cons'[i].code = s[2]
  <2>1. OnRecord(s[1], s[2]) BY <1>1, <1>3, <1>8 DEF SalesInv, SentIsOnRecord, OnRecord
  <2> QED BY <1>2, <1>5, <2>1 DEF OnRecord
<1>9. SentIsOnRecord' BY <1>8 DEF SentIsOnRecord
<1> QED BY <1>2, <1>6, <1>7, <1>9 DEF SalesInv

\* A row's outcome says nothing of whom it is for.
LEMMA RecordKeepsSales ==
  ASSUME StoreInv, SalesInv, NEW p \in Workers \cup {Redo}, Record(p)
  PROVE  SalesInv'
<1>1. /\ p \in Procs /\ Goes(p, Idle) /\ UNCHANGED <<paid, sent, forgot>>
      /\ cons' = [i \in DOMAIN cons |->
                    IF i \in RowsOf(job[p].who) THEN [cons[i] EXCEPT !.ok = job[p].ok] ELSE cons[i]]
  BY DEF Record, RecordOutcome, Procs, history, races
<1>2. /\ DOMAIN cons' = DOMAIN cons
      /\ \A i \in DOMAIN cons : cons'[i].who = cons[i].who /\ cons'[i].code = cons[i].code
  BY <1>1 DEF StoreInv, ConsTypeOK
<1>3. \A o : RowsOf(o)' = RowsOf(o) BY <1>2 DEF RowsOf
<1>4. \A o : Owed(o)' \subseteq Owed(o) BY <1>1, OwedShrinks, IdleMoves
<1>5. PaymentsCover' BY <1>1, <1>3, <1>4, CoverStays DEF StoreInv, SalesInv
<1>6. SendsOnRecord'
  <2> SUFFICES ASSUME NEW q \in Procs, job'[q].pc = "send"
      PROVE  \/ job'[q].who \in forgot'
             \/ \E i \in DOMAIN cons' : cons'[i].who = job'[q].who /\ cons'[i].code = job'[q].code
    BY DEF SendsOnRecord, At, OnRecord, RowsOf
  <2>1. job'[q] = job[q] BY <1>1 DEF Goes, StoreInv, JobsTypeOK, Idle
  <2>2. OnRecord(job[q].who, job[q].code) BY <2>1 DEF SalesInv, SendsOnRecord, At
  <2> QED BY <1>1, <1>2, <2>1, <2>2 DEF OnRecord, RowsOf
<1>7. SentIsOnRecord' BY <1>1, <1>2 DEF SalesInv, SentIsOnRecord, RowsOf
<1> QED BY <1>1, <1>5, <1>6, <1>7 DEF SalesInv

\* A death takes back nothing that was recorded.
LEMMA DeathKeepsSales ==
  ASSUME StoreInv, SalesInv, Die
  PROVE  SalesInv'
<1>1. /\ job' = [p \in Procs |-> IF p \in Workers THEN Idle ELSE job[p]]
      /\ UNCHANGED <<cons, paid, sent, forgot>>
  BY DEF Die, StoreInv, JobsTypeOK, stockRows, history, races
<1>2. \A o : RowsOf(o)' = RowsOf(o) BY <1>1, SameCons
<1>3. \A o : Owed(o)' \subseteq Owed(o) BY <1>1 DEF Owed, Idle, Procs
<1>4. PaymentsCover' BY <1>1, <1>2, <1>3, CoverStays DEF StoreInv, SalesInv
<1>5. SendsOnRecord'
  <2> SUFFICES ASSUME NEW q \in Procs, job'[q].pc = "send"
      PROVE  OnRecord(job'[q].who, job'[q].code)
    BY <1>1, <1>2 DEF SendsOnRecord, At, OnRecord
  <2>1. job'[q] = job[q] BY <1>1 DEF Idle
  <2> QED BY <2>1 DEF SalesInv, SendsOnRecord, At
<1>6. SentIsOnRecord' BY <1>1, <1>2 DEF SalesInv, SentIsOnRecord
<1> QED BY <1>1, <1>4, <1>5, <1>6 DEF SalesInv

\* A deletion forgets whom the rows were for.
LEMMA DeletionKeepsSales ==
  ASSUME StoreInv, SalesInv, NEW c \in Cards, DeleteCard(c)
  PROVE  SalesInv'
<1>1. /\ UNCHANGED <<job, paid, sent>>
      /\ cons' = [i \in DOMAIN cons \ Rows(c) |-> cons[i]]
      /\ forgot' = forgot \cup {cons[i].who : i \in Rows(c)}
  BY DEF DeleteCard, Restrict
<1>2. /\ DOMAIN cons' = DOMAIN cons \ Rows(c)
      /\ \A i \in DOMAIN cons' : cons'[i] = cons[i]
  BY <1>1
<1>3. ASSUME NEW o, NEW i \in DOMAIN cons, cons[i].who = o
      PROVE  o \in forgot' \/ i \in DOMAIN cons'
  BY <1>1, <1>2, <1>3
<1>4. \A o : RowsOf(o)' \subseteq RowsOf(o) /\ Owed(o)' = Owed(o)
  BY <1>1, <1>2 DEF RowsOf, Owed
<1>5. PaymentsCover' BY <1>1, <1>4, CoverStays DEF StoreInv, SalesInv
<1>6. forgot \subseteq forgot' BY <1>1
<1>7. SendsOnRecord'
  <2> SUFFICES ASSUME NEW q \in Procs, job[q].pc = "send"
      PROVE  \/ job[q].who \in forgot'
             \/ \E i \in DOMAIN cons' : cons'[i].who = job[q].who /\ cons'[i].code = job[q].code
    BY <1>1 DEF SendsOnRecord, At, OnRecord, RowsOf
  <2>1. OnRecord(job[q].who, job[q].code) BY DEF SalesInv, SendsOnRecord, At
  <2> QED BY <1>2, <1>3, <1>6, <2>1 DEF OnRecord, RowsOf
<1>8. SentIsOnRecord' BY <1>1, <1>2, <1>3, <1>6 DEF SalesInv, SentIsOnRecord, RowsOf
<1> QED BY <1>1, <1>5, <1>7, <1>8 DEF SalesInv

\* A retry sends what a consumption of the order says.
LEMMA RetryKeepsSales ==
  ASSUME StoreInv, SalesInv, Retry
  PROVE  SalesInv'
<1>0. PICK o : o = job[Redo].who OBVIOUS
<1> DEFINE k == Least(Failed(o))
           go == [pc |-> "send", who |-> o, code |-> cons[k].code]
<1>1. Redo \in Procs /\ Redo \notin Workers /\ UNCHANGED <<cons, paid, sent, forgot>>
  BY DeliveryAssumption DEF Procs, Retry, stockRows, history, races
<1>2. CASE Goes(Redo, Idle) BY <1>1, <1>2, SalesMove, IdleMoves
<1>3. CASE Failed(o) # {} /\ Goes(Redo, go)
  <2>1. Failed(o) \subseteq Nat BY DEF Failed, RowsOf, StoreInv, ConsTypeOK
  <2>2. k \in RowsOf(o) BY <1>3, <2>1, LeastIsOne DEF Failed
  <2> HIDE DEF k
  <2>3. OnRecord(o, cons[k].code) BY <2>2 DEF OnRecord
  <2>4. Moves(Redo, go) BY <1>1, <1>3, <2>3 DEF Moves
  <2> QED BY <1>1, <2>4, SalesMove
<1> QED BY <1>0, <1>2, <1>3 DEF Retry, Retries

\* Every other step moves one process, or none.
LEMMA StepKeepsSales ==
  ASSUME StoreInv, SalesInv, Next
  PROVE  SalesInv'
<1> USE DEF orderRows, stockRows, history, races, bounds
<1>0. /\ \A w \in Workers : w \in Procs
      /\ \A p \in Workers \cup Hands : p \in Procs
      /\ Redo \in Procs /\ Redo \notin Workers /\ \A h \in Hands : h \in Procs /\ h \notin Workers
  BY DeliveryAssumption DEF Procs
<1>1. ASSUME NEW w \in Workers, NEW o \in Orders, OrderCreated(w, o) \/ OrderDelivered(w, o)
      PROVE  SalesInv'
  BY <1>1, SalesStay DEF OrderCreated, OrderDelivered
<1>2. ASSUME NEW w \in Workers, Deliver(w) PROVE SalesInv'
  <2> DEFINE go == [pc |-> "pick", who |-> job[w].who]
  <2>1. w \in Owed(go.who) BY <1>2 DEF Deliver, At, Owed
  <2>2. Goes(w, go) => Moves(w, go) BY <2>1 DEF Moves
  <2>3. (Goes(w, go) \/ Goes(w, Idle)) /\ UNCHANGED <<cons, paid, sent, forgot>>
    BY <1>2 DEF Deliver
  <2> QED BY <1>0, <2>2, <2>3, SalesMove, IdleMoves
<1>3. ASSUME NEW w \in Workers, PickCard(w) PROVE SalesInv'
  <2> DEFINE go == [pc |-> "read", who |-> job[w].who, c |-> Least({c \in Cards : Stocked(c)})]
  <2>1. w \in Owed(go.who) BY <1>3 DEF PickCard, At, Owed
  <2>2. Goes(w, go) => Moves(w, go) BY <2>1 DEF Moves
  <2>3. (Goes(w, go) \/ Goes(w, Idle)) /\ UNCHANGED <<cons, paid, sent, forgot>>
    BY <1>3 DEF PickCard
  <2> QED BY <1>0, <2>2, <2>3, SalesMove, IdleMoves
<1>4. ASSUME NEW w \in Workers, Connect(w) \/ Disconnect(w) PROVE SalesInv'
  BY <1>4, SalesStay DEF Connect, Disconnect
<1>5. ASSUME NEW p \in Workers \cup Hands, ReadCard(p) PROVE SalesInv'
  <2> DEFINE go == [pc |-> "choose", who |-> job[p].who, c |-> job[p].c, lines |-> cards[job[p].c].lines]
  <2>1. p \in Workers => p \in Owed(go.who) BY <1>5 DEF ReadCard, At, Owed
  <2>2. Goes(p, go) => Moves(p, go) BY <2>1 DEF Moves
  <2>3. (Goes(p, go) \/ Goes(p, Idle)) /\ UNCHANGED <<cons, paid, sent, forgot>>
    BY <1>5 DEF ReadCard
  <2> QED BY <1>0, <2>2, <2>3, SalesMove, IdleMoves
<1>6. ASSUME NEW p \in Workers \cup Hands, ChooseCode(p) PROVE SalesInv'
  <2> DEFINE go == [pc |-> "take", who |-> job[p].who, c |-> job[p].c,
                    code |-> Choice(job[p].c, job[p].lines)]
  <2>1. p \in Workers => p \in Owed(go.who) BY <1>6 DEF ChooseCode, At, Owed
  <2>2. Goes(p, go) => Moves(p, go) BY <2>1 DEF Moves
  <2>3. (Goes(p, go) \/ Goes(p, Idle)) /\ UNCHANGED <<cons, paid, sent, forgot>>
    BY <1>6 DEF ChooseCode
  <2> QED BY <1>0, <2>2, <2>3, SalesMove, IdleMoves
<1>7. ASSUME NEW o \in Orders, Redeliver(o) PROVE SalesInv'
  <2>1. Moves(Redo, [pc |-> "connect", who |-> o]) BY <1>7 DEF Moves, Redeliver
  <2>2. UNCHANGED <<cons, paid, sent, forgot>> BY <1>7 DEF Redeliver
  <2> QED BY <1>0, <2>1, <2>2, SalesMove
<1>8. ASSUME ConnectRedo PROVE SalesInv'
  <2> DEFINE go == [job[Redo] EXCEPT !.pc = "retry"]
  <2>1. go.pc = "retry" BY <1>8 DEF ConnectRedo, At, StoreInv, JobsTypeOK, Sound
  <2>2. Goes(Redo, go) => Moves(Redo, go) BY <2>1 DEF Moves
  <2>3. (Goes(Redo, go) \/ Goes(Redo, Idle)) /\ UNCHANGED <<cons, paid, sent, forgot>>
    BY <1>8 DEF ConnectRedo
  <2> HIDE DEF go
  <2> QED BY <1>0, <2>2, <2>3, SalesMove, IdleMoves
<1>9. ASSUME NEW o \in Orders, NEW st, NEW ov, Sync(o, st, ov) PROVE SalesInv'
  BY <1>9, SalesStay DEF Sync
<1>10. ASSUME NEW c \in Cards, NEW h \in Hands, Consume(h, c) PROVE SalesInv'
  <2> DEFINE go == [pc |-> "read", who |-> h, c |-> c]
  <2>1. Goes(h, go) => Moves(h, go) BY <1>0 DEF Moves
  <2>2. Goes(h, go) /\ UNCHANGED <<cons, paid, sent, forgot>> BY <1>10 DEF Consume
  <2> QED BY <1>0, <2>1, <2>2, SalesMove
<1>11. ASSUME NEW c \in Cards, RestockReads(c) \/ SetEnabled(c) PROVE SalesInv'
  BY <1>11, SalesStay DEF RestockReads, SetEnabled
<1>12. RestockWrites => SalesInv' BY SalesStay DEF RestockWrites
<1> HIDE DEF orderRows, stockRows, history, races, bounds
<1>13. WorkerNext => SalesInv'
  BY <1>1, <1>2, <1>3, <1>4, <1>5, <1>6, OrderPaidKeepsSales, TakeKeepsSales, SendKeepsSales,
     RecordKeepsSales, DeathKeepsSales
  DEF WorkerNext
<1>14. CommandNext => SalesInv'
  BY <1>7, <1>8, <1>9, <1>10, <1>11, <1>12, RetryKeepsSales, DeletionKeepsSales DEF CommandNext
<1> QED BY <1>13, <1>14 DEF Next

\* Consumptions tell what was sold, for any number of workers: an order never has
\* more of them than payments, and a code that went out is among them.
THEOREM RowsRecordSales == Spec => []RowsTellOfSales
<1>1. Init => SalesInv
  <2> SUFFICES ASSUME Init PROVE SalesInv OBVIOUS
  <2>1. \A o : RowsOf(o) = {} BY DEF Init, RowsOf
  <2>2. \A o : Owed(o) = {} BY DEF Init, Owed, Idle
  <2>3. IsFiniteSet({}) /\ Cardinality({}) = 0 BY FS_EmptySet
  <2>4. paid \in [Orders -> Nat] /\ \A o \in Orders : paid[o] = 0 BY DEF Init
  <2>5. PaymentsCover BY <2>1, <2>2, <2>3, <2>4 DEF PaymentsCover
  <2>6. SendsOnRecord /\ SentIsOnRecord BY DEF Init, SendsOnRecord, SentIsOnRecord, At, Idle, Procs
  <2> QED BY <2>4, <2>5, <2>6 DEF SalesInv
<1>2. StoreInv /\ SalesInv /\ [Next]_vars => SalesInv'
  <2> SUFFICES ASSUME StoreInv, SalesInv, [Next]_vars PROVE SalesInv' OBVIOUS
  <2>1. CASE UNCHANGED vars BY <2>1, SalesStay DEF vars, stockRows, history, races
  <2> QED BY <2>1, StepKeepsSales
<1>3. StoreInv /\ SalesInv => RowsTellOfSales
  <2> SUFFICES ASSUME StoreInv, SalesInv, NEW o \in Orders PROVE Cardinality(RowsOf(o)) <= paid[o]
    BY DEF RowsTellOfSales, OneCodePerPayment, SalesInv
  <2>1. /\ Cardinality(RowsOf(o)) \in Nat /\ Cardinality(Owed(o)) \in Nat /\ paid[o] \in Nat
        /\ Cardinality(RowsOf(o)) + Cardinality(Owed(o)) <= paid[o]
    BY RowsAreFinite, FS_CardinalityType DEF StoreInv, SalesInv, PaymentsCover
  <2> QED BY <2>1
<1> QED BY <1>1, <1>2, <1>3, StoreInvariant, PTL DEF Spec

-----------------------------------------------------------------------------
(* A code that two takers did not race for reaches one buyer.              *)

\* Order o has a claim to a code: it was sent it, has its row, or is to be sent it.
Claimed(o, code) ==
  \/ <<o, code>> \in sent
  \/ \E i \in RowsOf(o) : cons[i].code = code
  \/ \E p \in Procs : At(p, "send") /\ job[p].who = o /\ job[p].code = code

ClaimsAgree ==
  \A o, x \in Orders, code \in Codes : Claimed(o, code) /\ Claimed(x, code) => o = x \/ code \in raced

\* Until the card is deleted, each claim to one of its codes is one of its rows.
ClaimsAreRows ==
  \A o \in Orders, c \in Cards : \A code \in CodesOf(c) :
    Claimed(o, code) /\ cards[c].live => \E i \in Rows(c) : cons[i].who = o /\ cons[i].code = code

BuyersInv == sent \subseteq Orders \X Codes /\ ClaimsAgree /\ ClaimsAreRows

\* No claim is made, and no card loses a row but by its deletion.
LEMMA BuyersKeep ==
  ASSUME StoreInv, BuyersInv, sent' \subseteq Orders \X Codes, raced \subseteq raced',
         \A o \in Orders, code \in Codes : Claimed(o, code)' => Claimed(o, code),
         \A c \in Cards : cards'[c].live =>
           /\ cards[c].live
           /\ \A i \in Rows(c) : /\ i \in Rows(c)' /\ cons'[i].who = cons[i].who
                                 /\ cons'[i].code = cons[i].code
  PROVE  BuyersInv'
<1>1. ClaimsAgree' BY DEF BuyersInv, ClaimsAgree
<1>2. ASSUME NEW o \in Orders, NEW c \in Cards, NEW code \in CodesOf(c),
             Claimed(o, code)', cards'[c].live
      PROVE  \E i \in Rows(c)' : cons'[i].who = o /\ cons'[i].code = code
  <2>1. code \in Codes BY DEF CodesOf, Codes
  <2>2. Claimed(o, code) /\ cards[c].live BY <1>2, <2>1
  <2>3. PICK i \in Rows(c) : cons[i].who = o /\ cons[i].code = code
    BY <2>2 DEF BuyersInv, ClaimsAreRows
  <2> QED BY <1>2, <2>3
<1>3. ClaimsAreRows' BY <1>2 DEF ClaimsAreRows
<1> QED BY <1>1, <1>3 DEF BuyersInv

\* A process moves, to a send only of what its order has a claim to.
LEMMA BuyersMove ==
  ASSUME StoreInv, BuyersInv, NEW p \in Procs, NEW j, Goes(p, j),
         UNCHANGED <<cards, cons, sent, raced>>, j.pc = "send" => Claimed(j.who, j.code)
  PROVE  BuyersInv'
<1>1. job'[p] = j /\ \A q \in Procs : q # p => job'[q] = job[q]
  BY DEF Goes, StoreInv, JobsTypeOK
<1>2. ASSUME NEW o, NEW code, Claimed(o, code)' PROVE Claimed(o, code)
  <2>1. CASE <<o, code>> \in sent \/ \E i \in RowsOf(o) : cons[i].code = code
    BY <2>1 DEF Claimed
  <2>2. CASE \E q \in Procs : job'[q].pc = "send" /\ job'[q].who = o /\ job'[q].code = code
    BY <1>1, <2>2 DEF Claimed, At
  <2> QED BY <1>2, <2>1, <2>2 DEF Claimed, RowsOf, At
<1>4. \A c : Rows(c)' = Rows(c) BY SameCons
<1> QED BY <1>2, <1>4, BuyersKeep DEF BuyersInv

LEMMA BuyersStay ==
  ASSUME StoreInv, BuyersInv, UNCHANGED <<cons, job, sent, raced>>,
         \A c \in Cards : cards'[c].live = cards[c].live
  PROVE  BuyersInv'
<1>1. \A c : Rows(c)' = Rows(c) BY SameCons
<1>2. \A o, code : Claimed(o, code)' = Claimed(o, code) BY DEF Claimed, RowsOf, At
<1> QED BY <1>1, <1>2, BuyersKeep DEF BuyersInv

LEMMA IdleKeepsBuyers ==
  ASSUME StoreInv, BuyersInv, NEW p \in Procs, Goes(p, Idle), UNCHANGED <<cards, cons, sent, raced>>
  PROVE  BuyersInv'
BY BuyersMove DEF Idle

\* A code to which an order has a claim already is one that takers raced for.
LEMMA TakeKeepsBuyers ==
  ASSUME StoreInv, BuyersInv, NEW p \in Workers \cup Hands, TakeCode(p)
  PROVE  BuyersInv'
<1>0. PICK who, code, c : who = job[p].who /\ code = job[p].code /\ c = job[p].c OBVIOUS
<1> DEFINE go == [pc |-> "send", who |-> who, code |-> code]
<1>1. /\ job[p].pc = "take" /\ UNCHANGED sent /\ p \in Procs
      /\ DOMAIN job = Procs /\ Sound(p, job[p]) /\ c \in Cards /\ code \in CodesOf(c) /\ code \in Codes
  <2>1. job[p].pc = "take" /\ UNCHANGED sent /\ p \in Procs BY DEF TakeCode, At, history, races, Procs
  <2>2. DOMAIN job = Procs /\ Sound(p, job[p]) BY <2>1 DEF StoreInv, JobsTypeOK
  <2>3. c \in Cards /\ code \in CodesOf(c) BY <1>0, <2>1, <2>2 DEF Sound, CodesOf
  <2> QED BY <2>1, <2>2, <2>3 DEF CodesOf, Codes
<1>2. CASE Goes(p, Idle) /\ UNCHANGED <<stockRows, raced>>
  BY <1>1, <1>2, IdleKeepsBuyers DEF stockRows
<1>3. CASE /\ cards[c].live /\ Take(c, who, code)
           /\ Goes(p, IF p \in Workers THEN go ELSE Idle)
           /\ raced' = IF code \in Held(c) THEN raced \cup {code} ELSE raced
  <2>1. /\ NextId \notin DOMAIN cons
        /\ DOMAIN cons' = DOMAIN cons \cup {NextId}
        /\ \A i \in DOMAIN cons : cons'[i] = cons[i]
        /\ cons'[NextId].code = code /\ cons'[NextId].who = who /\ cons'[NextId].card = c
    BY <1>3, TakeAddsARow DEF StoreInv
  <2>2. \A d \in Cards : cards'[d].live = cards[d].live
    BY <1>3 DEF Take, StoreInv, CardsTypeOK
  <2>3. \A d \in Cards : \A i \in Rows(d) :
          i \in Rows(d)' /\ cons'[i].who = cons[i].who /\ cons'[i].code = cons[i].code
    BY <2>1 DEF Rows
  <2>4. job'[p] = (IF p \in Workers THEN go ELSE Idle) /\ \A q \in Procs : q # p => job'[q] = job[q]
    BY <1>1, <1>3 DEF Goes
  <2>5. ASSUME NEW o, NEW x, Claimed(o, x)' PROVE Claimed(o, x) \/ (o = who /\ x = code)
    <3>1. CASE <<o, x>> \in sent BY <3>1 DEF Claimed
    <3>2. CASE \E i \in DOMAIN cons' : cons'[i].who = o /\ cons'[i].code = x
      BY <2>1, <3>2 DEF Claimed, RowsOf
    <3>3. CASE \E q \in Procs : job'[q].pc = "send" /\ job'[q].who = o /\ job'[q].code = x
      <4>1. PICK q \in Procs : job'[q].pc = "send" /\ job'[q].who = o /\ job'[q].code = x BY <3>3
      <4>2. CASE q = p
        <5>1. job'[p] = go BY <2>4, <4>1, <4>2 DEF Idle
        <5> QED BY <4>1, <4>2, <5>1
      <4>3. CASE q # p BY <2>4, <4>1, <4>3 DEF Claimed, At
      <4> QED BY <4>2, <4>3
    <3> QED BY <1>1, <2>5, <3>1, <3>2, <3>3 DEF Claimed, RowsOf, At
  <2>8. raced \subseteq raced' BY <1>3
  <2>6. CASE p \notin Workers
    <3>1. who \notin Orders BY <1>0, <1>1, <2>6, DeliveryAssumption DEF Sound
    <3> QED BY <1>1, <2>2, <2>3, <2>5, <2>8, <3>1, BuyersKeep DEF BuyersInv
  <2>7. CASE p \in Workers
    <3>1. who \in Orders BY <1>0, <1>1, <2>7, DeliveryAssumption DEF Sound
    <3>2. ASSUME NEW o \in Orders, Claimed(o, code) PROVE code \in raced'
      <4>1. PICK i \in Rows(c) : cons[i].who = o /\ cons[i].code = code
        BY <1>1, <1>3, <3>2 DEF BuyersInv, ClaimsAreRows
      <4>2. code \in Held(c) BY <4>1 DEF Held
      <4> QED BY <1>3, <4>2
    <3>3. ASSUME NEW o \in Orders, NEW x \in Orders, NEW y \in Codes,
                 Claimed(o, y)', Claimed(x, y)'
          PROVE  o = x \/ y \in raced'
      <4>1. CASE Claimed(o, y) /\ Claimed(x, y) BY <2>8, <4>1 DEF BuyersInv, ClaimsAgree
      <4>2. CASE y = code /\ (Claimed(o, y) \/ Claimed(x, y)) BY <3>2, <4>2
      <4>3. CASE o = who /\ x = who BY <4>3
      <4> QED BY <2>5, <3>3, <4>1, <4>2, <4>3
    <3>6. ClaimsAgree' BY <3>3 DEF ClaimsAgree
    <3>4. ASSUME NEW o \in Orders, NEW d \in Cards, NEW x \in CodesOf(d), Claimed(o, x)', cards'[d].live
          PROVE  \E i \in Rows(d)' : cons'[i].who = o /\ cons'[i].code = x
      <4>1. CASE o = who /\ x = code
        <5>1. d = c
          BY <1>1, <4>1, DeliveryAssumption DEF CodesOf
        <5>2. NextId \in Rows(d)' BY <2>1, <5>1 DEF Rows
        <5> QED BY <2>1, <4>1, <5>2
      <4>2. CASE Claimed(o, x)
        <5>1. PICK i \in Rows(d) : cons[i].who = o /\ cons[i].code = x
          BY <2>2, <3>4, <4>2 DEF BuyersInv, ClaimsAreRows
        <5> QED BY <2>3, <5>1
      <4> QED BY <2>5, <3>4, <4>1, <4>2
    <3>5. ClaimsAreRows' BY <3>4 DEF ClaimsAreRows
    <3> QED BY <1>1, <3>5, <3>6 DEF BuyersInv
  <2> QED BY <2>6, <2>7
<1> QED BY <1>0, <1>2, <1>3 DEF TakeCode

\* A send makes no claim that was not one, whether it succeeds or not.
LEMMA SendKeepsBuyers ==
  ASSUME StoreInv, BuyersInv, NEW p \in Workers \cup {Redo}, Send(p)
  PROVE  BuyersInv'
<1>0. PICK who, code : who = job[p].who /\ code = job[p].code OBVIOUS
<1>1. PICK ok \in BOOLEAN, out \in BOOLEAN :
        /\ sent' = IF out THEN sent \cup {<<who, code>>} ELSE sent
        /\ Goes(p, [pc |-> "record", who |-> who, code |-> code, ok |-> ok])
  BY <1>0 DEF Send
<1>2. job[p].pc = "send" /\ p \in Procs /\ UNCHANGED <<cards, cons, raced>>
  BY DEF Send, At, Procs, stockRows, races
<1>3. who \in Orders /\ code \in Codes BY <1>0, <1>2 DEF StoreInv, JobsTypeOK, Sound
<1>4. Claimed(who, code) BY <1>0, <1>2 DEF Claimed, At
<1>5. /\ job'[p] = [pc |-> "record", who |-> who, code |-> code, ok |-> ok]
      /\ \A q \in Procs : q # p => job'[q] = job[q]
  BY <1>1, <1>2 DEF Goes, StoreInv, JobsTypeOK
<1>6. ASSUME NEW o, NEW x, Claimed(o, x)' PROVE Claimed(o, x)
  <2>1. CASE <<o, x>> \in sent'
    <3>1. CASE <<o, x>> \in sent BY <3>1 DEF Claimed
    <3>2. CASE <<o, x>> = <<who, code>>
      <4>1. o = who /\ x = code BY <3>2
      <4> QED BY <1>4, <4>1
    <3> QED BY <1>1, <2>1, <3>1, <3>2
  <2>2. CASE \E i \in RowsOf(o) : cons[i].code = x BY <2>2 DEF Claimed
  <2>3. CASE \E q \in Procs : job'[q].pc = "send" /\ job'[q].who = o /\ job'[q].code = x
    <3>1. PICK q \in Procs : job'[q].pc = "send" /\ job'[q].who = o /\ job'[q].code = x BY <2>3
    <3>2. q # p BY <1>5, <3>1
    <3> QED BY <1>5, <3>1, <3>2 DEF Claimed, At
  <2> QED BY <1>2, <1>6, <2>1, <2>2, <2>3 DEF Claimed, RowsOf, At
<1>8. sent' \subseteq Orders \X Codes BY <1>1, <1>3 DEF BuyersInv
<1>9. \A c : Rows(c)' = Rows(c) BY <1>2, SameCons
<1> QED BY <1>2, <1>6, <1>8, <1>9, BuyersKeep

LEMMA RecordKeepsBuyers ==
  ASSUME StoreInv, BuyersInv, NEW p \in Workers \cup {Redo}, Record(p)
  PROVE  BuyersInv'
<1>1. /\ p \in Procs /\ Goes(p, Idle) /\ UNCHANGED <<cards, sent, raced>>
      /\ cons' = [i \in DOMAIN cons |->
                    IF i \in RowsOf(job[p].who) THEN [cons[i] EXCEPT !.ok = job[p].ok] ELSE cons[i]]
  BY DEF Record, RecordOutcome, Procs, history, races
<1>2. /\ DOMAIN cons' = DOMAIN cons
      /\ \A i \in DOMAIN cons : /\ cons'[i].who = cons[i].who /\ cons'[i].code = cons[i].code
                                /\ cons'[i].card = cons[i].card
  BY <1>1 DEF StoreInv, ConsTypeOK
<1>3. \A q \in Procs : job'[q] = job[q] \/ job'[q].pc = "idle"
  BY <1>1 DEF Goes, StoreInv, JobsTypeOK, Idle
<1>4. ASSUME NEW o, NEW x, Claimed(o, x)' PROVE Claimed(o, x)
  BY <1>1, <1>2, <1>3, <1>4 DEF Claimed, RowsOf, At
<1>5. \A c : \A i \in Rows(c) : i \in Rows(c)' BY <1>2 DEF Rows
<1>6. \A c : \A i \in Rows(c) : cons'[i].who = cons[i].who /\ cons'[i].code = cons[i].code
  BY <1>2 DEF Rows
<1> QED BY <1>1, <1>4, <1>5, <1>6, BuyersKeep DEF BuyersInv

LEMMA DeathKeepsBuyers ==
  ASSUME StoreInv, BuyersInv, Die
  PROVE  BuyersInv'
<1>1. /\ job' = [p \in Procs |-> IF p \in Workers THEN Idle ELSE job[p]]
      /\ UNCHANGED <<cards, cons, sent, raced>>
  BY DEF Die, StoreInv, JobsTypeOK, stockRows, history, races
<1>2. \A q \in Procs : job'[q] = job[q] \/ job'[q].pc = "idle" BY <1>1 DEF Idle
<1>3. ASSUME NEW o, NEW x, Claimed(o, x)' PROVE Claimed(o, x)
  BY <1>1, <1>2, <1>3 DEF Claimed, RowsOf, At
<1>5. \A c : Rows(c)' = Rows(c) BY <1>1, SameCons
<1> QED BY <1>1, <1>3, <1>5, BuyersKeep DEF BuyersInv

\* A deleted card has no codes that could be claimed, and takes no other's rows.
LEMMA DeletionKeepsBuyers ==
  ASSUME StoreInv, BuyersInv, NEW c \in Cards, DeleteCard(c)
  PROVE  BuyersInv'
<1>1. /\ UNCHANGED <<job, sent, raced>> /\ cards' = [cards EXCEPT ![c].live = FALSE]
      /\ cons' = [i \in DOMAIN cons \ Rows(c) |-> cons[i]]
  BY DEF DeleteCard, Restrict, races
<1>2. /\ DOMAIN cons' = DOMAIN cons \ Rows(c)
      /\ \A i \in DOMAIN cons' : cons'[i] = cons[i]
  BY <1>1
<1>3. /\ ~cards'[c].live /\ \A d \in Cards : d # c => cards'[d] = cards[d]
  BY <1>1 DEF StoreInv, CardsTypeOK
<1>4. ASSUME NEW o, NEW x, Claimed(o, x)' PROVE Claimed(o, x)
  BY <1>1, <1>2, <1>4 DEF Claimed, RowsOf, At
<1>5. ASSUME NEW d, NEW i \in Rows(d), d # c
      PROVE  i \in Rows(d)' /\ cons'[i].who = cons[i].who /\ cons'[i].code = cons[i].code
  BY <1>2, <1>5 DEF Rows
<1> QED BY <1>1, <1>3, <1>4, <1>5, BuyersKeep DEF BuyersInv

\* A retry sends what a consumption of the order says.
LEMMA RetryKeepsBuyers ==
  ASSUME StoreInv, BuyersInv, Retry
  PROVE  BuyersInv'
<1>0. PICK o : o = job[Redo].who OBVIOUS
<1> DEFINE k == Least(Failed(o))
           go == [pc |-> "send", who |-> o, code |-> cons[k].code]
<1>1. Redo \in Procs /\ Redo \notin Workers /\ UNCHANGED <<cards, cons, sent, raced>>
  BY DeliveryAssumption DEF Procs, Retry, stockRows, history, races
<1>2. CASE Goes(Redo, Idle) BY <1>1, <1>2, IdleKeepsBuyers
<1>3. CASE Failed(o) # {} /\ Goes(Redo, go)
  <2>1. Failed(o) \subseteq Nat BY DEF Failed, RowsOf, StoreInv, ConsTypeOK
  <2>2. k \in RowsOf(o) BY <1>3, <2>1, LeastIsOne DEF Failed
  <2> HIDE DEF k
  <2>3. Claimed(o, cons[k].code) BY <2>2 DEF Claimed
  <2>4. go.pc = "send" /\ go.who = o /\ go.code = cons[k].code OBVIOUS
  <2>5. Goes(Redo, go) BY <1>3
  <2> HIDE DEF go
  <2> QED BY <1>1, <2>3, <2>4, <2>5, BuyersMove
<1> QED BY <1>0, <1>2, <1>3 DEF Retry, Retries

LEMMA StepKeepsBuyers ==
  ASSUME StoreInv, BuyersInv, Next
  PROVE  BuyersInv'
<1> USE DEF orderRows, stockRows, history, races, bounds
<1>0. /\ \A w \in Workers : w \in Procs
      /\ \A p \in Workers \cup Hands : p \in Procs
      /\ Redo \in Procs /\ Redo \notin Workers /\ \A h \in Hands : h \in Procs /\ h \notin Workers
  BY DeliveryAssumption DEF Procs
<1>1. ASSUME NEW w \in Workers,
             \/ \E o \in Orders : OrderCreated(w, o) \/ OrderDelivered(w, o)
             \/ Connect(w) \/ Disconnect(w)
      PROVE  BuyersInv'
  BY <1>1, BuyersStay DEF OrderCreated, OrderDelivered, Connect, Disconnect
<1>2. ASSUME NEW w \in Workers, NEW o \in Orders, NEW ov \in BOOLEAN, OrderPaid(w, o, ov)
      PROVE  BuyersInv'
  BY <1>0, <1>2, BuyersMove DEF OrderPaid
<1>3. ASSUME NEW w \in Workers, Deliver(w) PROVE BuyersInv'
  <2> DEFINE go == [pc |-> "pick", who |-> job[w].who]
  <2>1. go.pc = "pick" OBVIOUS
  <2>2. (Goes(w, go) \/ Goes(w, Idle)) /\ UNCHANGED <<cards, cons, sent, raced>> BY <1>3 DEF Deliver
  <2> HIDE DEF go
  <2> QED BY <1>0, <2>1, <2>2, BuyersMove, IdleKeepsBuyers
<1>4. ASSUME NEW w \in Workers, PickCard(w) PROVE BuyersInv'
  <2> DEFINE go == [pc |-> "read", who |-> job[w].who, c |-> Least({c \in Cards : Stocked(c)})]
  <2>1. go.pc = "read" OBVIOUS
  <2>2. (Goes(w, go) \/ Goes(w, Idle)) /\ UNCHANGED <<cards, cons, sent, raced>> BY <1>4 DEF PickCard
  <2> HIDE DEF go
  <2> QED BY <1>0, <2>1, <2>2, BuyersMove, IdleKeepsBuyers
<1>5. ASSUME NEW p \in Workers \cup Hands, ReadCard(p) PROVE BuyersInv'
  <2> DEFINE go == [pc |-> "choose", who |-> job[p].who, c |-> job[p].c, lines |-> cards[job[p].c].lines]
  <2>1. go.pc = "choose" OBVIOUS
  <2>2. (Goes(p, go) \/ Goes(p, Idle)) /\ UNCHANGED <<cards, cons, sent, raced>> BY <1>5 DEF ReadCard
  <2> HIDE DEF go
  <2> QED BY <1>0, <2>1, <2>2, BuyersMove, IdleKeepsBuyers
<1>6. ASSUME NEW p \in Workers \cup Hands, ChooseCode(p) PROVE BuyersInv'
  <2> DEFINE go == [pc |-> "take", who |-> job[p].who, c |-> job[p].c,
                    code |-> Choice(job[p].c, job[p].lines)]
  <2>1. go.pc = "take" OBVIOUS
  <2>2. (Goes(p, go) \/ Goes(p, Idle)) /\ UNCHANGED <<cards, cons, sent, raced>> BY <1>6 DEF ChooseCode
  <2> HIDE DEF go
  <2> QED BY <1>0, <2>1, <2>2, BuyersMove, IdleKeepsBuyers
<1>7. ASSUME NEW o \in Orders, Redeliver(o) PROVE BuyersInv'
  BY <1>0, <1>7, BuyersMove DEF Redeliver
<1>8. ASSUME ConnectRedo PROVE BuyersInv'
  <2> DEFINE go == [job[Redo] EXCEPT !.pc = "retry"]
  <2>1. go.pc = "retry" BY <1>8 DEF ConnectRedo, At, StoreInv, JobsTypeOK, Sound
  <2>2. (Goes(Redo, go) \/ Goes(Redo, Idle)) /\ UNCHANGED <<cards, cons, sent, raced>>
    BY <1>8 DEF ConnectRedo
  <2> HIDE DEF go
  <2> QED BY <1>0, <2>1, <2>2, BuyersMove, IdleKeepsBuyers
<1>9. ASSUME NEW o \in Orders, NEW st, NEW ov, Sync(o, st, ov) PROVE BuyersInv'
  BY <1>9, BuyersStay DEF Sync
<1>10. ASSUME NEW c \in Cards, NEW h \in Hands, Consume(h, c) PROVE BuyersInv'
  BY <1>0, <1>10, BuyersMove DEF Consume
<1>11. ASSUME NEW c \in Cards, RestockReads(c) PROVE BuyersInv'
  BY <1>11, BuyersStay DEF RestockReads
<1>12. ASSUME NEW c \in Cards, SetEnabled(c) PROVE BuyersInv'
  <2>1. \A d \in Cards : cards'[d].live = cards[d].live
    BY <1>12 DEF SetEnabled, StoreInv, CardsTypeOK
  <2> QED BY <1>12, <2>1, BuyersStay DEF SetEnabled
<1>13. ASSUME RestockWrites PROVE BuyersInv'
  <2>1. \A d \in Cards : cards'[d].live = cards[d].live
    BY <1>13 DEF RestockWrites, StoreInv, CardsTypeOK
  <2> QED BY <1>13, <2>1, BuyersStay DEF RestockWrites
<1> HIDE DEF orderRows, stockRows, history, races, bounds
<1>14. WorkerNext => BuyersInv'
  BY <1>1, <1>2, <1>3, <1>4, <1>5, <1>6, TakeKeepsBuyers, SendKeepsBuyers, RecordKeepsBuyers,
     DeathKeepsBuyers
  DEF WorkerNext
<1>15. CommandNext => BuyersInv'
  BY <1>7, <1>8, <1>9, <1>10, <1>11, <1>12, <1>13, RetryKeepsBuyers, DeletionKeepsBuyers
  DEF CommandNext
<1> QED BY <1>14, <1>15 DEF Next

\* However many workers the account has: a code that is handed to the connection
\* for the buyers of two orders is one that two takers raced for.
THEOREM CodeGoesToOneBuyer == Spec => []OnlyRacedCodesReachTwo
<1>1. Init => BuyersInv
  <2> SUFFICES ASSUME Init PROVE BuyersInv OBVIOUS
  <2>1. \A o, x : ~Claimed(o, x) BY DEF Init, Claimed, RowsOf, At, Idle, Procs
  <2>2. sent = {} BY DEF Init
  <2> QED BY <2>1, <2>2 DEF BuyersInv, ClaimsAgree, ClaimsAreRows
<1>2. StoreInv /\ BuyersInv /\ [Next]_vars => BuyersInv'
  <2> SUFFICES ASSUME StoreInv, BuyersInv, [Next]_vars PROVE BuyersInv' OBVIOUS
  <2>1. CASE UNCHANGED vars BY <2>1, BuyersStay DEF vars, stockRows, history, races
  <2> QED BY <2>1, StepKeepsBuyers
<1>3. BuyersInv => OnlyRacedCodesReachTwo
  <2> SUFFICES ASSUME BuyersInv, NEW s \in sent, NEW t \in sent, s[2] = t[2]
      PROVE  s[1] = t[1] \/ s[2] \in raced
    BY DEF OnlyRacedCodesReachTwo
  <2>1. PICK o \in Orders, code \in Codes : s = <<o, code>> BY DEF BuyersInv
  <2>2. PICK x \in Orders, y \in Codes : t = <<x, y>> BY DEF BuyersInv
  <2>3. Claimed(o, code) /\ Claimed(x, code) BY <2>1, <2>2 DEF Claimed
  <2>4. o = x \/ code \in raced BY <2>3 DEF BuyersInv, ClaimsAgree
  <2> QED BY <2>1, <2>2, <2>4
<1> QED BY <1>1, <1>2, <1>3, StoreInvariant, PTL DEF Spec

-----------------------------------------------------------------------------
(***************************************************************************)
(* The mirrors of items and orders, for any lists, page size, syncs, edits *)
(* and failures: what is applied is complete, and a sync that nothing      *)
(* disturbs leaves the mirror as the list.                                 *)
(*                                                                         *)
(* The argument: what comes in goes in front, so it only pushes entries    *)
(* back to pages that are yet to come: what was listed from the first      *)
(* request and lies before the next page has been fetched (Covers), until  *)
(* something leaves the list.  While nothing changes, what was fetched is  *)
(* what the list says (Exact), and while no other sync writes, what was    *)
(* read of the rows is what they are (Fits).                               *)
(***************************************************************************)

\* What the entry of an id says, when pd are the orders not seen delivered.
Tells(pd, id) == IF id \in Goods THEN "on" ELSE IF id \in pd THEN "paid" ELSE "delivered"

Histories == [lost : BOOLEAN, changed : BOOLEAN, alone : BOOLEAN]

\* What was fetched is what the list l says, of ids in it, and all of l was there
\* from the first request.
Exact(got, K, l, pd) ==
  Range(l) \subseteq K /\ \A id \in DOMAIN got : id \in Range(l) /\ got[id] = Tells(pd, id)

\* The part of l before page n has been fetched, as far as it was there from the
\* first request.
Covers(n, got, K, l) ==
  \A i \in DOMAIN l : i <= (n - 1) * PageSize /\ l[i] \in K \ Malformed => l[i] \in DOMAIN got

Shaped(j) ==
  j = [pc |-> j.pc, kind |-> j.kind, page |-> j.page, got |-> j.got] /\ j.page \in Nat \ {0}

\* A sync j, with its history m and K, over the lists ls and pd and the rows mi.
Fits(j, m, K, ls, pd, mi, ex) ==
  j.pc # "idle" =>
    /\ j.kind \in Kinds /\ DOMAIN j.got \subseteq Ids(j.kind)
    /\ m.lost => m.changed
    /\ ~m.lost => K \subseteq Range(ls[j.kind])
    /\ ~m.changed => Exact(j.got, K, ls[j.kind], pd)
    /\ j.pc \in {"page", "signed"} => Shaped(j) /\ (~m.lost => Covers(j.page, j.got, K, ls[j.kind]))
    /\ j.pc \in {"apply", "write"} => m.lost \/ K \ Malformed \subseteq DOMAIN j.got
    /\ j.pc = "write" /\ m.alone /\ ex => \A id \in Ids(j.kind) : j.rows[id] = mi[id]

Listed == list = [k \in Kinds |-> list[k]] /\ \A k \in Kinds : list[k] \in Seq(Ids(k))

CatalogInv ==
  /\ Listed /\ DOMAIN mirror = Goods \cup Sales
  /\ DOMAIN sync = Syncs /\ DOMAIN kept = Syncs /\ moved \in [Syncs -> Histories]
  /\ \A p \in Syncs : Fits(sync[p], moved[p], kept[p], list, unseen, mirror, registered)

-----------------------------------------------------------------------------
LEMMA Pages ==
  ASSUME NEW n \in Nat \ {0}
  PROVE  n * PageSize \in Nat /\ (n - 1) * PageSize \in Nat /\ n * PageSize = (n - 1) * PageSize + PageSize
<1>1. PageSize \in Nat \ {0} BY CatalogAssumption
<1>2. n * PageSize \in Nat /\ (n - 1) * PageSize \in Nat BY <1>1
<1>3. n * PageSize = (n - 1) * PageSize + PageSize BY <1>1
<1> QED BY <1>2, <1>3

\* A page is the list's entries of its positions.
LEMMA PageIs ==
  ASSUME Listed, NEW k \in Kinds, NEW n \in Nat \ {0}
  PROVE  /\ Range(Page(k, n)) \subseteq Range(list[k])
         /\ \A i \in DOMAIN list[k] :
              (n - 1) * PageSize < i /\ i <= n * PageSize => list[k][i] \in Range(Page(k, n))
         /\ IsLast(k, n) => \A i \in DOMAIN list[k] : i <= n * PageSize
<1>1. PICK l, b, a : l = list[k] /\ b = n * PageSize /\ a = (n - 1) * PageSize OBVIOUS
<1>2. a \in Nat /\ b \in Nat /\ b = a + PageSize /\ PageSize \in Nat \ {0}
  BY <1>1, Pages, CatalogAssumption
<1>3. l \in Seq(Ids(k)) /\ Len(l) \in Nat /\ DOMAIN l = 1..Len(l) BY <1>1 DEF Listed
<1> DEFINE end == IF b < Len(l) THEN b ELSE Len(l)
           s   == SubSeq(l, a + 1, end)
<1>4. end \in Nat /\ end <= Len(l) /\ end <= b BY <1>2, <1>3
<1>5. Page(k, n) = s BY <1>1 DEF Page
<1> HIDE DEF end
<1>6. /\ s \in Seq(Ids(k)) /\ Len(s) = (IF a + 1 <= end THEN end - a ELSE 0)
      /\ \A i \in 1..end - a : s[i] = l[a + i]
  <2>1. \A i \in a + 1..end : l[i] \in Ids(k) BY <1>2, <1>3, <1>4
  <2>2. a + 1 \in Int /\ end \in Int BY <1>2, <1>4
  <2>3. /\ s \in Seq(Ids(k)) /\ Len(s) = (IF a + 1 <= end THEN end - (a + 1) + 1 ELSE 0)
        /\ \A i \in 1..end - (a + 1) + 1 : s[i] = l[(a + 1) + i - 1]
    BY <2>1, <2>2, SubSeqProperties
  <2>4. end - (a + 1) + 1 = end - a /\ \A i \in Int : (a + 1) + i - 1 = a + i BY <1>2, <1>4
  <2> QED BY <2>3, <2>4
<1> HIDE DEF s
<1>7. DOMAIN s = 1..Len(s) /\ Len(s) \in Nat BY <1>6
<1>8. ASSUME NEW x \in Range(s) PROVE x \in Range(l)
  <2>1. PICK i \in DOMAIN s : x = s[i] BY DEF Range
  <2>2. i \in 1..end - a /\ a + i \in 1..Len(l) BY <1>2, <1>3, <1>4, <1>6, <1>7
  <2>3. x = l[a + i] BY <1>6, <2>1, <2>2
  <2> QED BY <1>3, <2>2, <2>3 DEF Range
<1>9. ASSUME NEW i \in DOMAIN l, a < i, i <= b PROVE l[i] \in Range(s)
  <2>1. i <= end BY <1>3, <1>9 DEF end
  <2>2. i - a \in 1..end - a /\ a + (i - a) = i /\ i - a \in DOMAIN s
    BY <1>2, <1>3, <1>4, <1>6, <1>7, <1>9, <2>1
  <2>3. s[i - a] = l[i] BY <1>6, <2>2
  <2> QED BY <2>2, <2>3 DEF Range
<1>10. ASSUME IsLast(k, n), NEW i \in DOMAIN l PROVE i <= b
  <2>1. CASE k = "items"
    <3>1. Len(s) < PageSize BY <1>5, <1>10, <2>1 DEF IsLast, ItemsEnd
    <3>2. ASSUME b < Len(l) PROVE FALSE
      <4>1. end = b BY <3>2 DEF end
      <4>2. a + 1 <= end /\ end - a = PageSize BY <1>2, <4>1
      <4> QED BY <1>2, <1>6, <3>1, <4>2
    <3> QED BY <1>2, <1>3, <3>2
  <2>2. CASE k # "items"
    <3>1. k = "orders" BY <2>2 DEF Kinds
    <3>2. b >= Len(l) BY <1>1, <1>10, <3>1 DEF IsLast, OrdersEnd
    <3> QED BY <1>2, <1>3, <3>2
  <2> QED BY <2>1, <2>2
<1> QED BY <1>1, <1>5, <1>8, <1>9, <1>10

LEMMA SaysIs == ASSUME NEW id PROVE Says(id) = Tells(unseen, id)
BY DEF Says, Tells

Understood(k, n) == Range(Page(k, n)) \ Malformed

\* The entries of a page come before what was fetched.
LEMMA GotIs ==
  ASSUME Listed, NEW k \in Kinds, NEW n \in Nat \ {0}, NEW got
  PROVE  /\ DOMAIN Over(Parsed(k, n), got) = Understood(k, n) \cup DOMAIN got
         /\ \A id \in Understood(k, n) \cup DOMAIN got :
              Over(Parsed(k, n), got)[id] = IF id \in Understood(k, n) THEN Tells(unseen, id) ELSE got[id]
<1> DEFINE S == Understood(k, n)
           f == Parsed(k, n)
<1>1. DOMAIN f = S /\ \A id \in S : f[id] = Tells(unseen, id)
  <2>1. CASE k = "items"
    <3>1. f = [id \in S |-> "on"] BY <2>1 DEF Parsed, CardsOn, Understood
    <3>2. S \subseteq Goods
      <4>1. Range(list[k]) \subseteq Goods BY <2>1 DEF Listed, Range, Ids
      <4> QED BY <4>1, PageIs DEF Understood
    <3> HIDE DEF f, S
    <3> QED BY <3>1, <3>2 DEF Tells
  <2>2. CASE k # "items"
    <3>1. k = "orders" BY <2>2 DEF Kinds
    <3>2. f = [id \in S |-> Says(id)] BY <3>1 DEF Parsed, EntriesOn, Understood
    <3> HIDE DEF f, S
    <3> QED BY <3>2, SaysIs
  <2> QED BY <2>1, <2>2
<1> HIDE DEF f, S
<1> QED BY <1>1 DEF f, S, Over

-----------------------------------------------------------------------------
\* One sync moves, and nothing else changes.
LEMMA OnlySync ==
  ASSUME CatalogInv,
         NEW p \in Syncs, NEW j, SyncGoes(p, j), UNCHANGED <<platform, mirror, registered, watched>>,
         Fits(j, moved[p], kept[p], list, unseen, mirror, registered)
  PROVE  CatalogInv'
<1>1. DOMAIN sync' = Syncs /\ \A q \in Syncs : sync'[q] = IF q = p THEN j ELSE sync[q]
  BY DEF CatalogInv, SyncGoes
<1>2. /\ list' = list /\ unseen' = unseen /\ mirror' = mirror /\ registered' = registered /\ kept' = kept
      /\ moved' = moved
  BY DEF platform, watched
<1>3. ASSUME NEW q \in Syncs PROVE Fits(sync'[q], moved'[q], kept'[q], list', unseen', mirror', registered')
  BY <1>1, <1>2 DEF CatalogInv
<1> QED BY <1>1, <1>2, <1>3 DEF CatalogInv, Listed

LEMMA IdleFits ==
  ASSUME NEW m, NEW K, NEW ls, NEW pd, NEW mi, NEW ex
  PROVE  Fits(NoSync, m, K, ls, pd, mi, ex)
BY DEF Fits, NoSync

\* A page has come: the sync goes on, applies what it has, or gives up.
LEMMA AnsweredKeeps ==
  ASSUME CatalogInv,
         NEW p \in Syncs, sync[p].pc \in {"page", "signed"}, PageCame(p),
         UNCHANGED <<platform, mirror, registered, watched>>
  PROVE  CatalogInv'
<1> DEFINE j == sync[p]
           k == j.kind
           n == j.page
           S == Understood(k, n)
           all == Over(Parsed(k, n), j.got)
           l == list[k]
           go == [pc |-> "page", kind |-> k, page |-> n + 1, got |-> all]
           ap == [pc |-> "apply", kind |-> k, got |-> all]
<1>1. /\ Fits(j, moved[p], kept[p], list, unseen, mirror, registered) /\ Listed
      /\ SyncGoes(p, IF IsLast(k, n) THEN ap ELSE IF n = MaxPages THEN NoSync ELSE go)
  BY DEF CatalogInv, PageCame
<1>2. /\ k \in Kinds /\ DOMAIN j.got \subseteq Ids(k) /\ n \in Nat \ {0}
      /\ moved[p].lost => moved[p].changed
      /\ ~moved[p].lost => kept[p] \subseteq Range(l) /\ Covers(n, j.got, kept[p], l)
      /\ ~moved[p].changed => Exact(j.got, kept[p], l, unseen)
  BY <1>1 DEF Fits, Shaped
<1>3. /\ DOMAIN all = S \cup DOMAIN j.got
      /\ \A id \in S : all[id] = Tells(unseen, id)
      /\ \A id \in DOMAIN j.got \ S : all[id] = j.got[id]
  <2> HIDE DEF k, n
  <2>1. Listed /\ k \in Kinds /\ n \in Nat \ {0} BY <1>1, <1>2
  <2>2. \A g : /\ DOMAIN Over(Parsed(k, n), g) = Understood(k, n) \cup DOMAIN g
               /\ \A id \in Understood(k, n) \cup DOMAIN g :
                    Over(Parsed(k, n), g)[id] = IF id \in Understood(k, n) THEN Tells(unseen, id) ELSE g[id]
    BY <2>1, GotIs
  <2> QED BY <2>2
<1>4. /\ S \subseteq Range(l)
      /\ \A i \in DOMAIN l : (n - 1) * PageSize < i /\ i <= n * PageSize /\ l[i] \notin Malformed => l[i] \in S
      /\ IsLast(k, n) => \A i \in DOMAIN l : i <= n * PageSize
  BY <1>1, <1>2, PageIs DEF Understood
<1>5. l \in Seq(Ids(k)) /\ DOMAIN l \subseteq Nat BY <1>1, <1>2 DEF Listed
<1>6. Range(l) \subseteq Ids(k) BY <1>5 DEF Range
<1>7. n * PageSize \in Nat /\ (n - 1) * PageSize \in Nat BY <1>2, Pages
<1> HIDE DEF all, S, l, n, k
<1>8. DOMAIN all \subseteq Ids(k) BY <1>2, <1>3, <1>4, <1>6
<1>9. ~moved[p].changed => Exact(all, kept[p], l, unseen)
  <2> SUFFICES ASSUME ~moved[p].changed PROVE Exact(all, kept[p], l, unseen) OBVIOUS
  <2>1. Range(l) \subseteq kept[p] /\ \A id \in DOMAIN j.got : id \in Range(l) /\ j.got[id] = Tells(unseen, id)
    BY <1>2 DEF Exact
  <2>2. \A id \in DOMAIN all : id \in Range(l) /\ all[id] = Tells(unseen, id) BY <1>3, <1>4, <2>1
  <2> QED BY <2>1, <2>2 DEF Exact
<1>10. ASSUME ~moved[p].lost, NEW i \in DOMAIN l, i <= n * PageSize, l[i] \in kept[p] \ Malformed
       PROVE  l[i] \in DOMAIN all
  <2>1. CASE i <= (n - 1) * PageSize BY <1>2, <1>3, <1>10, <2>1 DEF Covers
  <2>2. CASE ~(i <= (n - 1) * PageSize)
    <3>1. (n - 1) * PageSize < i BY <1>5, <1>7, <2>2
    <3> QED BY <1>3, <1>4, <1>10, <3>1
  <2> QED BY <2>1, <2>2
<1>11. CASE IsLast(k, n)
  <2>1. ASSUME ~moved[p].lost, NEW id \in kept[p] \ Malformed PROVE id \in DOMAIN all
    <3>1. PICK i \in DOMAIN l : id = l[i] BY <1>2, <2>1 DEF Range
    <3> QED BY <1>4, <1>10, <1>11, <2>1, <3>1
  <2>2. ap.pc = "apply" /\ ap.kind = k /\ ap.got = all OBVIOUS
  <2> HIDE DEF ap
  <2>3. Fits(ap, moved[p], kept[p], list, unseen, mirror, registered)
    BY <1>2, <1>8, <1>9, <2>1, <2>2 DEF Fits, l
  <2> QED BY <1>1, <1>11, <2>3, OnlySync
<1>12. CASE ~IsLast(k, n) /\ n # MaxPages
  <2>1. go.pc = "page" /\ go.kind = k /\ go.got = all /\ go.page = n + 1 /\ Shaped(go)
    BY <1>2 DEF Shaped
  <2> HIDE DEF go
  <2>2. ~moved[p].lost => Covers(n + 1, all, kept[p], l)
    <3>1. (n + 1) - 1 = n BY <1>2
    <3> QED BY <1>10, <3>1 DEF Covers
  <2>3. Fits(go, moved[p], kept[p], list, unseen, mirror, registered)
    BY <1>2, <1>8, <1>9, <2>1, <2>2 DEF Fits, l
  <2> QED BY <1>1, <1>12, <2>3, OnlySync
<1>13. CASE ~IsLast(k, n) /\ n = MaxPages BY <1>1, <1>13, IdleFits, OnlySync
<1> QED BY <1>11, <1>12, <1>13

LEMMA FetchKeeps ==
  ASSUME CatalogInv,
         NEW p \in Syncs, FetchPage(p) \/ BootstrapList(p) \/ Signed(p) \/ Fail(p)
  PROVE  CatalogInv'
<1>1. UNCHANGED <<platform, mirror, registered, watched>>
  BY DEF FetchPage, BootstrapList, Signed, Fail, local
<1>2. CASE SyncGoes(p, NoSync) BY <1>1, <1>2, IdleFits, OnlySync
<1>3. CASE PageCame(p) /\ sync[p].pc \in {"page", "signed"} BY <1>1, <1>3, AnsweredKeeps
<1>4. CASE SyncAt(p, "page") /\ SyncGoes(p, [sync[p] EXCEPT !.pc = "signed"])
  <2> DEFINE j == sync[p]
             s == [j EXCEPT !.pc = "signed"]
  <2>1. Fits(j, moved[p], kept[p], list, unseen, mirror, registered) /\ j.pc = "page"
    BY <1>4 DEF CatalogInv, SyncAt
  <2>2. Shaped(j) BY <2>1 DEF Fits
  <2>3. /\ s.pc = "signed" /\ s.kind = j.kind /\ s.page = j.page /\ s.got = j.got /\ Shaped(s)
    BY <2>2 DEF Shaped
  <2> HIDE DEF s
  <2>4. Fits(s, moved[p], kept[p], list, unseen, mirror, registered) BY <2>1, <2>3 DEF Fits
  <2> QED BY <1>1, <1>4, <2>4, OnlySync DEF s
<1> QED BY <1>2, <1>3, <1>4 DEF FetchPage, BootstrapList, Signed, Fail, SyncAt

\* A sync begins: what is listed now is what it must not miss.
LEMMA BeginKeeps ==
  ASSUME CatalogInv, NEW p \in Syncs, NEW k \in Kinds, BeginSync(p, k)
  PROVE  CatalogInv'
<1> DEFINE j == [pc |-> "page", kind |-> k, page |-> 1, got |-> <<>>]
           m == [lost |-> FALSE, changed |-> FALSE, alone |-> TRUE]
<1>1. /\ SyncGoes(p, j) /\ kept' = [kept EXCEPT ![p] = Range(list[k])] /\ moved' = [moved EXCEPT ![p] = m]
      /\ list' = list /\ unseen' = unseen /\ mirror' = mirror /\ registered' = registered
  BY DEF BeginSync, platform, local
<1>2. j.pc = "page" /\ j.kind = k /\ j.page = 1 /\ j.got = <<>> /\ Shaped(j) BY DEF Shaped
<1>3. ~m.lost /\ ~m.changed /\ m \in Histories BY DEF Histories
<1>4. Covers(1, <<>>, Range(list[k]), list[k])
  <2>1. (1 - 1) * PageSize = 0 BY CatalogAssumption
  <2>2. DOMAIN list[k] = 1..Len(list[k]) /\ Len(list[k]) \in Nat BY DEF CatalogInv, Listed
  <2> QED BY <2>1, <2>2 DEF Covers
<1>5. Exact(<<>>, Range(list[k]), list[k], unseen) BY DEF Exact
<1> HIDE DEF j, m
<1>6. Fits(j, m, Range(list[k]), list, unseen, mirror, registered) BY <1>2, <1>3, <1>4, <1>5 DEF Fits
<1>7. /\ DOMAIN sync' = Syncs /\ \A q \in Syncs : sync'[q] = IF q = p THEN j ELSE sync[q]
      /\ DOMAIN kept' = Syncs /\ \A q \in Syncs : kept'[q] = IF q = p THEN Range(list[k]) ELSE kept[q]
      /\ moved' \in [Syncs -> Histories] /\ \A q \in Syncs : moved'[q] = IF q = p THEN m ELSE moved[q]
  BY <1>1, <1>3 DEF CatalogInv, SyncGoes
<1>8. ASSUME NEW q \in Syncs PROVE Fits(sync'[q], moved'[q], kept'[q], list', unseen', mirror', registered')
  <2>1. CASE q = p BY <1>1, <1>6, <1>7, <2>1
  <2>2. CASE q # p BY <1>1, <1>7, <2>2 DEF CatalogInv
  <2> QED BY <2>1, <2>2
<1> QED BY <1>1, <1>7, <1>8 DEF CatalogInv, Listed

\* What became of the histories when list k0 changed.
Marks(k0, lost) ==
  /\ DOMAIN sync = Syncs /\ moved' \in [Syncs -> Histories]
  /\ \A q \in Syncs :
       IF sync[q].pc # "idle" /\ sync[q].kind = k0
       THEN moved'[q].changed /\ (moved'[q].lost <=> lost \/ moved[q].lost) /\ moved'[q].alone = moved[q].alone
       ELSE moved'[q] = moved[q]

LEMMA MarksAre ==
  ASSUME CatalogInv, NEW k0
  PROVE  (Lost(k0) => Marks(k0, TRUE)) /\ (Changed(k0) => Marks(k0, FALSE))
<1>1. \A q \in Syncs : q \in Busy(k0) <=> sync[q].pc # "idle" /\ sync[q].kind = k0 BY DEF Busy, SyncAt
<1>2. ASSUME NEW q \in Syncs
      PROVE  LET a == [moved[q] EXCEPT !.lost = TRUE, !.changed = TRUE]
                 b == [moved[q] EXCEPT !.changed = TRUE]
             IN /\ a \in Histories /\ a.lost /\ a.changed /\ a.alone = moved[q].alone
                /\ b \in Histories /\ b.lost = moved[q].lost /\ b.changed /\ b.alone = moved[q].alone
  BY DEF CatalogInv, Histories
<1>3. DOMAIN sync = Syncs /\ moved \in [Syncs -> Histories] BY DEF CatalogInv
<1>4. ASSUME Lost(k0) PROVE Marks(k0, TRUE)
  <2>1. /\ moved' \in [Syncs -> Histories]
        /\ \A q \in Syncs :
             IF q \in Busy(k0)
             THEN moved'[q].changed /\ moved'[q].lost /\ moved'[q].alone = moved[q].alone
             ELSE moved'[q] = moved[q]
    BY <1>2, <1>3, <1>4 DEF Lost
  <2> QED BY <1>1, <1>3, <2>1 DEF Marks
<1>5. ASSUME Changed(k0) PROVE Marks(k0, FALSE)
  <2>1. /\ moved' \in [Syncs -> Histories]
        /\ \A q \in Syncs :
             IF q \in Busy(k0)
             THEN moved'[q].changed /\ moved'[q].lost = moved[q].lost /\ moved'[q].alone = moved[q].alone
             ELSE moved'[q] = moved[q]
    BY <1>2, <1>3, <1>5 DEF Changed
  <2> QED BY <1>1, <1>3, <2>1 DEF Marks
<1> QED BY <1>4, <1>5

\* What an item's entry says never changes.
LEMMA ItemsSay ==
  ASSUME NEW id \in Goods, NEW pd, NEW qd PROVE Tells(pd, id) = Tells(qd, id)
BY DEF Tells

LEMMA KindsApart ==
  Ids("items") = Goods /\ Ids("orders") = Sales /\ Goods \cap Sales = {}
BY CatalogAssumption DEF Ids

\* A sync of the other list is not concerned.
LEMMA OtherList ==
  ASSUME CatalogInv,
         NEW q \in Syncs, NEW k0 \in Kinds, sync[q].pc # "idle" => sync[q].kind # k0,
         \A k \in Kinds \ {k0} : list'[k] = list[k], k0 = "orders" \/ unseen' = unseen,
         UNCHANGED <<mirror, registered, sync>>, moved'[q] = moved[q], kept'[q] = kept[q]
  PROVE  Fits(sync'[q], moved'[q], kept'[q], list', unseen', mirror', registered')
<1> DEFINE j == sync[q]  l == list[j.kind]
<1> SUFFICES ASSUME j.pc # "idle"
             PROVE  Fits(j, moved[q], kept[q], list', unseen', mirror, registered)
  BY DEF Fits
<1>1. Fits(j, moved[q], kept[q], list, unseen, mirror, registered) BY DEF CatalogInv
<1>2. j.kind \in Kinds \ {k0} /\ list'[j.kind] = l BY <1>1 DEF Fits
<1>3. Exact(j.got, kept[q], l, unseen) => Exact(j.got, kept[q], l, unseen')
  <2>1. CASE k0 # "orders" BY <2>1
  <2>2. CASE k0 = "orders"
    <3>1. j.kind = "items" BY <1>2, <2>2 DEF Kinds
    <3>2. DOMAIN j.got \subseteq Goods BY <1>1, <3>1, KindsApart DEF Fits
    <3> QED BY <3>2, ItemsSay DEF Exact
  <2> QED BY <2>1, <2>2
<1> HIDE DEF l
<1> QED BY <1>1, <1>2, <1>3 DEF Fits, l

LEMMA AppearsKeeps ==
  ASSUME CatalogInv, NEW k \in Kinds, NEW id \in Ids(k), Appears(k, id)
  PROVE  CatalogInv'
<1> DEFINE l == list[k]
           d == <<id>> \o l
<1>1. /\ id \notin Range(l) /\ list' = [list EXCEPT ![k] = d] /\ Marks(k, FALSE)
      /\ k = "orders" \/ unseen' = unseen
      /\ UNCHANGED <<mirror, registered, sync, kept>>
  BY MarksAre DEF Appears, local
<1>2. l \in Seq(Ids(k)) /\ DOMAIN l = 1..Len(l) /\ Len(l) \in Nat BY DEF CatalogInv, Listed
<1>3. /\ d \in Seq(Ids(k)) /\ Len(d) = Len(l) + 1 /\ d[1] = id
      /\ \A i \in 2..Len(d) : d[i] = l[i - 1]
  <2>1. <<id>> \in Seq(Ids(k)) /\ Len(<<id>>) = 1 /\ <<id>>[1] = id OBVIOUS
  <2>2. /\ d \in Seq(Ids(k)) /\ Len(d) = 1 + Len(l)
        /\ \A i \in 1..1 + Len(l) : d[i] = IF i <= 1 THEN <<id>>[i] ELSE l[i - 1]
    BY <1>2, <2>1, ConcatProperties
  <2> HIDE DEF d
  <2> QED BY <1>2, <2>1, <2>2
<1> HIDE DEF d, l
<1>4. /\ list' = [x \in Kinds |-> list'[x]] /\ list'[k] = d /\ \A x \in Kinds \ {k} : list'[x] = list[x]
  BY <1>1 DEF CatalogInv, Listed
<1>5. Listed' BY <1>3, <1>4 DEF CatalogInv, Listed
<1>6. Range(l) \subseteq Range(d)
  <2> SUFFICES ASSUME NEW i \in DOMAIN l PROVE l[i] \in Range(d) BY DEF Range
  <2>1. i + 1 \in 2..Len(d) /\ (i + 1) - 1 = i /\ i + 1 \in DOMAIN d BY <1>2, <1>3
  <2>2. d[i + 1] = l[i] BY <1>3, <2>1
  <2> QED BY <2>1, <2>2 DEF Range
<1>7. ASSUME NEW q \in Syncs PROVE Fits(sync'[q], moved'[q], kept'[q], list', unseen', mirror', registered')
  <2> DEFINE j == sync[q]
  <2>1. CASE j.pc # "idle" /\ j.kind = k
    <3>1. Fits(j, moved[q], kept[q], list, unseen, mirror, registered) BY DEF CatalogInv
    <3>2. moved'[q].changed /\ (moved'[q].lost <=> moved[q].lost) /\ moved'[q].alone = moved[q].alone
      BY <1>1, <2>1 DEF Marks
    <3>3. ~moved[q].lost => kept[q] \subseteq Range(l) BY <2>1, <3>1 DEF Fits, l
    <3>4. ASSUME ~moved[q].lost, j.pc \in {"page", "signed"} PROVE Covers(j.page, j.got, kept[q], d)
      <4>1. Covers(j.page, j.got, kept[q], l) /\ j.page \in Nat \ {0}
        BY <2>1, <3>1, <3>4 DEF Fits, Shaped, l
      <4>2. PICK a : a = (j.page - 1) * PageSize OBVIOUS
      <4>3. a \in Nat BY <4>1, <4>2, Pages
      <4>4. ASSUME NEW i \in DOMAIN d, i <= a, d[i] \in kept[q] \ Malformed PROVE d[i] \in DOMAIN j.got
        <5>1. d[i] # id BY <1>1, <3>3, <3>4, <4>4 DEF l
        <5>2. i \in 2..Len(d) /\ i - 1 \in DOMAIN l /\ i - 1 <= a BY <1>2, <1>3, <4>3, <4>4, <5>1
        <5>3. l[i - 1] = d[i] BY <1>3, <5>2
        <5> QED BY <4>1, <4>2, <4>4, <5>2, <5>3 DEF Covers
      <4> QED BY <4>2, <4>4 DEF Covers
    <3>5. j.kind = k /\ j.pc # "idle" BY <2>1
    <3>6. Fits(j, moved'[q], kept[q], list', unseen', mirror, registered)
      <4> HIDE DEF j
      <4> QED BY <1>4, <1>6, <3>1, <3>2, <3>3, <3>4, <3>5 DEF Fits
    <3> QED BY <1>1, <3>6
  <2>2. CASE ~(j.pc # "idle" /\ j.kind = k)
    <3>1. moved'[q] = moved[q] BY <1>1, <2>2 DEF Marks
    <3> QED BY <1>1, <1>4, <2>2, <3>1, OtherList
  <2> QED BY <2>1, <2>2
<1> QED BY <1>1, <1>5, <1>7 DEF CatalogInv, Marks

LEMMA LeavesKeeps ==
  ASSUME CatalogInv, NEW g \in Goods, Leaves(g)
  PROVE  CatalogInv'
<1> DEFINE l == list["items"]
<1>1. /\ Marks("items", TRUE) /\ unseen' = unseen /\ kept' = [p \in Syncs |-> kept[p] \ {g}]
      /\ UNCHANGED <<mirror, registered, sync>>
  BY MarksAre DEF Leaves, local
<1>2. PICK i \in DOMAIN l : list' = [list EXCEPT !["items"] = RemoveAt(l, i)] BY DEF Leaves
<1>3. l \in Seq(Goods) /\ DOMAIN l = 1..Len(l) /\ Len(l) \in Nat
  <2>1. "items" \in Kinds BY DEF Kinds
  <2> QED BY <2>1, KindsApart DEF CatalogInv, Listed
<1>4. RemoveAt(l, i) \in Seq(Goods)
  <2>1. \A x \in 1..i - 1 : l[x] \in Goods BY <1>3
  <2>2. \A x \in i + 1..Len(l) : l[x] \in Goods BY <1>3
  <2>3. SubSeq(l, 1, i - 1) \in Seq(Goods) /\ SubSeq(l, i + 1, Len(l)) \in Seq(Goods)
    <3>1. 1 \in Int /\ i - 1 \in Int /\ i + 1 \in Int /\ Len(l) \in Int BY <1>3
    <3> HIDE DEF l
    <3> QED BY <2>1, <2>2, <3>1, SubSeqProperties
  <2> HIDE DEF l
  <2> QED BY <2>3, ConcatProperties DEF RemoveAt
<1> HIDE DEF l
<1>5. /\ list' = [x \in Kinds |-> list'[x]] /\ list'["items"] = RemoveAt(l, i)
      /\ \A x \in Kinds \ {"items"} : list'[x] = list[x]
  BY <1>2 DEF CatalogInv, Listed, Kinds
<1>6. Listed'
  <2>1. \A x \in Kinds : list'[x] \in Seq(Ids(x)) BY <1>4, <1>5, KindsApart DEF CatalogInv, Listed
  <2> QED BY <1>5, <2>1 DEF Listed
<1>7. ASSUME NEW q \in Syncs PROVE Fits(sync'[q], moved'[q], kept'[q], list', unseen', mirror', registered')
  <2> DEFINE j == sync[q]
             K == kept[q] \ {g}
  <2>1. Fits(j, moved[q], kept[q], list, unseen, mirror, registered) /\ kept'[q] = K BY <1>1 DEF CatalogInv
  <2>2. CASE j.pc # "idle" /\ j.kind = "items"
    <3>1. moved'[q].changed /\ moved'[q].lost /\ moved'[q].alone = moved[q].alone
      BY <1>1, <2>2 DEF Marks
    <3>2. Fits(j, moved'[q], K, list', unseen, mirror, registered)
      <4> HIDE DEF j, K
      <4> QED BY <2>1, <3>1 DEF Fits
    <3> QED BY <1>1, <2>1, <3>2
  <2>3. CASE j.pc = "idle"
    <3>1. sync'[q].pc = "idle" BY <1>1, <2>3
    <3> QED BY <3>1 DEF Fits
  <2>4. CASE j.pc # "idle" /\ j.kind # "items"
    <3>1. moved'[q] = moved[q] BY <1>1, <2>4 DEF Marks
    <3>2. j.kind = "orders" /\ list'[j.kind] = list[j.kind] BY <1>5, <2>1, <2>4 DEF Fits, Kinds
    <3>3. Range(list[j.kind]) \subseteq Sales
      BY <2>1, <2>4, <3>2, KindsApart DEF CatalogInv, Listed, Range, Fits
    <3>4. g \notin Range(list[j.kind]) BY <3>3, KindsApart
    <3>5. Exact(j.got, kept[q], list[j.kind], unseen) => Exact(j.got, K, list[j.kind], unseen)
      BY <3>4 DEF Exact
    <3>6. Covers(j.page, j.got, kept[q], list[j.kind]) => Covers(j.page, j.got, K, list[j.kind])
      BY DEF Covers
    <3>7. K \subseteq kept[q] OBVIOUS
    <3>8. Fits(j, moved[q], K, list', unseen, mirror, registered)
      <4> HIDE DEF j, K
      <4> QED BY <2>1, <3>2, <3>5, <3>6, <3>7 DEF Fits
    <3> QED BY <1>1, <2>1, <3>1, <3>8
  <2> QED BY <2>2, <2>3, <2>4
<1> QED BY <1>1, <1>6, <1>7 DEF CatalogInv, Marks

LEMMA DeliveredKeeps ==
  ASSUME CatalogInv, NEW o, IsDelivered(o)
  PROVE  CatalogInv'
<1>1. Marks("orders", FALSE) /\ UNCHANGED <<list, mirror, registered, sync, kept>>
  BY MarksAre DEF IsDelivered, local
<1>2. ASSUME NEW q \in Syncs PROVE Fits(sync'[q], moved'[q], kept'[q], list', unseen', mirror', registered')
  <2> DEFINE j == sync[q]
  <2>1. CASE j.pc # "idle" /\ j.kind = "orders"
    <3>1. Fits(j, moved[q], kept[q], list, unseen, mirror, registered) BY DEF CatalogInv
    <3>2. moved'[q].changed /\ (moved'[q].lost <=> moved[q].lost) /\ moved'[q].alone = moved[q].alone
      BY <1>1, <2>1 DEF Marks
    <3>3. Fits(j, moved'[q], kept[q], list, unseen', mirror, registered)
      <4> HIDE DEF j
      <4> QED BY <3>1, <3>2 DEF Fits
    <3> QED BY <1>1, <3>3
  <2>2. CASE ~(j.pc # "idle" /\ j.kind = "orders")
    <3>1. moved'[q] = moved[q] BY <1>1, <2>2 DEF Marks
    <3>2. "orders" \in Kinds BY DEF Kinds
    <3> QED BY <1>1, <2>2, <3>1, <3>2, OtherList
  <2> QED BY <2>1, <2>2
<1> QED BY <1>1, <1>2 DEF CatalogInv, Listed, Marks

\* What a sync reads now is what the rows say.
LEMMA ReadKeeps ==
  ASSUME CatalogInv, NEW p \in Syncs, ReadRows(p)
  PROVE  CatalogInv'
<1> DEFINE j == sync[p]
           w == [pc |-> "write", kind |-> j.kind, got |-> j.got, rows |-> [id \in Ids(j.kind) |-> mirror[id]]]
           m == [moved[p] EXCEPT !.alone = TRUE]
<1>1. /\ j.pc = "apply" /\ (SyncGoes(p, NoSync) \/ SyncGoes(p, w)) /\ moved' = [moved EXCEPT ![p].alone = TRUE]
      /\ list' = list /\ unseen' = unseen /\ UNCHANGED <<mirror, registered, kept>>
  BY DEF ReadRows, SyncAt, platform, local
<1>2. Fits(j, moved[p], kept[p], list, unseen, mirror, registered) BY DEF CatalogInv
<1>3. m \in Histories /\ m.lost = moved[p].lost /\ m.changed = moved[p].changed
  BY DEF CatalogInv, Histories
<1>4. moved' = [moved EXCEPT ![p] = m] BY <1>1
<1> HIDE DEF m
<1>5. Fits(w, m, kept[p], list, unseen, mirror, registered)
  <2>1. /\ w.pc = "write" /\ w.kind = j.kind /\ w.got = j.got
        /\ \A id \in Ids(j.kind) : w.rows[id] = mirror[id]
    OBVIOUS
  <2> HIDE DEF w
  <2> QED BY <1>1, <1>2, <1>3, <2>1 DEF Fits
<1>6. PICK x : SyncGoes(p, x) /\ Fits(x, m, kept[p], list, unseen, mirror, registered) BY <1>1, <1>5, IdleFits
<1>7. /\ DOMAIN sync' = Syncs /\ \A q \in Syncs : sync'[q] = IF q = p THEN x ELSE sync[q]
      /\ moved' \in [Syncs -> Histories] /\ \A q \in Syncs : moved'[q] = IF q = p THEN m ELSE moved[q]
  BY <1>3, <1>4, <1>6 DEF CatalogInv, SyncGoes
<1>8. ASSUME NEW q \in Syncs PROVE Fits(sync'[q], moved'[q], kept'[q], list', unseen', mirror', registered')
  <2>1. CASE q = p BY <1>1, <1>6, <1>7, <2>1
  <2>2. CASE q # p BY <1>1, <1>7, <2>2 DEF CatalogInv
  <2> QED BY <2>1, <2>2
<1> QED BY <1>1, <1>7, <1>8 DEF CatalogInv, Listed

\* Who has read the rows of a mirror is no longer alone once another wrote to it.
LEMMA WriteKeeps ==
  ASSUME CatalogInv, NEW p \in Syncs, Write(p)
  PROVE  CatalogInv'
<1> DEFINE k == sync[p].kind
<1>1. /\ SyncAt(p, "write") /\ SyncGoes(p, NoSync)
      /\ list' = list /\ unseen' = unseen /\ registered' = registered /\ kept' = kept
  BY DEF Write, platform
<1>2. DOMAIN sync' = Syncs /\ \A q \in Syncs : sync'[q] = IF q = p THEN NoSync ELSE sync[q]
  BY <1>1 DEF CatalogInv, SyncGoes
<1>3. CASE UNCHANGED <<mirror, moved>> BY <1>1, <1>3, IdleFits, OnlySync DEF platform, watched
<1>4. CASE ~UNCHANGED <<mirror, moved>>
  <2>1. /\ DOMAIN mirror' = DOMAIN mirror /\ \A id \in DOMAIN mirror \ Ids(k) : mirror'[id] = mirror[id]
        /\ moved' = [q \in Syncs |-> IF q \in Busy(k) \ {p} THEN [moved[q] EXCEPT !.alone = FALSE] ELSE moved[q]]
    BY <1>4 DEF Write
  <2>2. ASSUME NEW q \in Syncs
        PROVE  LET a == [moved[q] EXCEPT !.alone = FALSE]
               IN a \in Histories /\ a.lost = moved[q].lost /\ a.changed = moved[q].changed /\ ~a.alone
    BY DEF CatalogInv, Histories
  <2>3. moved' \in [Syncs -> Histories] BY <2>1, <2>2 DEF CatalogInv
  <2>4. ASSUME NEW q \in Syncs
        PROVE Fits(sync'[q], moved'[q], kept'[q], list', unseen', mirror', registered')
    <3> DEFINE j == sync[q]
    <3>1. Fits(j, moved[q], kept[q], list, unseen, mirror, registered) BY DEF CatalogInv
    <3>2. CASE q = p \/ j.pc = "idle"
      <4>1. sync'[q].pc = "idle" BY <1>2, <3>2 DEF NoSync
      <4> QED BY <4>1 DEF Fits
    <3>3. CASE q # p /\ j.pc # "idle" /\ j.kind = k
      <4>1. q \in Busy(k) \ {p} BY <3>3 DEF Busy, SyncAt
      <4>2. /\ moved'[q].lost = moved[q].lost /\ moved'[q].changed = moved[q].changed
            /\ ~moved'[q].alone
        BY <2>1, <2>2, <4>1
      <4>3. Fits(j, moved'[q], kept[q], list, unseen, mirror', registered)
        <5> HIDE DEF j
        <5> QED BY <3>1, <4>2 DEF Fits
      <4> QED BY <1>1, <1>2, <3>3, <4>3
    <3>4. CASE q # p /\ j.pc # "idle" /\ j.kind # k
      <4>1. moved'[q] = moved[q] BY <2>1, <3>4 DEF Busy
      <4>2. k \in Kinds /\ j.kind \in Kinds
        <5>1. Fits(sync[p], moved[p], kept[p], list, unseen, mirror, registered) BY DEF CatalogInv
        <5> QED BY <1>1, <3>1, <3>4, <5>1 DEF Fits, SyncAt
      <4>3. \A id \in Ids(j.kind) : id \in DOMAIN mirror /\ id \notin Ids(k)
        BY <3>4, <4>2, KindsApart DEF Kinds, CatalogInv
      <4>4. \A id \in Ids(j.kind) : mirror'[id] = mirror[id] BY <2>1, <4>3
      <4>5. Fits(j, moved[q], kept[q], list, unseen, mirror', registered)
        <5> HIDE DEF j
        <5> QED BY <3>1, <4>4 DEF Fits
      <4> QED BY <1>1, <1>2, <3>4, <4>1, <4>5
    <3> QED BY <3>2, <3>3, <3>4
  <2> QED BY <1>1, <1>2, <2>1, <2>3, <2>4 DEF CatalogInv, Listed
<1> QED BY <1>3, <1>4

LEMMA DeletionKeeps == ASSUME CatalogInv, DropAccount PROVE CatalogInv'
<1>1. /\ registered' = FALSE /\ DOMAIN mirror' = DOMAIN mirror
      /\ UNCHANGED <<list, unseen, sync, kept, moved>>
  BY DEF DropAccount, platform, watched
<1>2. ASSUME NEW q \in Syncs PROVE Fits(sync[q], moved[q], kept[q], list, unseen, mirror', FALSE)
  BY DEF CatalogInv, Fits
<1> QED BY <1>1, <1>2 DEF CatalogInv, Listed

LEMMA SetToSeqIs == ASSUME NEW S, IsFiniteSet(S) PROVE SetToSeq(S) \in Seq(S)
<1>1. Cardinality(S) \in Nat /\ ExistsBijection(1..Cardinality(S), S) BY FS_CardinalityType
<1>2. PICK n \in Nat : n = Cardinality(S) BY <1>1
<1>3. \E f \in [1..n -> S] : IsInjective(f)
  BY <1>1, <1>2 DEF ExistsBijection, Bijection, Injection, IsInjective
<1>4. SetToSeq(S) \in [1..n -> S] BY <1>2, <1>3 DEF SetToSeq
<1> HIDE DEF SetToSeq
<1> QED BY <1>2, <1>4

\* The inductive invariant of every behaviour.
THEOREM CatalogInvariant == CatalogSpec => []CatalogInv
<1>1. CatalogInit => CatalogInv
  <2> SUFFICES ASSUME CatalogInit PROVE CatalogInv OBVIOUS
  <2>1. PICK S \in SUBSET Goods, O \in SUBSET Sales :
          list = [k \in Kinds |-> SetToSeq(IF k = "items" THEN S ELSE O)]
    BY DEF CatalogInit
  <2>2. Listed
    <3>1. IsFiniteSet(S) /\ IsFiniteSet(O) BY CatalogAssumption, FS_Subset
    <3>2. SetToSeq(S) \in Seq(S) /\ SetToSeq(O) \in Seq(O) BY <3>1, SetToSeqIs
    <3>3. SetToSeq(S) \in Seq(Goods) /\ SetToSeq(O) \in Seq(Sales) BY <3>2
    <3>4. ASSUME NEW k \in Kinds PROVE list[k] \in Seq(Ids(k))
      <4>1. CASE k = "items" BY <2>1, <3>3, <4>1, KindsApart
      <4>2. CASE k = "orders" BY <2>1, <3>3, <4>2, KindsApart
      <4> QED BY <4>1, <4>2 DEF Kinds
    <3> QED BY <2>1, <3>4 DEF Listed
  <2>3. moved \in [Syncs -> Histories] BY DEF CatalogInit, Histories
  <2>4. \A p \in Syncs : Fits(sync[p], moved[p], kept[p], list, unseen, mirror, registered)
    BY IdleFits DEF CatalogInit
  <2> QED BY <2>2, <2>3, <2>4 DEF CatalogInit, CatalogInv
<1>2. CatalogInv /\ [CatalogNext]_catalogVars => CatalogInv'
  <2> SUFFICES ASSUME CatalogInv, [CatalogNext]_catalogVars PROVE CatalogInv' OBVIOUS
  <2>1. ASSUME NEW k \in Kinds, NEW id \in Ids(k), Appears(k, id) PROVE CatalogInv'
    BY <2>1, AppearsKeeps
  <2>2. ASSUME NEW g \in Goods, Leaves(g) PROVE CatalogInv' BY <2>2, LeavesKeeps
  <2>3. ASSUME NEW o \in Sales, IsDelivered(o) PROVE CatalogInv' BY <2>3, DeliveredKeeps
  <2>4. CASE DropAccount BY <2>4, DeletionKeeps
  <2>5. ASSUME NEW p \in Syncs, SyncStep(p) PROVE CatalogInv'
    <3>1. ASSUME NEW k \in Kinds, BeginSync(p, k) PROVE CatalogInv' BY <3>1, BeginKeeps
    <3>2. CASE FetchPage(p) \/ BootstrapList(p) \/ Signed(p) \/ Fail(p) BY <3>2, FetchKeeps
    <3>3. CASE ReadRows(p) BY <3>3, ReadKeeps
    <3>4. CASE Write(p) BY <3>4, WriteKeeps
    <3> QED BY <2>5, <3>1, <3>2, <3>3, <3>4 DEF SyncStep
  <2>6. CASE UNCHANGED catalogVars BY <2>6 DEF catalogVars, platform, local, watched, CatalogInv, Listed
  <2> QED BY <2>1, <2>2, <2>3, <2>4, <2>5, <2>6 DEF CatalogNext, PlatformNext
<1> QED BY <1>1, <1>2, PTL DEF CatalogSpec

\* For any lists, page size, syncs and faults: what is applied has everything
\* that was listed all the time it was fetched.
THEOREM SnapshotsAreComplete == CatalogSpec => []SnapshotIsComplete
<1>1. CatalogInv => SnapshotIsComplete BY DEF CatalogInv, Fits, SnapshotIsComplete
<1> QED BY <1>1, CatalogInvariant, PTL

\* The one write of an undisturbed sync leaves the mirror as the list is.
LEMMA LoneWrite ==
  ASSUME CatalogInv, NEW p \in Syncs, Write(p) PROVE LeavesMirror(p)
<1> DEFINE j == sync[p]
           k == j.kind
           l == list[k]
<1> SUFFICES ASSUME SyncAt(p, "write"), Applies(k, j.got, j.rows), ~moved[p].changed, moved[p].alone
             PROVE  /\ \A id \in Range(l) \ Malformed : mirror'[id] = Says(id)
                    /\ k = "items" => \A id \in Goods \ Range(l) : mirror'[id] # "on"
  BY DEF LeavesMirror
<1>1. Fits(j, moved[p], kept[p], list, unseen, mirror, registered) /\ registered BY DEF CatalogInv, Applies
<1>2. /\ k \in Kinds /\ DOMAIN j.got \subseteq Ids(k) /\ ~moved[p].lost /\ Exact(j.got, kept[p], l, unseen)
      /\ kept[p] \ Malformed \subseteq DOMAIN j.got
      /\ \A id \in Ids(k) : j.rows[id] = mirror[id]
  BY <1>1 DEF Fits, SyncAt
<1>3. Range(l) \subseteq kept[p] /\ \A id \in DOMAIN j.got : id \in Range(l) /\ j.got[id] = Tells(unseen, id)
  BY <1>2 DEF Exact
<1>4. \A id \in Ids(k) : mirror'[id] = Applied(id, k, j.got, j.rows)
  <2>1. Ids(k) \subseteq DOMAIN mirror BY DEF CatalogInv, Ids
  <2> QED BY <2>1 DEF Write
<1>5. Range(l) \subseteq Ids(k) BY <1>2 DEF CatalogInv, Listed, Range
<1> HIDE DEF j, k, l
<1>6. ASSUME NEW id \in Range(l) \ Malformed PROVE mirror'[id] = Says(id)
  <2>1. id \in DOMAIN j.got /\ id \in Ids(k) BY <1>2, <1>3, <1>5
  <2>2. j.got[id] = Tells(unseen, id) /\ j.rows[id] = mirror[id] BY <1>2, <1>3, <2>1
  <2>3. mirror'[id] = j.got[id] BY <1>4, <2>1, <2>2 DEF Applied
  <2> QED BY <2>2, <2>3, SaysIs
<1>7. ASSUME k = "items", NEW id \in Goods \ Range(l) PROVE mirror'[id] # "on"
  <2>1. id \notin DOMAIN j.got /\ id \in Ids(k) BY <1>3, <1>7, KindsApart
  <2> QED BY <1>4, <1>7, <2>1 DEF Applied
<1> QED BY <1>6, <1>7

\* Nobody else ends a sync that is about to write, but its failure.
LEMMA OnlyWrite ==
  ASSUME CatalogInv,
         failures \in Nat, [CatalogNext]_catalogVars, NEW p \in Syncs PROVE Write(p) \/ LeavesMirror(p)
<1> SUFFICES ASSUME SyncAt(p, "write"), SyncGoes(p, NoSync), failures' = failures PROVE Write(p)
  BY DEF LeavesMirror
<1>1. DOMAIN sync = Syncs /\ sync[p].pc = "write" /\ sync'[p].pc = "idle"
  BY DEF CatalogInv, SyncAt, SyncGoes, NoSync
<1>2. sync' # sync BY <1>1
<1>3. PICK q \in Syncs : SyncStep(q)
  BY <1>2 DEF CatalogNext, PlatformNext, Appears, Leaves, IsDelivered, DropAccount, catalogVars, local
<1>4. PICK j : SyncGoes(q, j)
  BY <1>3 DEF SyncStep, BeginSync, FetchPage, BootstrapList, Signed, Fail, ReadRows, Write, PageCame
<1>5. q = p BY <1>1, <1>4 DEF SyncGoes
<1>6. /\ \A k \in Kinds : ~BeginSync(p, k)
      /\ ~FetchPage(p) /\ ~BootstrapList(p) /\ ~Signed(p) /\ ~ReadRows(p)
  BY <1>1 DEF BeginSync, FetchPage, BootstrapList, Signed, ReadRows, SyncAt
<1>7. ~Fail(p) BY DEF Fail
<1> QED BY <1>3, <1>5, <1>6, <1>7 DEF SyncStep

\* For any lists and faults, a sync that nothing disturbs leaves its mirror as the
\* list is: what is on sale, and the orders' statuses.
THEOREM LoneSyncsMirror == CatalogSpec => LoneSyncMirrors
<1>1. CatalogInit => failures \in Nat BY DEF CatalogInit
<1>2. failures \in Nat /\ [CatalogNext]_catalogVars => (failures \in Nat)'
  <2> SUFFICES ASSUME failures \in Nat, [CatalogNext]_catalogVars PROVE failures' \in Nat OBVIOUS
  <2>1. failures' = failures \/ failures' = failures + 1
    BY DEF CatalogNext, PlatformNext, Appears, Leaves, IsDelivered, DropAccount, SyncStep, BeginSync, FetchPage,
           BootstrapList, Signed, Fail, ReadRows, Write, catalogVars
  <2> QED BY <2>1
<1>3. CatalogInv /\ failures \in Nat /\ [CatalogNext]_catalogVars => \A p \in Syncs : LeavesMirror(p)
  BY OnlyWrite, LoneWrite
<1> QED BY <1>1, <1>2, <1>3, CatalogInvariant, PTL DEF CatalogSpec, LoneSyncMirrors
=============================================================================
