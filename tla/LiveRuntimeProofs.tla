-------------------------- MODULE LiveRuntimeProofs --------------------------
(***************************************************************************)
(* Proofs about LiveRuntime, for every size of a position, any number of   *)
(* plans and unwinds, and orders that outlive their plan or do not.        *)
(***************************************************************************)
EXTENDS LiveRuntime, TLAPS

Modes == {"FLAT", "OPEN", "PAUSED"}

\* What TypeOK does not say: the shape of the records, that a plan has a side
\* while it is traded, that a process that is down is nowhere in a bar, and that a
\* drift is answered under an open position.
Shapes ==
    /\ disk \in [mode : Modes, dir : {-1, 0, 1}, rows : Position]
    /\ plan \in [kind : {"ENTRY", "EXIT"}, dir : {-1, 0, 1}, from : Modes]
    /\ step = "placing" => plan.dir # 0
    /\ proc = "down" => step = "idle"
    /\ step \in {"drifted", "unwinding"} => proc = "up" /\ mem.mode = "OPEN"

TypeInv == TypeOK /\ Shapes

-----------------------------------------------------------------------------
(* What the operators return *)

\* A plan trades one way, the other way, or not at all.
LEMMA SideType ==
    ASSUME TypeInv, NEW b \in Brokers
    PROVE  Side(b) \in {-1, 0, 1}
BY DEF TypeInv, TypeOK, Side, Brokers

\* A side times a number is a number.
LEMMA SidedType ==
    ASSUME NEW s \in {-1, 0, 1}, NEW n \in Int
    PROVE  s * n \in Int
OBVIOUS

\* The position of a direction.
LEMMA HeldType ==
    ASSUME NEW d \in {-1, 0, 1}
    PROVE  /\ Held(d) \in Position
           /\ Held(d)["ccf"] = d * CcfQty /\ Held(d)["umc"] = -d * UmcQty
<1>1. d * CcfQty \in Int /\ -d * UmcQty \in Int
  BY SizeAssumption
<1> QED BY <1>1 DEF Held, Position, Brokers

\* A pair of fills at a size moves the position by a position.
LEMMA RecordType ==
    ASSUME TypeInv, NEW fills, \A b \in Brokers : fills[b] \in Nat, Record(fills)
    PROVE  rows' \in Position
<1>1. \A b \in Brokers : Side(b) * fills[b] \in Int
  BY SideType
<1>2. \A b \in Brokers : rows[b] + Side(b) * fills[b] \in Int
  BY <1>1 DEF TypeInv, TypeOK, Position
<1> QED BY <1>2 DEF Record, Position

\* What is left of an order is a number of shares.
LEMMA LeftoverType ==
    ASSUME TypeInv
    PROVE  Side("umc") * (UmcQty - net["umc"]) \in Int
<1>1. UmcQty - net["umc"] \in Int
  BY SizeAssumption DEF TypeInv, TypeOK, Position, Brokers
<1> QED BY <1>1, SideType DEF Brokers

\* Division, as the provers know it.
LEMMA Division ==
    ASSUME NEW m \in Nat, NEW d \in Nat \ {0}
    PROVE  m \div d \in Nat /\ d * (m \div d) <= m /\ m < d * (m \div d) + d
OBVIOUS

\* The hedge target is the whole number of contracts nearest to the ratio, on the
\* side that hedges what is left.
LEMMA TargetIsNearest ==
    ASSUME NEW d \in {-1, 1}, NEW u \in Int, NEW U \in Nat \ {0}, NEW C \in Nat \ {0}
    PROVE  LET t == HedgeTarget(d * C, -d * U, u)
           IN  /\ t \in Int
               /\ 2 * (t * U + u * C) <= U /\ -U <= 2 * (t * U + u * C)
<1> DEFINE p == C * Size(u)
           r == (2 * p + U) \div (2 * U)
           t == HedgeTarget(d * C, -d * U, u)
<1>1. p \in Nat /\ (u >= 0 => p = u * C) /\ (u < 0 => -p = u * C)
  BY DEF Size
<1>2. Size(-d * U) = U /\ Size(d * C * u) = p
  <2>1. Size(-d * U) = U
    BY DEF Size
  <2>2. CASE d = 1
    BY <1>1, <2>2 DEF Size
  <2>3. CASE d = -1
    BY <1>1, <2>3 DEF Size
  <2> QED BY <2>1, <2>2, <2>3
<1>3. r \in Nat /\ 2 * (r * U) <= 2 * p + U /\ 2 * p < 2 * (r * U) + U
  <2>1. 2 * p + U \in Nat /\ 2 * U \in Nat \ {0}
    BY <1>1
  <2>2. r \in Nat /\ (2 * U) * r <= 2 * p + U /\ 2 * p + U < (2 * U) * r + 2 * U
    BY <2>1, Division
  <2>3. (2 * U) * r = 2 * (r * U)
    BY <2>2
  <2> QED BY <1>1, <2>2, <2>3
<1>4. t = (Sign(d * C) * Sign(-d * U) * Sign(u)) * r /\ Sign(d * C) * Sign(-d * U) = -1
  <2>1. Sign(d * C) * Sign(-d * U) = -1
    BY DEF Sign
  <2> QED BY <1>2, <2>1 DEF HedgeTarget
<1> HIDE DEF p, r, t
<1>5. t * U + u * C \in {p - r * U, r * U - p} /\ t \in Int
  <2>1. CASE u > 0
    <3>1. t = 0 - r /\ p = u * C
      BY <1>1, <1>3, <1>4, <2>1 DEF Sign
    <3>2. t * U = 0 - r * U
      BY <1>3, <3>1
    <3> QED BY <1>1, <1>3, <3>1, <3>2
  <2>2. CASE u = 0
    <3>1. t = 0 /\ u * C = 0 /\ p = 0
      BY <1>1, <1>3, <1>4, <2>2 DEF Sign
    <3>2. 2 * (r * U) <= U
      BY <1>3, <3>1
    <3>3. r = 0
      BY <1>3, <3>2
    <3> QED BY <3>1, <3>3
  <2>3. CASE u < 0
    <3>1. t = r /\ 0 - p = u * C
      BY <1>1, <1>3, <1>4, <2>3 DEF Sign
    <3> QED BY <1>1, <1>3, <3>1
  <2> QED BY <2>1, <2>2, <2>3
<1>6. r * U \in Int /\ p \in Int
  BY <1>1, <1>3
<1> QED BY <1>3, <1>5, <1>6 DEF t

-----------------------------------------------------------------------------
(* Every step keeps the types *)

\* Nothing has happened yet.
LEMMA InitType == Init => TypeInv
<1> SUFFICES ASSUME Init PROVE TypeInv
  OBVIOUS
<1>1. Flat \in Position
  BY DEF Flat, Position
<1>2. FlatState \in State
  BY DEF FlatState, State
<1>3. net = Flat /\ disturbed = FALSE /\ verdict = "working"
  BY DEF Init, Plan!Init, Flat, Brokers
<1>4. disk \in [mode : Modes, dir : {-1, 0, 1}, rows : Position]
      /\ [mode |-> disk.mode, dir |-> disk.dir] \in State /\ disk.rows \in Position
  BY <1>1, <1>2 DEF Init, Fresh, FlatState, Modes
<1>5. disturbed \in BOOLEAN /\ verdict \in {"working", "hedged", "paused", "lost"}
  BY <1>3
<1>6. plan.kind \in {"ENTRY", "EXIT"} /\ plan.dir \in {-1, 0, 1}
  BY DEF Init
<1>7. TypeOK
  BY <1>1, <1>2, <1>3, <1>4, <1>5, <1>6 DEF Init, TypeOK
<1> QED BY <1>4, <1>7 DEF Init, TypeInv, Shapes, Modes

\* A committed state.
LEMMA CommitType ==
    ASSUME TypeInv, NEW s \in State, Commit(s)
    PROVE  /\ disk' \in [mode : Modes, dir : {-1, 0, 1}, rows : Position]
           /\ [mode |-> disk'.mode, dir |-> disk'.dir] = s /\ disk'.rows = rows
BY DEF TypeInv, TypeOK, Commit, State, Modes

\* The account moves by a whole number.
LEMMA TradeType ==
    ASSUME NEW p \in Position, NEW b \in Brokers, NEW n \in Int
    PROVE  [p EXCEPT ![b] = n] \in Position
BY DEF Position

\* A plan moves its legs.
LEMMA MoveType ==
    ASSUME TypeInv, Plan!Move
    PROVE  net' \in Position /\ UNCHANGED <<disturbed, verdict>>
<1>0. PICK b \in {"ccf", "umc"} : \E n \in 0..Plan!Full[b] : net' = [net EXCEPT ![b] = n]
  BY DEF Plan!Move
<1>1. PICK n \in 0..Plan!Full[b] : net' = [net EXCEPT ![b] = n]
  BY <1>0
<1>2. Plan!Full[b] \in Nat
  BY SizeAssumption DEF Plan!Full
<1>3. b \in Brokers /\ n \in Int
  BY <1>1, <1>2 DEF Brokers
<1>4. [net EXCEPT ![b] = n] \in Position
  BY <1>3, TradeType DEF TypeInv, TypeOK
<1> QED BY <1>1, <1>4 DEF Plan!Move

\* Orders of a plan trade.
LEMMA PlanTradesType ==
    ASSUME TypeInv, PlanTrades
    PROVE  TypeInv'
<1>1. net' \in Position /\ UNCHANGED <<disturbed, verdict>>
  BY MoveType DEF PlanTrades
<1>2. \A b \in Brokers : net'[b] - net[b] \in Int
  BY <1>1 DEF TypeInv, TypeOK, Position
<1>3. \A b \in Brokers : Side(b) * (net'[b] - net[b]) \in Int
  <2> SUFFICES ASSUME NEW b \in Brokers PROVE Side(b) * (net'[b] - net[b]) \in Int
    OBVIOUS
  <2>1. \A n \in Int : Side(b) * n \in Int
    BY SideType, SidedType
  <2> QED BY <1>2, <2>1
<1>4. \A b \in Brokers : broker[b] + Side(b) * (net'[b] - net[b]) \in Int
  <2> SUFFICES ASSUME NEW b \in Brokers PROVE broker[b] + Side(b) * (net'[b] - net[b]) \in Int
    OBVIOUS
  <2>1. broker[b] \in Int /\ Side(b) * (net'[b] - net[b]) \in Int
    BY <1>3 DEF TypeInv, TypeOK, Position
  <2>2. \A m, n \in Int : m + n \in Int
    OBVIOUS
  <2> QED BY <2>1, <2>2
<1>5. broker' \in Position
  BY <1>4 DEF PlanTrades, Position
<1>6. UNCHANGED <<proc, step, mem, gate, first, unwinds, read, rows, disk, run, closes,
                  pnl, stray, plan, alien, plans>>
  BY DEF PlanTrades, process, store
<1> QED BY <1>1, <1>5, <1>6 DEF TypeInv, TypeOK, Shapes

\* Trades nobody asked for.
LEMMA ForeignType ==
    ASSUME TypeInv, StrayTrades \/ StrayEnds \/ Recall
    PROVE  TypeInv'
<1>1. CASE StrayTrades
  <2>1. PICK n \in -UmcQty..UmcQty :
           /\ broker' = [broker EXCEPT !["umc"] = @ + n]
           /\ alien' = [alien EXCEPT !["umc"] = @ + n]
           /\ stray' = stray - n
    BY <1>1 DEF StrayTrades, Trade
  <2>2. n \in Int
    BY <2>1, SizeAssumption
  <2>3. broker["umc"] + n \in Int /\ alien["umc"] + n \in Int /\ stray - n \in Int
    BY <2>2 DEF TypeInv, TypeOK, Position, Brokers
  <2>4. broker' \in Position /\ alien' \in Position /\ stray' \in Int
    BY <2>1, <2>3, TradeType DEF TypeInv, TypeOK, Brokers
  <2>5. UNCHANGED <<proc, step, mem, gate, first, unwinds, read, rows, disk, run, closes,
                    pnl, plan, net, disturbed, verdict, plans>>
    BY <1>1 DEF StrayTrades, process, store, promise
  <2> QED BY <2>4, <2>5 DEF TypeInv, TypeOK, Shapes
<1>2. CASE StrayEnds
  <2>1. UNCHANGED <<proc, step, mem, gate, first, unwinds, read, rows, disk, run, closes,
                    pnl, broker, plan, net, disturbed, verdict, alien, plans>>
        /\ stray' = 0
    BY <1>2 DEF StrayEnds, process, store, promise
  <2> QED BY <2>1 DEF TypeInv, TypeOK, Shapes
<1>3. CASE Recall
  <2>1. PICK n \in 1..(-broker["umc"]) :
           /\ broker' = [broker EXCEPT !["umc"] = @ + n]
           /\ alien' = [alien EXCEPT !["umc"] = @ + n]
    BY <1>3 DEF Recall, Trade
  <2>2. broker["umc"] + n \in Int /\ alien["umc"] + n \in Int
    BY <2>1 DEF TypeInv, TypeOK, Position, Brokers
  <2>3. broker' \in Position /\ alien' \in Position
    BY <2>1, <2>2, TradeType DEF TypeInv, TypeOK, Brokers
  <2>4. UNCHANGED <<proc, step, mem, gate, first, unwinds, read, rows, disk, run, closes,
                    pnl, stray, plan, net, verdict, plans>>
    BY <1>3 DEF Recall, process, store, promise, Plan!Disturb
  <2>5. disturbed' \in BOOLEAN
    BY <1>3 DEF Recall, promise, Plan!Disturb, TypeInv, TypeOK
  <2> QED BY <2>3, <2>4, <2>5 DEF TypeInv, TypeOK, Shapes
<1> QED BY <1>1, <1>2, <1>3

\* The end of a bar.
LEMMA ConcludeType ==
    ASSUME TypeInv, NEW s \in State, Conclude(s), gate' \in {"open", "closed"},
           UNCHANGED <<unwinds, read, rows, closes, pnl, broker, stray, plan, promise,
                       alien, plans>>
    PROVE  TypeInv'
<1>1. Commit(s) /\ mem' = s /\ step' = "idle" /\ proc' = "up" /\ run' = "running"
      /\ UNCHANGED <<unwinds, read, rows, closes, pnl, broker, stray, plan, net,
                     disturbed, verdict, alien, plans>>
  BY DEF Conclude, promise
<1>2. disk' \in [mode : Modes, dir : {-1, 0, 1}, rows : Position]
      /\ [mode |-> disk'.mode, dir |-> disk'.dir] \in State /\ disk'.rows \in Position
  BY <1>1, CommitType DEF TypeInv, TypeOK
<1> QED BY <1>1, <1>2 DEF TypeInv, TypeOK, Shapes

\* A pause keeps the direction.
LEMMA PauseType ==
    ASSUME TypeInv
    PROVE  [mem EXCEPT !.mode = "PAUSED"] \in State
BY DEF TypeInv, TypeOK, State

\* Reconciliation, and what ends without one.
LEMMA ReconcileType ==
    ASSUME TypeInv, Reconcile \/ ReconcileAgain \/ EnterLoop
    PROVE  TypeInv'
<1>1. CASE Reconcile
  <2>1. UNCHANGED <<unwinds, read, rows, closes, pnl, broker, stray, plan, promise,
                    alien, plans>> /\ step = "settled"
    BY <1>1 DEF Reconcile
  <2>2. CASE Conclude(mem) /\ gate' \in {"open", "closed"}
    BY <2>1, <2>2, ConcludeType DEF TypeInv, TypeOK
  <2>3. CASE step' = "confirming" /\ UNCHANGED <<mem, gate, disk, proc, run>>
    BY <2>1, <2>3 DEF TypeInv, TypeOK, Shapes, promise
  <2>4. \/ Conclude(mem) /\ gate' \in {"open", "closed"}
        \/ step' = "confirming" /\ UNCHANGED <<mem, gate, disk, proc, run>>
    BY <1>1 DEF Reconcile, TypeInv, TypeOK
  <2> QED BY <2>2, <2>3, <2>4
<1>2. CASE ReconcileAgain
  <2>1. UNCHANGED <<unwinds, read, rows, closes, pnl, broker, stray, plan, promise,
                    alien, plans>>
    BY <1>2 DEF ReconcileAgain
  <2>2. PICK again : /\ Conclude(AfterConfirmation(again))
                     /\ gate' \in {"open", "closed"}
    BY <1>2 DEF ReconcileAgain, TypeInv, TypeOK
  <2>3. AfterConfirmation(again) \in State
    BY PauseType DEF AfterConfirmation, TypeInv, TypeOK
  <2> QED BY <2>1, <2>2, <2>3, ConcludeType
<1>3. CASE EnterLoop
  BY <1>3, ConcludeType DEF EnterLoop, TypeInv, TypeOK
<1> QED BY <1>1, <1>2, <1>3

\* A process starts from what was committed.
LEMMA StartType ==
    ASSUME TypeInv, Start
    PROVE  TypeInv'
<1>1. Flat \in Position
  BY DEF Flat, Position
<1>2. /\ mem' = [mode |-> disk.mode, dir |-> disk.dir] /\ proc' = "boot"
      /\ step' \in {"idle", "settled"}
      /\ alien' = Flat /\ net' = Flat /\ disturbed' = FALSE /\ verdict' = "working"
      /\ UNCHANGED <<gate, first, unwinds, read, rows, disk, run, closes, pnl, broker,
                     stray, plan, plans>>
  BY DEF Start, store
<1>3. disturbed' \in BOOLEAN
  BY <1>2
<1> QED BY <1>1, <1>2, <1>3 DEF TypeInv, TypeOK, Shapes

\* What is left of it when it has gone.
LEMMA GoneType ==
    ASSUME TypeInv, Crash \/ Interrupt
    PROVE  TypeInv'
<1>1. /\ disk' \in {disk, [disk EXCEPT !.rows = rows]} /\ Gone
      /\ run' \in {"none", "running", "closed"}
  BY DEF Crash, Interrupt, TypeInv, TypeOK
<1>2. disk' \in [mode : Modes, dir : {-1, 0, 1}, rows : Position]
      /\ [mode |-> disk'.mode, dir |-> disk'.dir] \in State /\ disk'.rows \in Position
  BY <1>1 DEF TypeInv, TypeOK, Shapes
<1>3. stray' \in Int
  BY <1>1, LeftoverType DEF Gone, TypeInv, TypeOK
<1>4. FlatState \in State
  BY DEF FlatState, State
<1>5. /\ proc' = "down" /\ step' = "idle" /\ mem' = FlatState /\ gate' = "open" /\ read' = 0
      /\ rows' = disk'.rows /\ verdict' \in {verdict, "lost"}
      /\ UNCHANGED <<net, disturbed, unwinds, closes, pnl, broker, plan, alien, plans>>
  BY <1>1 DEF Gone
<1> QED BY <1>1, <1>2, <1>3, <1>4, <1>5 DEF TypeInv, TypeOK, Shapes

\* A plan that is executed has a direction.
LEMMA ExecuteType ==
    ASSUME TypeInv, Running, NEW kind \in {"ENTRY", "EXIT"}, NEW dir \in {-1, 1}, NEW held,
           Execute(kind, dir, held)
    PROVE  TypeInv'
<1>1. Flat \in Position
  BY DEF Flat, Position
<1>2. /\ plan' = [kind |-> kind, dir |-> dir, from |-> mem.mode]
      /\ net' = Flat /\ disturbed' = FALSE /\ plans' = plans + 1
      /\ step' \in {"placing", "settled"} /\ verdict' \in {"working", "paused"}
      /\ alien' \in {alien, Flat} /\ mem' \in {mem, [mem EXCEPT !.mode = "PAUSED"]}
      /\ UNCHANGED <<proc, gate, first, unwinds, read, rows, disk, run, closes, pnl,
                     broker, stray>>
  BY DEF Execute, store
<1>3. disturbed' \in BOOLEAN
  BY <1>2
<1>4. mem' \in State
  BY <1>2, PauseType DEF TypeInv, TypeOK
<1>5. plan' \in [kind : {"ENTRY", "EXIT"}, dir : {-1, 0, 1}, from : Modes] /\ plan'.dir # 0
      /\ plan'.kind \in {"ENTRY", "EXIT"} /\ plan'.dir \in {-1, 0, 1}
  BY <1>2 DEF TypeInv, TypeOK, State, Modes
<1>6. plans + 1 \in Nat
  BY DEF TypeInv, TypeOK
<1>7. proc # "down"
  BY DEF Running
<1> QED BY <1>1, <1>2, <1>3, <1>4, <1>5, <1>6, <1>7 DEF TypeInv, TypeOK, Shapes

\* A bar that sends a plan.
LEMMA SendType ==
    ASSUME TypeInv, EntryBar \/ ExitBar
    PROVE  TypeInv'
<1>1. CASE EntryBar
  BY <1>1, ExecuteType DEF EntryBar
<1>2. CASE ExitBar
  <2>1. mem.dir \in {-1, 1}
    BY <1>2 DEF ExitBar, TypeInv, TypeOK, State
  <2> QED BY <1>2, <2>1, ExecuteType DEF ExitBar
<1> QED BY <1>1, <1>2

\* A bar in which a plan comes back.
LEMMA ReturnType ==
    ASSUME TypeInv, PlanFilled \/ PlanStopped
    PROVE  TypeInv'
<1>1. CASE PlanFilled
  <2>1. step = "placing" /\ step' = "settled" /\ verdict' = "hedged"
        /\ UNCHANGED <<proc, gate, first, unwinds, read, disk, run, closes, pnl, broker, plan,
                       net, disturbed, alien, plans>>
    BY <1>1 DEF PlanFilled, Plan!Hedge, store
  <2>2. mem' \in State
    BY <1>1, <2>1 DEF PlanFilled, FlatState, State, TypeInv, TypeOK, Shapes
  <2>3. \A b \in Brokers : Plan!Full[b] \in Nat
    BY SizeAssumption DEF Plan!Full, Brokers
  <2>4. rows' \in Position
    BY <1>1, <2>3, RecordType DEF PlanFilled
  <2>5. stray' \in Int
    BY <1>1, LeftoverType DEF PlanFilled, TypeInv, TypeOK
  <2> QED BY <2>1, <2>2, <2>4, <2>5 DEF TypeInv, TypeOK, Shapes
<1>2. CASE PlanStopped
  <2>1. step = "placing" /\ step' = "settled" /\ verdict' = "paused"
        /\ UNCHANGED <<proc, gate, first, unwinds, read, disk, run, closes, pnl, broker, plan,
                       net, disturbed, alien, plans>>
    BY <1>2 DEF PlanStopped, Plan!Stop, store
  <2>2. mem' \in State
    BY <1>2, PauseType DEF PlanStopped
  <2>3. PICK fills \in [Brokers -> 0..(CcfQty + UmcQty)] : Record(fills)
    BY <1>2 DEF PlanStopped
  <2>4. \A b \in Brokers : fills[b] \in Nat
    BY SizeAssumption
  <2>5. rows' \in Position
    BY <2>3, <2>4, RecordType
  <2>6. stray' \in Int
    BY <1>2, LeftoverType DEF PlanStopped, TypeInv, TypeOK
  <2> QED BY <2>1, <2>2, <2>5, <2>6 DEF TypeInv, TypeOK, Shapes
<1> QED BY <1>1, <1>2

\* An unwind's target is a number of contracts, and so is what lies on the way.
LEMMA UnwindType ==
    ASSUME TypeInv, step \in {"drifted", "unwinding"}, NEW left \in Int
    PROVE  /\ UnwindTarget(left) \in Int
           /\ \A c \in Between(UnwindTarget(left), broker["ccf"]) : c \in Int
           /\ mem.dir \in {-1, 1}
           /\ 2 * (UnwindTarget(left) * UmcQty + left * CcfQty) <= UmcQty
           /\ -UmcQty <= 2 * (UnwindTarget(left) * UmcQty + left * CcfQty)
<1>1. mem.dir \in {-1, 1}
  BY DEF TypeInv, TypeOK, Shapes, State
<1>2. broker["ccf"] \in Int
  BY DEF TypeInv, TypeOK, Position, Brokers
<1>3. UnwindTarget(left) = HedgeTarget(mem.dir * CcfQty, -mem.dir * UmcQty, left)
  BY DEF UnwindTarget, Held
<1>4. /\ UnwindTarget(left) \in Int
      /\ 2 * (UnwindTarget(left) * UmcQty + left * CcfQty) <= UmcQty
      /\ -UmcQty <= 2 * (UnwindTarget(left) * UmcQty + left * CcfQty)
  BY <1>1, <1>3, TargetIsNearest, SizeAssumption
<1>5. \A c \in Between(UnwindTarget(left), broker["ccf"]) : c \in Int
  BY <1>2, <1>4 DEF Between
<1> QED BY <1>1, <1>4, <1>5

\* What it trades leaves a whole number of contracts.
LEMMA CloseType ==
    ASSUME TypeInv, NEW c \in Int, Close(c)
    PROVE  broker' \in Position /\ read' = 0
BY TradeType DEF Close, TypeInv, TypeOK, Brokers

\* The drift check, its unwind, and a new day.
LEMMA DriftType ==
    ASSUME TypeInv, DriftCheck \/ UnwindCut \/ NewDay
    PROVE  TypeInv'
<1>1. CASE DriftPauses
  <2>1. mem' \in State
    BY <1>1, PauseType DEF DriftPauses
  <2>2. disk' \in [mode : Modes, dir : {-1, 0, 1}, rows : Position]
        /\ [mode |-> disk'.mode, dir |-> disk'.dir] \in State /\ disk'.rows \in Position
    BY <1>1, <2>1, CommitType DEF DriftPauses, TypeInv, TypeOK
  <2> QED BY <1>1, <2>1, <2>2 DEF DriftPauses, promise, TypeInv, TypeOK, Shapes
<1>2. CASE Unwind
  <2>0. step = "unwinding" /\ step' = "idle" /\ read \in Int
        /\ Close(UnwindTarget(read))
        /\ alien' = [alien EXCEPT !["ccf"] = UnwindTarget(read),
                                  !["umc"] = @ + Held(mem.dir)["umc"]]
    BY <1>2 DEF Unwind, TypeInv, TypeOK
  <2>1. broker' \in Position /\ alien' \in Position /\ read' = 0
    <3>1. UnwindTarget(read) \in Int /\ mem.dir \in {-1, 1}
      BY <2>0, UnwindType
    <3>2. alien["umc"] + Held(mem.dir)["umc"] \in Int
      <4>1. alien["umc"] \in Int
        BY DEF TypeInv, TypeOK, Position, Brokers
      <4>2. Held(mem.dir)["umc"] \in Int
        BY <3>1, HeldType DEF Position, Brokers
      <4> QED BY <4>1, <4>2
    <3>3. alien' \in Position
      BY <2>0, <3>1, <3>2 DEF TypeInv, TypeOK, Position
    <3> QED BY <2>0, <3>1, <3>3, CloseType
  <2>2. mem' = FlatState /\ FlatState \in State
    BY <1>2 DEF Unwind, FlatState, State
  <2>3. disk' \in [mode : Modes, dir : {-1, 0, 1}, rows : Position]
        /\ [mode |-> disk'.mode, dir |-> disk'.dir] \in State /\ disk'.rows \in Position
    BY <1>2, <2>2, CommitType DEF Unwind, TypeInv, TypeOK
  <2>4. unwinds + 1 \in Nat /\ unwinds' = unwinds + 1
    BY <1>2 DEF Unwind, TypeInv, TypeOK
  <2> QED BY <1>2, <2>0, <2>1, <2>2, <2>3, <2>4 DEF Unwind, promise, TypeInv, TypeOK, Shapes
<1>3. CASE UnwindFails
  <2>0. step = "unwinding" /\ step' = "idle" /\ read \in Int
    BY <1>3 DEF UnwindFails, TypeInv, TypeOK
  <2>1. PICK c \in Between(UnwindTarget(read), broker["ccf"]) :
          /\ Close(c)
          /\ alien' = [alien EXCEPT !["ccf"] = c - Held(mem.dir)["ccf"]]
    BY <1>3 DEF UnwindFails
  <2>2. broker' \in Position /\ alien' \in Position /\ read' = 0
    <3>1. c \in Int /\ Held(mem.dir)["ccf"] \in Int
      BY <2>0, UnwindType, HeldType DEF Position, Brokers
    <3>2. c - Held(mem.dir)["ccf"] \in Int
      BY <3>1
    <3> QED BY <2>1, <3>1, <3>2, TradeType, CloseType DEF TypeInv, TypeOK, Brokers
  <2>3. mem' \in State
    BY <1>3, PauseType DEF UnwindFails
  <2>4. disk' \in [mode : Modes, dir : {-1, 0, 1}, rows : Position]
        /\ [mode |-> disk'.mode, dir |-> disk'.dir] \in State /\ disk'.rows \in Position
    BY <1>3, <2>3, CommitType DEF UnwindFails, TypeInv, TypeOK
  <2> QED BY <1>3, <2>0, <2>2, <2>3, <2>4
          DEF UnwindFails, promise, TypeInv, TypeOK, Shapes
<1>4. CASE UnwindCut
  <2>0. step = "unwinding" /\ step' = "idle" /\ Close(UnwindTarget(read))
    BY <1>4 DEF UnwindCut
  <2>1. broker' \in Position /\ read' = 0
    BY <2>0, UnwindType, CloseType DEF TypeInv, TypeOK
  <2>2. FlatState \in State
    BY DEF FlatState, State
  <2> QED BY <1>4, <2>0, <2>1, <2>2 DEF UnwindCut, store, promise, TypeInv, TypeOK, Shapes
<1>5. CASE DriftSeen
  BY <1>5 DEF DriftSeen, Drifted, Running, process, store, promise, TypeInv, TypeOK, Shapes
<1>6. CASE ReadForUnwind
  <2>1. broker["umc"] \in Int
    BY DEF TypeInv, TypeOK, Position, Brokers
  <2> QED BY <1>6, <2>1 DEF ReadForUnwind, store, promise, TypeInv, TypeOK, Shapes
<1>7. CASE NewDay
  BY <1>7 DEF NewDay, store, promise, TypeInv, TypeOK, Shapes
<1> QED BY <1>1, <1>2, <1>3, <1>4, <1>5, <1>6, <1>7 DEF DriftCheck

\* The operator's trades and commands.
LEMMA OperatorType ==
    ASSUME TypeInv, (\E b \in Brokers : HandClose(b)) \/ Recovery
    PROVE  TypeInv'
<1>1. CASE \E b \in Brokers : HandClose(b)
  <2>1. PICK b \in Brokers : HandClose(b)
    BY <1>1
  <2>2. broker' \in Position
    <3>1. broker \in Position /\ broker' = [broker EXCEPT ![b] = 0]
      BY <2>1 DEF HandClose, TypeInv, TypeOK
    <3> QED BY <3>1 DEF Position
  <2> QED BY <2>1, <2>2 DEF HandClose, process, store, promise, TypeInv, TypeOK, Shapes
<1>2. CASE Recovery
  <2>1. Flat \in Position
    BY DEF Flat, Position
  <2>2. /\ disk' \in [mode : Modes, dir : {-1, 0, 1}, rows : Position]
        /\ [mode |-> disk'.mode, dir |-> disk'.dir] \in State
        /\ rows' \in {rows, Flat} /\ pnl' \in {"complete", "pending"}
    <3>1. CASE ClearPause
      BY <3>1, <2>1 DEF ClearPause, TypeInv, TypeOK, Shapes, State, Modes
    <3>2. CASE ManualFlat
      BY <3>2, <2>1 DEF ManualFlat, Squared, TypeInv, TypeOK, Shapes, State, Modes
    <3>3. CASE RepairLedger
      BY <3>3, <2>1 DEF RepairLedger, Squared, TypeInv, TypeOK, Shapes, State, Modes
    <3>4. CASE SettleManualClose
      BY <3>4, <2>1 DEF SettleManualClose, TypeInv, TypeOK, Shapes, State, Modes
    <3> QED BY <1>2, <3>1, <3>2, <3>3, <3>4 DEF Recovery
  <2>3. PICK n \in Nat : closes' = n
    <3>1. CASE ManualFlat
      BY <3>1 DEF ManualFlat, TypeInv, TypeOK
    <3>2. CASE SettleManualClose
      <4>1. closes - 1 \in Nat
        BY <3>2 DEF SettleManualClose, TypeInv, TypeOK
      <4> QED BY <3>2, <4>1 DEF SettleManualClose
    <3>3. CASE ClearPause \/ RepairLedger
      BY <3>3 DEF ClearPause, RepairLedger, TypeInv, TypeOK
    <3> QED BY <1>2, <3>1, <3>2, <3>3 DEF Recovery
  <2>4. /\ UNCHANGED <<proc, step, mem, gate, first, unwinds, read, run, broker, stray, plan,
                       net, disturbed, verdict, alien, plans>>
        /\ proc = "down"
    BY <1>2 DEF Recovery, ClearPause, ManualFlat, RepairLedger, SettleManualClose,
                Command, process, promise
  <2>5. disk'.rows \in Position /\ rows' \in Position
    BY <2>1, <2>2 DEF TypeInv, TypeOK
  <2> QED BY <2>2, <2>3, <2>4, <2>5 DEF TypeInv, TypeOK, Shapes
<1> QED BY <1>1, <1>2

\* So does every step.
LEMMA StepType == TypeInv /\ [Next]_vars => TypeInv'
<1> SUFFICES ASSUME TypeInv, [Next]_vars PROVE TypeInv'
  OBVIOUS
<1>1. CASE UNCHANGED vars
  BY <1>1 DEF vars, process, store, promise, TypeInv, TypeOK, Shapes
<1>2. CASE Next
  BY <1>2, PlanTradesType, ForeignType, StartType, ReconcileType, GoneType, SendType,
     ReturnType, DriftType, OperatorType DEF Next, Bar
<1> QED BY <1>1, <1>2

\* TypeInv, of which TypeOK is a part.
LEMMA TypeIsKept == Spec => []TypeInv
BY InitType, StepType, PTL DEF Spec

\* The type invariant of the live process: at any time a store and a strategy
\* state that the code's own checks accept (FLAT holds nothing, OPEN something).
THEOREM RuntimeTypes == Spec => []TypeOK
<1>1. TypeInv => TypeOK
  BY DEF TypeInv
<1> QED BY <1>1, TypeIsKept, PTL

-----------------------------------------------------------------------------
(* Where the brokers stand *)

\* Where the plan being traded found a broker.
Base(b) == IF plan.kind = "ENTRY" THEN 0 ELSE Held(plan.dir)[b]

\* While a plan trades, the brokers are where it found them, what was done behind
\* its back, and what it has moved.  Between plans, in a process that is not
\* paused, they hold the position of the state.  RunningMatchesBrokers speaks of
\* the loop between bars alone, which no step of a plan starts from: what a plan
\* moved must be accounted for while it moves it.
Tracked ==
    /\ step = "placing" =>
         \A b \in Brokers : broker[b] = Base(b) + alien[b] + Side(b) * net[b]
    /\ proc # "down" /\ step # "placing" /\ mem.mode # "PAUSED" /\ ~disturbed =>
         \A b \in Brokers : broker[b] = Held(mem.dir)[b] + alien[b]

\* The numbers of a position.
LEMMA Numbers ==
    ASSUME TypeInv, NEW b \in Brokers
    PROVE  /\ broker[b] \in Int /\ alien[b] \in Int /\ net[b] \in Int
           /\ Held(mem.dir)[b] \in Int /\ Base(b) \in Int /\ Side(b) \in {-1, 0, 1}
<1>1. mem.dir \in {-1, 0, 1} /\ plan.dir \in {-1, 0, 1}
  BY DEF TypeInv, TypeOK, State
<1>2. Held(mem.dir) \in Position /\ Held(plan.dir) \in Position
  BY <1>1, HeldType
<1>3. Base(b) \in Int
  BY <1>2 DEF Base, Position
<1> QED BY <1>2, <1>3, SideType DEF TypeInv, TypeOK, Position

\* A side moves by the difference.
LEMMA Moved ==
    ASSUME NEW s \in {-1, 0, 1}, NEW m \in Int, NEW n \in Int, NEW a \in Int, NEW c \in Int,
           a = c + s * m
    PROVE  a + s * (n - m) = c + s * n
<1>1. CASE s = -1
  BY <1>1
<1>2. CASE s = 0
  BY <1>2
<1>3. CASE s = 1
  BY <1>3
<1> QED BY <1>1, <1>2, <1>3

\* The plan's own trades are accounted for as what it has moved.
LEMMA PlanTradesTracked ==
    ASSUME TypeInv, Tracked, PlanTrades
    PROVE  Tracked'
<1>1. /\ step = "placing" /\ step' = "placing"
      /\ broker' = [b \in Brokers |-> broker[b] + Side(b) * (net'[b] - net[b])]
      /\ UNCHANGED <<plan, alien>>
  BY DEF PlanTrades
<1>2. net' \in Position
  BY MoveType DEF PlanTrades
<1> SUFFICES ASSUME NEW b \in Brokers
             PROVE  broker'[b] = (Base(b) + alien[b]) + Side(b) * net'[b]
  BY <1>1 DEF Tracked, Base, Side
<1>3. broker[b] = (Base(b) + alien[b]) + Side(b) * net[b]
  BY <1>1 DEF Tracked
<1>4. broker'[b] = broker[b] + Side(b) * (net'[b] - net[b])
  BY <1>1
<1>5. PICK n \in Int : net'[b] = n
  BY <1>2 DEF Position
<1>6. broker[b] + Side(b) * (n - net[b]) = (Base(b) + alien[b]) + Side(b) * n
  <2>1. Base(b) + alien[b] \in Int
    BY Numbers
  <2> QED BY <1>3, <2>1, Numbers, Moved
<1> QED BY <1>4, <1>5, <1>6

\* What others trade is accounted for as such.
LEMMA ForeignTracked ==
    ASSUME TypeInv, Tracked, StrayTrades \/ StrayEnds \/ Recall
    PROVE  Tracked'
<1>1. PICK n \in Int : \A b \in Brokers :
         /\ broker'[b] = IF b = "umc" THEN broker[b] + n ELSE broker[b]
         /\ alien'[b] = IF b = "umc" THEN alien[b] + n ELSE alien[b]
  <2>1. CASE StrayTrades
    <3>1. PICK n \in -UmcQty..UmcQty :
             /\ broker' = [broker EXCEPT !["umc"] = @ + n]
             /\ alien' = [alien EXCEPT !["umc"] = @ + n]
      BY <2>1 DEF StrayTrades, Trade
    <3>2. n \in Int
      BY <3>1, SizeAssumption
    <3> QED BY <3>1, <3>2 DEF TypeInv, TypeOK, Position, Brokers
  <2>2. CASE StrayEnds
    <3>1. UNCHANGED <<broker, alien>> /\ \A b \in Brokers : broker[b] \in Int /\ alien[b] \in Int
      BY <2>2, Numbers DEF StrayEnds
    <3>2. \A m \in Int : m + 0 = m
      OBVIOUS
    <3> WITNESS 0 \in Int
    <3> QED BY <3>1, <3>2
  <2>3. CASE Recall
    <3>1. PICK n \in 1..(-broker["umc"]) :
             /\ broker' = [broker EXCEPT !["umc"] = @ + n]
             /\ alien' = [alien EXCEPT !["umc"] = @ + n]
      BY <2>3 DEF Recall, Trade
    <3>2. n \in Int
      BY <3>1 DEF TypeInv, TypeOK, Position, Brokers
    <3> QED BY <3>1, <3>2 DEF TypeInv, TypeOK, Position, Brokers
  <2> QED BY <2>1, <2>2, <2>3
<1>2. UNCHANGED <<proc, step, mem, plan, net>> /\ (disturbed => disturbed')
  BY DEF StrayTrades, StrayEnds, Recall, process, promise, Plan!Disturb
<1>3. ASSUME step = "placing", NEW b \in Brokers
      PROVE  broker'[b] = Base(b) + alien'[b] + Side(b) * net[b]
  <2>1. broker[b] = Base(b) + alien[b] + Side(b) * net[b]
    BY <1>3 DEF Tracked
  <2>2. Side(b) * net[b] \in Int
    BY Numbers
  <2> QED BY <1>1, <2>1, <2>2, Numbers
<1>4. ASSUME proc # "down", step # "placing", mem.mode # "PAUSED", ~disturbed',
             NEW b \in Brokers
      PROVE  broker'[b] = Held(mem.dir)[b] + alien'[b]
  <2>1. broker[b] = Held(mem.dir)[b] + alien[b]
    BY <1>2, <1>4 DEF Tracked
  <2> QED BY <1>1, <2>1, Numbers
<1> QED BY <1>2, <1>3, <1>4 DEF Tracked, Base, Side

\* Nothing that can be at odds with the brokers runs: the process is down, or
\* paused, and no plan is traded.
Idle == step # "placing" /\ (proc = "down" \/ mem.mode = "PAUSED")

\* Nothing of it is said about those.
LEMMA IdleTracked ==
    ASSUME Idle'
    PROVE  Tracked'
BY DEF Idle, Tracked

\* A plan is sent only over what it takes the brokers to hold.
LEMMA ExecuteTracked ==
    ASSUME TypeInv, NEW kind \in {"ENTRY", "EXIT"}, NEW dir \in {-1, 1},
           NEW held, held = IF kind = "ENTRY" THEN Flat ELSE Held(dir),
           Execute(kind, dir, held)
    PROVE  Tracked'
<1>1. CASE step' = "settled" /\ mem' = [mem EXCEPT !.mode = "PAUSED"]
  BY <1>1, IdleTracked DEF Idle, TypeInv, TypeOK, State
<1>2. CASE broker = held /\ step' = "placing" /\ alien' = Flat
  <2>1. /\ plan' = [kind |-> kind, dir |-> dir, from |-> mem.mode]
        /\ net' = Flat /\ UNCHANGED broker
    BY DEF Execute
  <2>2. Held(dir) \in Position
    BY HeldType
  <2> SUFFICES ASSUME NEW b \in Brokers
               PROVE  broker'[b] = Base(b)' + alien'[b] + Side(b)' * net'[b]
    BY <1>2 DEF Tracked
  <2>3. plan'.kind = kind /\ plan'.dir = dir
    BY <2>1
  <2>4. Base(b)' = held[b] /\ held[b] \in Int
    BY <2>2, <2>3 DEF Base, Flat, Position
  <2>5. alien'[b] = 0 /\ net'[b] = 0
    BY <1>2, <2>1 DEF Flat
  <2>6. Side(b)' \in Int
    BY <2>3 DEF Side
  <2>7. Side(b)' * 0 = 0
    BY <2>6
  <2> QED BY <1>2, <2>1, <2>4, <2>5, <2>7
<1> QED BY <1>1, <1>2 DEF Execute, GuardHolds

\* A pair that is executed in full is where its plan was to take it.
LEMMA FilledTracked ==
    ASSUME TypeInv, Tracked, PlanFilled
    PROVE  Tracked'
<1>1. /\ step = "placing" /\ step' = "settled" /\ plan.dir \in {-1, 1}
      /\ UNCHANGED <<broker, alien, net, plan, disturbed>>
      /\ mem' \in IF plan.kind = "EXIT" THEN {FlatState}
                  ELSE {[mode |-> "OPEN", dir |-> plan.dir], [mode |-> "PAUSED", dir |-> 0]}
  BY DEF PlanFilled, Plan!Hedge, TypeInv, TypeOK, Shapes
<1> SUFFICES ASSUME mem'.mode # "PAUSED", ~disturbed, NEW b \in Brokers
             PROVE  broker[b] = Held(mem'.dir)[b] + alien[b]
  BY <1>1 DEF Tracked
<1>2. net[b] = Plan!Full[b]
  BY DEF PlanFilled, Plan!Hedge, Brokers
<1>3. broker[b] = Base(b) + alien[b] + Side(b) * net[b]
  BY <1>1 DEF Tracked
<1>4. mem'.dir = (IF plan.kind = "EXIT" THEN 0 ELSE plan.dir) /\ plan.kind \in {"ENTRY", "EXIT"}
  BY <1>1 DEF FlatState, TypeInv, TypeOK
<1>5. Base(b) + Side(b) * net[b] = Held(mem'.dir)[b]
  <2>1. b = "ccf" \/ b = "umc"
    BY DEF Brokers
  <2> QED BY <1>1, <1>2, <1>4, <2>1, SizeAssumption DEF Base, Side, Held, Plan!Full
<1>6. Side(b) * net[b] \in Int
  BY Numbers
<1> QED BY <1>3, <1>5, <1>6, Numbers

\* A state that a bar ends with is the one it had, unless it pauses.
LEMMA ConcludeTracked ==
    ASSUME TypeInv, Tracked, Conclude(mem) \/ mem' = [mem EXCEPT !.mode = "PAUSED"],
           proc # "down", step # "placing", step' # "placing",
           UNCHANGED <<broker, alien, disturbed>>
    PROVE  Tracked'
<1>1. CASE mem' = [mem EXCEPT !.mode = "PAUSED"]
  BY <1>1, IdleTracked DEF Idle, TypeInv, TypeOK, State
<1>2. CASE Conclude(mem)
  BY <1>2 DEF Conclude, Tracked
<1> QED BY <1>1, <1>2

\* The rest of a bar, of a start and of the operator's day.
LEMMA QuietTracked ==
    ASSUME TypeInv, Tracked,
           \/ Start \/ EnterLoop \/ Crash \/ Interrupt \/ Reconcile \/ ReconcileAgain
           \/ PlanStopped \/ NewDay \/ (\E b \in Brokers : HandClose(b)) \/ Recovery
    PROVE  Tracked'
<1>1. CASE Start
  <2>1. /\ step' # "placing" /\ mem'.dir = disk.dir /\ alien' = Flat /\ UNCHANGED broker
        /\ Issues(Brokers, disk.dir) = {}
    BY <1>1 DEF Start, GateOpen, Matched
  <2>2. \A b \in Brokers : broker[b] = Held(disk.dir)[b] /\ broker[b] \in Int
    BY <2>1, Numbers DEF Issues
  <2> QED BY <2>1, <2>2 DEF Tracked, Flat
<1>2. CASE EnterLoop
  <2>1. step' = "idle" /\ UNCHANGED <<broker, alien, disturbed>>
    BY <1>2 DEF EnterLoop, Conclude, promise
  <2> QED BY <1>2, <2>1, ConcludeTracked DEF EnterLoop
<1>3. CASE Reconcile
  <2>1. /\ step = "settled" /\ step' \in {"idle", "confirming"}
        /\ UNCHANGED <<broker, alien, disturbed>>
        /\ Conclude(mem) \/ UNCHANGED <<mem, proc>>
    BY <1>3 DEF Reconcile, Conclude, promise
  <2>2. proc # "down"
    BY <2>1 DEF TypeInv, Shapes
  <2>3. CASE Conclude(mem)
    BY <2>1, <2>2, <2>3, ConcludeTracked
  <2>4. CASE UNCHANGED <<mem, proc>>
    BY <2>1, <2>2, <2>4 DEF Tracked
  <2> QED BY <2>1, <2>3, <2>4
<1>4. CASE ReconcileAgain
  <2>1. step = "confirming" /\ step' = "idle" /\ UNCHANGED <<broker, alien, disturbed>>
    BY <1>4 DEF ReconcileAgain, Conclude, promise
  <2>2. proc # "down"
    BY <2>1 DEF TypeInv, Shapes
  <2>3. Conclude(mem) \/ mem' = [mem EXCEPT !.mode = "PAUSED"]
    BY <1>4 DEF ReconcileAgain, AfterConfirmation, Conclude
  <2> QED BY <2>1, <2>2, <2>3, ConcludeTracked
<1>5. CASE Crash \/ Interrupt
  BY <1>5, IdleTracked DEF Crash, Interrupt, Gone, Idle
<1>6. CASE PlanStopped
  BY <1>6, IdleTracked DEF PlanStopped, Idle, TypeInv, TypeOK, State
<1>7. CASE NewDay
  BY <1>7 DEF NewDay, promise, Tracked, Base, Side
<1>8. CASE \E b \in Brokers : HandClose(b)
  <2>1. /\ UNCHANGED <<proc, step, mem>>
        /\ proc = "down" \/ (Running /\ mem.mode = "PAUSED")
    BY <1>8 DEF HandClose, process
  <2> QED BY <2>1, IdleTracked DEF Idle, Running, TypeInv, Shapes
<1>9. CASE Recovery
  <2>1. proc = "down" /\ UNCHANGED <<proc, step, mem>>
    BY <1>9 DEF Recovery, ClearPause, ManualFlat, RepairLedger, SettleManualClose,
                Command, process
  <2> QED BY <2>1, IdleTracked DEF Idle, TypeInv, Shapes
<1> QED BY <1>1, <1>2, <1>3, <1>4, <1>5, <1>6, <1>7, <1>8, <1>9

\* An unwind that filled leaves the state flat and the rest to what it explains.
LEMMA DriftTracked ==
    ASSUME TypeInv, Tracked, DriftCheck \/ UnwindCut
    PROVE  Tracked'
<1>1. CASE DriftPauses \/ UnwindFails
  <2>1. step' = "idle" /\ mem' = [mem EXCEPT !.mode = "PAUSED"]
    BY <1>1 DEF DriftPauses, UnwindFails
  <2> QED BY <2>1, IdleTracked DEF Idle, TypeInv, TypeOK, State
<1>2. CASE UnwindCut
  BY <1>2, IdleTracked DEF UnwindCut, Idle
<1>3. CASE DriftSeen \/ ReadForUnwind
  BY <1>3 DEF DriftSeen, ReadForUnwind, Drifted, Running, process, promise, Tracked
<1>4. CASE Unwind
  <2>1. /\ step = "unwinding" /\ step' # "placing" /\ mem' = FlatState
        /\ broker' = [broker EXCEPT !["ccf"] = UnwindTarget(read)]
        /\ alien' = [alien EXCEPT !["ccf"] = UnwindTarget(read),
                                  !["umc"] = @ + Held(mem.dir)["umc"]]
        /\ UNCHANGED disturbed
    BY <1>4 DEF Unwind, Close, promise
  <2> SUFFICES ASSUME ~disturbed, NEW b \in Brokers
               PROVE  broker'[b] = Held(mem'.dir)[b] + alien'[b]
    BY <2>1 DEF Tracked
  <2>2. UnwindTarget(read) \in Int
    BY <2>1, UnwindType DEF TypeInv, TypeOK
  <2>3. broker["umc"] = Held(mem.dir)["umc"] + alien["umc"]
    BY <2>1 DEF Tracked, TypeInv, Shapes, Brokers
  <2>4. broker["umc"] \in Int /\ alien["umc"] \in Int /\ Held(mem.dir)["umc"] \in Int
    BY Numbers DEF Brokers
  <2>5. broker'[b] = alien'[b] /\ alien'[b] \in Int
    <3>1. broker \in Position /\ alien \in Position /\ (b = "ccf" \/ b = "umc")
      BY DEF TypeInv, TypeOK, Brokers
    <3> QED BY <2>1, <2>2, <2>3, <2>4, <3>1 DEF Position
  <2>6. Held(mem'.dir)[b] = 0
    BY <2>1, HeldType, SizeAssumption DEF FlatState, Brokers
  <2> QED BY <2>5, <2>6
<1> QED BY <1>1, <1>2, <1>3, <1>4 DEF DriftCheck

\* Every step accounts for what it trades.
LEMMA StepTracked == TypeInv /\ Tracked /\ [Next]_vars => Tracked'
<1> SUFFICES ASSUME TypeInv, Tracked, [Next]_vars PROVE Tracked'
  OBVIOUS
<1>1. CASE UNCHANGED vars
  BY <1>1 DEF vars, process, promise, Tracked, Base, Side
<1>2. CASE EntryBar
  BY <1>2, ExecuteTracked DEF EntryBar
<1>3. CASE ExitBar
  <2>1. mem.dir \in {-1, 1}
    BY <1>3 DEF ExitBar, TypeInv, TypeOK, State
  <2> QED BY <1>3, <2>1, ExecuteTracked DEF ExitBar
<1>4. CASE Next /\ ~EntryBar /\ ~ExitBar
  BY <1>4, PlanTradesTracked, ForeignTracked, FilledTracked, QuietTracked, DriftTracked
     DEF Next, Bar
<1> QED BY <1>1, <1>2, <1>3, <1>4

\* Tracked from the start.
LEMMA TrackedIsKept == Spec => []Tracked
<1>1. Init => Tracked
  BY DEF Init, Tracked
<1> QED BY <1>1, StepTracked, TypeIsKept, PTL DEF Spec

\* A strategy that runs unpaused knows what the brokers hold, but for what third
\* parties did (reconciliation after every trade and before every start).
THEOREM BrokersMatched == Spec => []RunningMatchesBrokers
<1>1. Tracked => RunningMatchesBrokers
  BY DEF Tracked, RunningMatchesBrokers, Running
<1> QED BY <1>1, TrackedIsKept, PTL

-----------------------------------------------------------------------------
(* The unwind *)

\* An order is built only for a target on the same side and nearer to zero.
LEMMA OrderReduces ==
    ASSUME NEW t \in Int, NEW f \in Int, RequiresOrder(Action(t, f))
    PROVE  (f > 0 /\ 0 <= t /\ t < f) \/ (f < 0 /\ f < t /\ t <= 0)
BY DEF RequiresOrder, Action, Size, Sign

\* One contract more is worth its size.
LEMMA Contracts ==
    ASSUME NEW m \in Int, NEW n \in Int, m < n, NEW U \in Nat
    PROVE  m * U + U <= n * U
<1>1. PICK k \in Nat : n = m + 1 + k
  <2>1. n - m - 1 \in Nat
    OBVIOUS
  <2> QED BY <2>1
<1>2. n * U = m * U + U + k * U
  BY <1>1
<1>3. m * U \in Int /\ k * U \in Nat
  BY <1>1
<1> QED BY <1>2, <1>3

\* Nothing on the way from what is held to the nearest target hedges worse than
\* what is held.
LEMMA NearerHedges ==
    ASSUME NEW t \in Int, NEW c \in Int, NEW f \in Int, NEW v \in Int, NEW U \in Nat \ {0},
           (t <= c /\ c <= f) \/ (f <= c /\ c <= t),
           2 * (t * U + v) <= U, -U <= 2 * (t * U + v)
    PROVE  Abs(c * U + v) <= Abs(f * U + v)
<1>1. c * U \in Int /\ f * U \in Int /\ t * U \in Int
  OBVIOUS
<1>2. CASE c = f
  BY <1>1, <1>2 DEF Abs
<1>3. CASE c = t /\ c # f
  <2>1. t * U + U <= f * U \/ f * U + U <= t * U
    BY <1>3, Contracts
  <2> QED BY <1>1, <1>3, <2>1 DEF Abs
<1>4. CASE c # t /\ c # f
  <2>1. \/ t * U + U <= c * U /\ c * U + U <= f * U
        \/ f * U + U <= c * U /\ c * U + U <= t * U
    BY <1>4, Contracts
  <2> QED BY <1>1, <2>1 DEF Abs
<1> QED BY <1>2, <1>3, <1>4

\* The order under way is one that plan_recall_response asks for: since the reading
\* nobody has traded CCF.
Planned == step = "unwinding" => RequiresOrder(Action(UnwindTarget(read), broker["ccf"]))

\* So it stays: only UMC trades between the reading and the order.
LEMMA StepPlanned == TypeInv /\ Planned /\ [Next]_vars => Planned'
<1> SUFFICES ASSUME TypeInv, Planned, [Next]_vars, step' = "unwinding" PROVE Planned'
  BY DEF Planned
<1>1. CASE ReadForUnwind
  BY <1>1 DEF ReadForUnwind, Planned, UnwindTarget
<1>2. CASE StrayTrades \/ Recall
  <2>1. UNCHANGED <<step, mem, read>> /\ broker'["ccf"] = broker["ccf"]
    BY <1>2 DEF StrayTrades, Recall, Trade, process, TypeInv, TypeOK, Position, Brokers
  <2> QED BY <2>1 DEF Planned, UnwindTarget
<1>3. CASE StrayEnds \/ NewDay \/ UNCHANGED vars
  <2>1. UNCHANGED <<step, mem, read, broker>>
    BY <1>3 DEF StrayEnds, NewDay, vars, process, store, promise
  <2> QED BY <2>1 DEF Planned, UnwindTarget
<1>4. ~PlanTrades /\ ~PlanFilled /\ ~PlanStopped /\ ~Reconcile /\ ~ReconcileAgain
      /\ ~Start /\ ~EnterLoop /\ ~EntryBar /\ ~ExitBar /\ ~Crash /\ ~Interrupt
  BY DEF PlanTrades, PlanFilled, PlanStopped, Reconcile, ReconcileAgain, Conclude, Start,
         EnterLoop, EntryBar, ExitBar, Execute, Crash, Interrupt, Gone
<1>5. ~Recovery /\ ~(\E b \in Brokers : HandClose(b))
  BY DEF Recovery, ClearPause, ManualFlat, RepairLedger, SettleManualClose, Command,
         HandClose, Running, TypeInv, Shapes
<1>6. ~DriftSeen /\ ~DriftPauses /\ ~Unwind /\ ~UnwindFails /\ ~UnwindCut
  BY DEF DriftSeen, DriftPauses, Unwind, UnwindFails, UnwindCut
<1> QED BY <1>1, <1>2, <1>3, <1>4, <1>5, <1>6 DEF Next, Bar, DriftCheck

\* Planned from the start.
LEMMA PlannedIsKept == Spec => []Planned
<1>1. Init => Planned
  BY DEF Init, Planned
<1> QED BY <1>1, StepPlanned, TypeIsKept, PTL DEF Spec

\* What the order of an unwind may leave, done in part or in full.
LEMMA UnwindReduces ==
    ASSUME TypeInv, Planned, step = "unwinding",
           NEW c, c = UnwindTarget(read) \/ c \in Between(UnwindTarget(read), broker["ccf"])
    PROVE  /\ Abs(c) <= Abs(broker["ccf"]) /\ c * broker["ccf"] >= 0
           /\ Uncovered(c, read) <= Uncovered(broker["ccf"], read)
           /\ 2 * Uncovered(UnwindTarget(read), read) <= UmcQty
<1> DEFINE t == UnwindTarget(read)
           f == broker["ccf"]
           v == read * CcfQty
<1>1. /\ t \in Int /\ 2 * (t * UmcQty + v) <= UmcQty /\ -UmcQty <= 2 * (t * UmcQty + v)
      /\ \A x \in Between(t, f) : x \in Int
  BY UnwindType DEF TypeInv, TypeOK
<1>2. f \in Int /\ v \in Int
  BY Numbers, SizeAssumption DEF Brokers, TypeInv, TypeOK
<1>3. (f > 0 /\ 0 <= t /\ t < f) \/ (f < 0 /\ f < t /\ t <= 0)
  BY <1>1, <1>2, OrderReduces DEF Planned
<1> HIDE DEF t, f, v
<1>4. c \in Int /\ ((t <= c /\ c <= f) \/ (f <= c /\ c <= t))
  BY <1>1, <1>2, <1>3 DEF Between, t, f
<1>5. Abs(c) <= Abs(f)
  BY <1>2, <1>3, <1>4, <1>1 DEF Abs
<1>6. c * f >= 0
  <2>1. (c >= 0 /\ f >= 0) \/ (c <= 0 /\ f <= 0)
    BY <1>1, <1>2, <1>3, <1>4
  <2>2. CASE c >= 0 /\ f >= 0
    <3>1. c \in Nat /\ f \in Nat
      BY <1>2, <1>4, <2>2
    <3> QED BY <3>1
  <2>3. CASE c <= 0 /\ f <= 0
    <3>1. PICK m \in Nat : c = 0 - m
      <4>1. 0 - c \in Nat /\ c = 0 - (0 - c)
        BY <1>4, <2>3
      <4> QED BY <4>1
    <3>2. PICK n \in Nat : f = 0 - n
      <4>1. 0 - f \in Nat /\ f = 0 - (0 - f)
        BY <1>2, <2>3
      <4> QED BY <4>1
    <3>3. c * f = m * n
      BY <3>1, <3>2
    <3>4. m * n \in Nat
      BY <3>1, <3>2
    <3> QED BY <3>3, <3>4
  <2> QED BY <2>1, <2>2, <2>3
<1>7. Abs(c * UmcQty + v) <= Abs(f * UmcQty + v)
  BY <1>1, <1>2, <1>4, NearerHedges, SizeAssumption
<1>8. 2 * Abs(t * UmcQty + v) <= UmcQty
  <2>1. t * UmcQty + v \in Int
    BY <1>1, <1>2, SizeAssumption
  <2> QED BY <1>1, <2>1, SizeAssumption DEF Abs
<1> QED BY <1>5, <1>6, <1>7, <1>8 DEF Uncovered, t, f, v

\* Outside a plan, a step that trades CCF under an open position is an unwind.
LEMMA OnlyUnwinds ==
    ASSUME TypeInv, [Next]_vars, proc = "up", step # "placing", mem.mode = "OPEN",
           broker'["ccf"] # broker["ccf"]
    PROVE  /\ step = "unwinding"
           /\ \/ broker'["ccf"] = UnwindTarget(read)
              \/ broker'["ccf"] \in Between(UnwindTarget(read), broker["ccf"])
                 /\ mem'.mode = "PAUSED"
<1>1. ~PlanTrades /\ ~PlanFilled /\ ~PlanStopped /\ ~Reconcile /\ ~ReconcileAgain
      /\ ~Start /\ ~EnterLoop /\ ~Recovery /\ ~(\E b \in Brokers : HandClose(b))
  BY DEF Running, PlanTrades, PlanFilled, PlanStopped, Reconcile, ReconcileAgain, Start,
         EnterLoop, HandClose, Recovery, ClearPause, ManualFlat, RepairLedger,
         SettleManualClose, Command
<1>2. ~EntryBar /\ ~ExitBar /\ ~Crash /\ ~Interrupt /\ ~DriftSeen /\ ~DriftPauses
      /\ ~ReadForUnwind /\ ~NewDay /\ ~StrayEnds /\ ~UNCHANGED vars
  BY DEF EntryBar, ExitBar, Execute, Crash, Interrupt, Gone, DriftSeen, DriftPauses,
         ReadForUnwind, NewDay, StrayEnds, vars
<1>3. ~StrayTrades /\ ~Recall
  BY DEF StrayTrades, Recall, Trade, TypeInv, TypeOK, Position, Brokers
<1>4. Unwind \/ UnwindFails \/ UnwindCut
  BY <1>1, <1>2, <1>3 DEF Next, Bar, DriftCheck
<1>5. broker \in Position /\ "ccf" \in Brokers
  BY DEF TypeInv, TypeOK, Brokers
<1>6. CASE Unwind \/ UnwindCut
  BY <1>5, <1>6 DEF Unwind, UnwindCut, Close, Position
<1>7. CASE UnwindFails
  BY <1>5, <1>7 DEF UnwindFails, Close, Position, TypeInv, TypeOK, State
<1> QED BY <1>4, <1>6, <1>7

\* The one order sent outside a plan only closes, and never leaves the shares it was
\* sized by hedged worse than they were.
THEOREM UnwindsReduce == Spec => UnwindOnlyReduces
<1> DEFINE Reduces ==
      proc = "up" /\ step # "placing" /\ mem.mode = "OPEN" /\ broker'.ccf # broker.ccf =>
         /\ Abs(broker'.ccf) <= Abs(broker.ccf)
         /\ broker'.ccf * broker.ccf >= 0
         /\ Uncovered(broker'.ccf, read) <= Uncovered(broker.ccf, read)
         /\ mem'.mode = "FLAT" => 2 * Uncovered(broker'.ccf, read) <= UmcQty
<1>1. TypeInv /\ Planned /\ [Next]_vars => [Reduces]_vars
  <2> SUFFICES ASSUME TypeInv, Planned, [Next]_vars, proc = "up", step # "placing",
                      mem.mode = "OPEN", broker'["ccf"] # broker["ccf"]
               PROVE  Reduces
    OBVIOUS
  <2>1. /\ step = "unwinding"
        /\ \/ broker'["ccf"] = UnwindTarget(read)
           \/ broker'["ccf"] \in Between(UnwindTarget(read), broker["ccf"])
              /\ mem'.mode = "PAUSED"
    BY OnlyUnwinds
  <2> QED BY <2>1, UnwindReduces
<1> QED BY <1>1, TypeIsKept, PlannedIsKept, PTL DEF Spec, UnwindOnlyReduces
=============================================================================
