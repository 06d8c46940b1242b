-------------------------- MODULE FubonOrderProofs --------------------------
(***************************************************************************)
(* The Fubon adapter and its listener, proved: what an order counts are    *)
(* its own fills, each once; a fill that came before place_order returned  *)
(* is found again; and what is reported keeps the promise of VenuePromise. *)
(* For every size, buffer, number of polls and number of orders.           *)
(***************************************************************************)
EXTENDS FubonOrder, FiniteSetTheorems, SequenceTheorems, TLAPS

FillIds == Orders \X (1..Qty)

\* What is in a buffer.
Elements(q) == {q[i] : i \in DOMAIN q}

Buffers == [fills : Seq(FillIds), report : {"none", "working", "cancelled"}]
Waiters == [on : BOOLEAN, keyed : BOOLEAN, lots : Nat, seen : SUBSET FillIds,
            status : {"none", "working", "cancelled"}]

Shapes == unmatched \in Buffers /\ waiter \in Waiters

\* execute() is in one place: what belongs to a call is there during the call.
Calls ==
    /\ pc = "idle" => /\ waiter = NoWaiter /\ ~keyed /\ attempt = 0 /\ row = "none"
                      /\ heard = {} /\ dropped = {}
                      /\ cur # 0 => told # NoReport
    /\ pc # "idle" => cur # 0 /\ told = NoReport
    /\ pc # "account" => attempt < Attempts /\ counted = 0
    /\ \A o \in Orders : placed[o] => o <= cur
    /\ pc = "submit" => ~placed[cur]
    /\ pc \in {"submit", "placing"} => ~waiter.keyed

\* The first lots of an order.
Lots(o, n) == {<<o, i>> : i \in 1..n}

\* What is buffered was executed, and what is counted is the order's own.
Counts ==
    /\ \A f \in Elements(unmatched.fills) : f[2] <= exec[f[1]]
    /\ waiter.lots = Cardinality(waiter.seen)
    /\ cur = 0 => waiter.seen = {}
    /\ cur # 0 => waiter.seen \subseteq Lots(cur, exec[cur]) /\ counted <= exec[cur]
    /\ counted \in Nat

\* A fill of the order that was delivered is buffered until the order has its
\* key, or counted.
Finds ==
    /\ waiter.keyed => waiter.on
    /\ \A f \in heard : f[1] = cur
    /\ Len(unmatched.fills) <= BufferSize
    /\ ~waiter.keyed => heard \subseteq Elements(unmatched.fills) \cup dropped
    /\ waiter.keyed => heard \subseteq waiter.seen \cup dropped

-----------------------------------------------------------------------------
(* Buffers and counts *)

\* A buffer that takes a message forgets at most its oldest.
LEMMA PushKeeps ==
    ASSUME NEW S, NEW q \in Seq(S), NEW x \in S, Len(q) <= BufferSize
    PROVE  /\ Push(q, x) \in Seq(S) /\ Len(Push(q, x)) <= BufferSize
           /\ Elements(Push(q, x)) \subseteq Elements(q) \cup {x}
           /\ Elements(q) \cup {x} \subseteq
                Elements(Push(q, x)) \cup (IF Len(q) = BufferSize THEN {Head(q)} ELSE {})
<1>1. BufferSize \in Nat /\ BufferSize # 0 /\ Len(q) \in Nat
  BY FubonAssumption
<1>2. CASE Len(q) < BufferSize
  <2> DEFINE r == Append(q, x)
  <2>1. r \in Seq(S) /\ Len(r) = Len(q) + 1 /\ r[Len(q) + 1] = x
        /\ \A i \in 1..Len(q) : r[i] = q[i]
    OBVIOUS
  <2>2. DOMAIN r = 1..Len(q) + 1 /\ DOMAIN q = 1..Len(q)
    BY <2>1
  <2> HIDE DEF r
  <2>3. Elements(r) \subseteq Elements(q) \cup {x}
    <3> SUFFICES ASSUME NEW i \in DOMAIN r PROVE r[i] \in Elements(q) \cup {x}
      BY DEF Elements
    <3> QED BY <1>1, <2>1, <2>2 DEF Elements
  <2>4. Elements(q) \cup {x} \subseteq Elements(r)
    <3>1. x \in Elements(r)
      BY <1>1, <2>1, <2>2 DEF Elements
    <3>2. ASSUME NEW i \in DOMAIN q PROVE q[i] \in Elements(r)
      BY <1>1, <2>1, <2>2 DEF Elements
    <3> QED BY <3>1, <3>2 DEF Elements
  <2> QED BY <1>1, <1>2, <2>1, <2>3, <2>4 DEF Push, r
<1>3. CASE ~(Len(q) < BufferSize)
  <2>0. Len(q) = BufferSize /\ q # <<>>
    BY <1>1, <1>3
  <2> DEFINE t == Tail(q)
             r == Append(t, x)
  <2>1. t \in Seq(S) /\ Len(t) = Len(q) - 1 /\ Head(q) = q[1]
        /\ \A i \in 1..Len(t) : t[i] = q[i + 1]
    BY <2>0, HeadTailProperties
  <2> HIDE DEF t
  <2>2. r \in Seq(S) /\ Len(r) = Len(q) /\ r[Len(q)] = x
        /\ \A i \in 1..Len(t) : r[i] = t[i]
    BY <1>1, <2>1
  <2>3. DOMAIN r = 1..Len(q) /\ DOMAIN q = 1..Len(q)
    BY <2>2
  <2> HIDE DEF r
  <2>4. \A i \in 1..Len(q) - 1 : r[i] = q[i + 1]
    BY <1>1, <2>1, <2>2
  <2>5. Elements(r) \subseteq Elements(q) \cup {x}
    <3> SUFFICES ASSUME NEW i \in DOMAIN r PROVE r[i] \in Elements(q) \cup {x}
      BY DEF Elements
    <3>1. CASE i = Len(q)
      BY <3>1, <2>2
    <3>2. CASE i # Len(q)
      <4>1. i \in 1..Len(q) - 1 /\ i + 1 \in DOMAIN q
        BY <1>1, <2>3, <3>2
      <4> QED BY <2>4, <4>1 DEF Elements
    <3> QED BY <3>1, <3>2
  <2>6. Elements(q) \cup {x} \subseteq Elements(r) \cup {Head(q)}
    <3>1. x \in Elements(r)
      BY <1>1, <2>0, <2>2, <2>3 DEF Elements
    <3>2. ASSUME NEW i \in DOMAIN q PROVE q[i] \in Elements(r) \cup {Head(q)}
      <4>1. CASE i = 1
        BY <4>1, <2>1
      <4>2. CASE i # 1
        <5>1. i - 1 \in 1..Len(q) - 1 /\ (i - 1) + 1 = i /\ i - 1 \in DOMAIN r
          BY <1>1, <2>3, <4>2
        <5>2. r[i - 1] = q[i]
          BY <2>4, <5>1
        <5> QED BY <5>1, <5>2 DEF Elements
      <4> QED BY <4>1, <4>2
    <3> QED BY <3>1, <3>2 DEF Elements
  <2> QED BY <1>1, <1>3, <2>0, <2>2, <2>5, <2>6 DEF Push, r, t
<1> QED BY <1>2, <1>3

\* The messages of a buffer that stay in it.
Left(q, kept) == [i \in DOMAIN kept |-> q[kept[i]]]

\* What is left of a buffer is in it, and no longer.
LEMMA LeftKeeps ==
    ASSUME NEW S, NEW q \in Seq(S), NEW others \in SUBSET DOMAIN q,
           NEW kept \in [1..Cardinality(others) -> others]
    PROVE  /\ Left(q, kept) \in Seq(S) /\ Len(Left(q, kept)) <= Len(q)
           /\ Elements(Left(q, kept)) \subseteq Elements(q)
<1> DEFINE r == [i \in DOMAIN kept |-> q[kept[i]]]
           n == Cardinality(others)
<1>1. Len(q) \in Nat /\ DOMAIN q = 1..Len(q)
  OBVIOUS
<1>2. IsFiniteSet(1..Len(q)) /\ Cardinality(1..Len(q)) = Len(q)
  <2>1. PICK m \in Nat : m = Len(q)
    BY <1>1
  <2>2. IsFiniteSet(1..m) /\ Cardinality(1..m) = m
    <3>1. 1 \in Int /\ m \in Int
      OBVIOUS
    <3> QED BY <3>1, FS_Interval
  <2> QED BY <2>1, <2>2
<1>3. n \in Nat /\ n <= Len(q)
  <2>1. IsFiniteSet(others) /\ Cardinality(others) <= Len(q)
    BY <1>1, <1>2, FS_Subset
  <2> QED BY <2>1, FS_CardinalityType
<1> HIDE DEF n
<1>4. DOMAIN kept = 1..n /\ \A i \in 1..n : kept[i] \in DOMAIN q
  BY DEF n
<1>5. \A i \in DOMAIN q : q[i] \in S
  BY <1>1, ElementOfSeq
<1>6. r \in [1..n -> S]
  BY <1>4, <1>5
<1>7. r \in Seq(S) /\ Len(r) = n
  <2>1. ASSUME NEW m \in Nat, NEW p \in [1..m -> S] PROVE p \in Seq(S) /\ Len(p) = m
    <3>1. p \in Seq(S)
      BY SeqDef
    <3>2. DOMAIN p = 1..m /\ DOMAIN p = 1..Len(p) /\ Len(p) \in Nat
      BY <3>1
    <3> QED BY <3>1, <3>2
  <2> HIDE DEF r
  <2> QED BY <1>3, <1>6, <2>1
<1>8. Elements(r) \subseteq Elements(q)
  BY <1>4 DEF Elements
<1>9. r = Left(q, kept)
  BY DEF Left
<1> HIDE DEF r
<1> QED BY <1>3, <1>7, <1>8, <1>9

\* No order counts more than the lots it executed.
LEMMA LotsCount ==
    ASSUME NEW o, NEW n \in Nat, NEW S, S \subseteq Lots(o, n)
    PROVE  IsFiniteSet(S) /\ Cardinality(S) \in Nat /\ Cardinality(S) <= n
<1> DEFINE f == [p \in S |-> p[2]]
<1>1. f \in Injection(S, 1..n)
  <2>1. f \in [S -> 1..n]
    BY DEF Lots
  <2>2. ASSUME NEW a \in S, NEW b \in S, f[a] = f[b] PROVE a = b
    BY <2>2 DEF Lots
  <2> QED BY <2>1, <2>2 DEF Injection, IsInjective
<1>2. IsFiniteSet(1..n) /\ Cardinality(1..n) = n
  <2>1. 1 \in Int /\ n \in Int
    OBVIOUS
  <2> QED BY <2>1, FS_Interval
<1>3. IsFiniteSet(S) /\ Cardinality(S) <= Cardinality(1..n)
  BY <1>1, <1>2, FS_Injection
<1> QED BY <1>2, <1>3, FS_CardinalityType

-----------------------------------------------------------------------------
(* Types *)

TypeInv == TypeOK /\ Shapes

\* What the venue does of itself.
LEMMA VenueMoves ==
    ASSUME VenueTypeOK, VenueNext
    PROVE  /\ VenueTypeOK' /\ \A o \in Orders : exec[o] <= exec'[o]
           /\ UNCHANGED <<side, placed>>
<1>1. CASE CatchUp \/ SomebodyTrades
  <2>1. pos' \in Int /\ view' \in Int /\ third' \in 0..MaxThird
    BY <1>1, VenueAssumption DEF CatchUp, SomebodyTrades, VenueTypeOK
  <2>2. UNCHANGED <<side, exec, live, placed>>
    BY <1>1 DEF CatchUp, SomebodyTrades
  <2>3. \A o \in Orders : exec[o] <= exec'[o]
    BY <2>2 DEF VenueTypeOK
  <2> QED BY <2>1, <2>2, <2>3 DEF VenueTypeOK
<1>2. ASSUME NEW o \in Orders, Trade(o) PROVE VenueTypeOK' /\ \A p \in Orders : exec[p] <= exec'[p]
  <2>1. PICK n \in 1..(Qty - exec[o]) :
          exec' = [exec EXCEPT ![o] = @ + n] /\ pos' = pos + side[o] * n
    BY <1>2 DEF Trade
  <2>2. exec[o] \in 0..Qty /\ n \in Nat /\ exec[o] + n \in 0..Qty
    BY <2>1, VenueAssumption DEF VenueTypeOK
  <2>3. exec' \in [Orders -> 0..Qty]
    BY <2>1, <2>2 DEF VenueTypeOK
  <2>4. \A p \in Orders : exec[p] <= exec'[p]
    BY <2>1, <2>2 DEF VenueTypeOK
  <2>5. pos' \in Int
    <3>1. side[o] \in Int /\ pos \in Int
      BY DEF VenueTypeOK
    <3>2. PICK m \in Int : m = side[o] * n
      BY <2>2, <3>1
    <3> QED BY <2>1, <3>1, <3>2
  <2> QED BY <1>2, <2>3, <2>4, <2>5 DEF Trade, VenueTypeOK
<1>3. ASSUME NEW o \in Orders, Ends(o) PROVE VenueTypeOK' /\ \A p \in Orders : exec[p] <= exec'[p]
  BY <1>3 DEF Ends, VenueTypeOK
<1>4. UNCHANGED <<side, placed>>
  BY DEF VenueNext, CatchUp, SomebodyTrades, Trade, Ends
<1> QED BY <1>1, <1>2, <1>3, <1>4 DEF VenueNext

LEMMA InitType == Init => TypeInv
<1> SUFFICES ASSUME Init PROVE TypeInv
  OBVIOUS
<1>1. VenueTypeOK
  BY VenueAssumption DEF Init, VenueInit, VenueTypeOK
<1>2. <<>> \in Seq(FillIds)
  BY EmptySeq
<1>3. unmatched \in Buffers
  BY <1>2 DEF Init, Empty, Buffers
<1>4. waiter \in Waiters
  BY DEF Init, NoWaiter, Waiters
<1>5. told \in Told
  BY VenueAssumption DEF Init, NoReport, Told
<1>6. 0 \in 0..MaxOrders /\ 0 \in 0..Attempts /\ view \in Int
  BY <1>1, VenueAssumption, FubonAssumption DEF VenueTypeOK
<1> QED BY <1>1, <1>2, <1>3, <1>4, <1>5, <1>6
       DEF Init, TypeInv, TypeOK, Shapes, Empty, NoWaiter, FillIds

\* The shapes of the listener give the types of its parts.
LEMMA ShapesType ==
    ASSUME Shapes
    PROVE  /\ unmatched.fills \in Seq(Orders \X (1..Qty))
           /\ unmatched.report \in {"none", "working", "cancelled"}
           /\ waiter.on \in BOOLEAN /\ waiter.keyed \in BOOLEAN /\ waiter.lots \in Nat
           /\ waiter.seen \subseteq Orders \X (1..Qty)
           /\ waiter.status \in {"none", "working", "cancelled"}
BY DEF Shapes, Buffers, Waiters, FillIds

\* The rest of TypeOK.
CallTypes ==
    /\ VenueTypeOK
    /\ pc \in {"idle", "submit", "placing", "grace", "poll", "pause", "account"}
    /\ cur \in 0..MaxOrders /\ base \in Int
    /\ listener \in {"none", "active", "idle"}
    /\ keyed \in BOOLEAN /\ attempt \in 0..Attempts /\ counted \in Nat
    /\ row \in {"none", "working", "timeout", "filled", "cancelled"}
    /\ told \in Told

LEMMA TypeParts == TypeInv <=> CallTypes /\ Shapes
BY ShapesType DEF TypeInv, TypeOK, CallTypes

\* A fill counted once more, or once only.
LEMMA AbsorbType ==
    ASSUME Shapes, NEW f \in FillIds
    PROVE  Absorb(waiter, f) \in Waiters
<1>1. waiter \in Waiters /\ waiter.lots + 1 \in Nat /\ waiter.seen \cup {f} \in SUBSET FillIds
  BY DEF Shapes, Waiters
<1>2. [waiter EXCEPT !.lots = @ + 1, !.seen = @ \cup {f}] \in Waiters
  BY <1>1 DEF Waiters
<1> QED BY <1>1, <1>2 DEF Absorb

\* What the SDK delivers keeps the shapes.
LEMMA CallbackType ==
    ASSUME TypeInv, Callbacks, Len(unmatched.fills) <= BufferSize
    PROVE  TypeInv'
<1>1. CASE OnFilled
  <2>1. PICK f \in Fills :
          IF Awaited(f[1])
          THEN waiter' = Absorb(waiter, f) /\ UNCHANGED <<unmatched, dropped>>
          ELSE /\ unmatched' = [unmatched EXCEPT !.fills = Push(@, f)]
               /\ UNCHANGED waiter
    BY <1>1 DEF OnFilled
  <2>2. f \in FillIds
    BY DEF Fills, FillIds
  <2>3. Push(unmatched.fills, f) \in Seq(FillIds)
    BY <2>2, PushKeeps DEF TypeInv, Shapes, Buffers
  <2>4. [unmatched EXCEPT !.fills = Push(@, f)] \in Buffers
    BY <2>3 DEF TypeInv, Shapes, Buffers
  <2>5. Shapes'
    BY <2>1, <2>2, <2>4, AbsorbType DEF TypeInv, Shapes
  <2>6. CallTypes'
    BY <1>1, TypeParts DEF OnFilled, CallTypes, venue, VenueTypeOK
  <2>7. CallTypes' /\ Shapes' => TypeInv'
    BY TypeParts, PTL
  <2> QED BY <2>5, <2>6, <2>7
<1>2. CASE OnOrderReport
  <2>1. PICK status \in Reports :
          IF Awaited(cur)
          THEN waiter' = Apply(waiter, status) /\ UNCHANGED unmatched
          ELSE /\ unmatched' \in {[unmatched EXCEPT !.report = s] : s \in {status, "none"}}
               /\ UNCHANGED waiter
    BY <1>2 DEF OnOrderReport
  <2>2. status \in {"working", "cancelled"}
    BY DEF Reports
  <2>3. Shapes'
    BY <2>1, <2>2 DEF TypeInv, Shapes, Apply, Waiters, Buffers
  <2>4. CallTypes'
    BY <1>2, TypeParts DEF OnOrderReport, CallTypes, venue, VenueTypeOK
  <2>5. CallTypes' /\ Shapes' => TypeInv'
    BY TypeParts, PTL
  <2> QED BY <2>3, <2>4, <2>5
<1> QED BY <1>1, <1>2 DEF Callbacks

\* An outcome ends the call, with a status and no more than was asked for.
LEMMA TellType ==
    ASSUME TypeInv, NEW status, NEW fills \in 0..Qty, Tell(status, fills),
           status \in {"filled", "partial_fill", "failed", "rejected", "unknown"},
           venue' = venue, cur' \in 0..MaxOrders, base' = base,
           listener' \in {"none", "active", "idle"}, unmatched' \in Buffers
    PROVE  TypeInv'
<1>1. told' \in Told
  BY DEF Tell, Told
<1>2. waiter' \in Waiters
  BY DEF Tell, NoWaiter, Waiters
<1>3. 0 \in 0..Attempts /\ 0 \in Nat
  BY FubonAssumption
<1>4. CallTypes'
  BY <1>1, <1>3, TypeParts DEF Tell, CallTypes, venue, VenueTypeOK
<1>5. Shapes'
  BY <1>2 DEF Shapes
<1>6. CallTypes' /\ Shapes' => TypeInv'
  BY TypeParts, PTL
<1> QED BY <1>4, <1>5, <1>6

\* The session is there, as it was or a new one.
LEMMA SessionType ==
    ASSUME TypeInv, Kept \/ Renewed
    PROVE  listener' \in {"none", "active", "idle"} /\ unmatched' \in Buffers
<1>1. CASE Kept
  BY <1>1 DEF Kept, Attached, TypeInv, TypeOK, Shapes, Buffers
<1>2. CASE Renewed
  <2>1. <<>> \in Seq(FillIds)
    BY EmptySeq
  <2>2. Empty \in Buffers
    BY <2>1 DEF Empty, Buffers
  <2> QED BY <1>2, <2>2 DEF Renewed
<1> QED BY <1>1, <1>2

\* The fills the order is found to own, once each, and what stays buffered.
LEMMA ReclaimGives ==
    ASSUME Shapes, Reclaim
    PROVE  \E mine \in SUBSET FillIds :
             /\ mine = {f \in Elements(unmatched.fills) : f[1] = cur}
             /\ waiter' = [waiter EXCEPT !.keyed = TRUE, !.seen = mine,
                             !.lots = Cardinality(mine), !.status = unmatched.report]
             /\ unmatched'.fills \in Seq(FillIds) /\ unmatched'.report = "none"
             /\ unmatched' \in Buffers
             /\ Len(unmatched'.fills) <= Len(unmatched.fills)
             /\ Elements(unmatched'.fills) \subseteq Elements(unmatched.fills)
<1> DEFINE q == unmatched.fills
           places == {i \in DOMAIN q : Ours(q[i])}
           fills == {q[i] : i \in places}
           others == DOMAIN q \ places
<1>1. q \in Seq(FillIds)
  BY DEF Shapes, Buffers
<1>2. /\ waiter' = [waiter EXCEPT !.keyed = TRUE, !.seen = fills,
                      !.lots = Cardinality(fills), !.status = unmatched.report]
      /\ \E kept \in [1..Cardinality(others) -> others] :
           unmatched' = [fills  |-> [i \in DOMAIN kept |-> q[kept[i]]], report |-> "none"]
  BY DEF Reclaim
<1>3. PICK kept \in [1..Cardinality(others) -> others] :
        unmatched' = [fills |-> Left(q, kept), report |-> "none"]
  BY <1>2 DEF Left
<1> DEFINE r == Left(q, kept)
<1>4. r \in Seq(FillIds) /\ Len(r) <= Len(q) /\ Elements(r) \subseteq Elements(q)
  <2>1. others \in SUBSET DOMAIN q
    OBVIOUS
  <2>2. kept \in [1..Cardinality(others) -> others]
    OBVIOUS
  <2> HIDE DEF others, q
  <2> QED BY <1>1, <2>1, <2>2, LeftKeeps
<1>5. fills = {f \in Elements(q) : f[1] = cur}
  BY DEF Elements, Ours
<1>6. fills \in SUBSET FillIds
  BY <1>1, ElementOfSeq
<1> HIDE DEF r, q, fills
<1>7. unmatched' = [fills |-> r, report |-> "none"]
  BY <1>3 DEF r
<1>8. unmatched'.fills = r /\ unmatched'.report = "none" /\ unmatched' \in Buffers
  BY <1>4, <1>7 DEF Buffers
<1>9. /\ waiter' = [waiter EXCEPT !.keyed = TRUE, !.seen = fills,
                      !.lots = Cardinality(fills), !.status = unmatched.report]
  BY <1>2 DEF fills
<1>10. q = unmatched.fills
  BY DEF q
<1> QED BY <1>4, <1>5, <1>6, <1>8, <1>9, <1>10

\* What was found is counted in lots.
LEMMA ReclaimType ==
    ASSUME Shapes, VenueTypeOK, cur \in Orders, Reclaim,
           \A f \in Elements(unmatched.fills) : f[2] <= exec[f[1]]
    PROVE  Shapes' /\ waiter'.lots = Cardinality(waiter'.seen)
           /\ waiter'.seen = {f \in Elements(unmatched.fills) : f[1] = cur}
           /\ waiter'.seen \subseteq Lots(cur, exec[cur]) /\ waiter'.keyed /\ waiter'.on = waiter.on
<1>1. PICK mine \in SUBSET FillIds :
        /\ mine = {f \in Elements(unmatched.fills) : f[1] = cur}
        /\ waiter' = [waiter EXCEPT !.keyed = TRUE, !.seen = mine,
                        !.lots = Cardinality(mine), !.status = unmatched.report]
        /\ unmatched' \in Buffers
  BY ReclaimGives
<1>2. mine \subseteq Lots(cur, exec[cur])
  <2> SUFFICES ASSUME NEW f \in mine PROVE f \in Lots(cur, exec[cur])
    OBVIOUS
  <2>1. f \in FillIds /\ f[1] = cur /\ f[2] <= exec[cur]
    BY <1>1
  <2>2. f = <<cur, f[2]>> /\ f[2] \in 1..Qty
    BY <2>1 DEF FillIds
  <2>3. exec[cur] \in Nat
    BY VenueAssumption DEF VenueTypeOK
  <2>4. f[2] \in 1..exec[cur]
    BY <2>1, <2>2, <2>3
  <2> QED BY <2>2, <2>4 DEF Lots
<1>3. Cardinality(mine) \in Nat
  <2>1. exec[cur] \in Nat
    BY VenueAssumption DEF VenueTypeOK
  <2> QED BY <1>2, <2>1, LotsCount DEF Lots
<1>4. unmatched.report \in {"none", "working", "cancelled"} /\ waiter \in Waiters
  BY DEF Shapes, Buffers
<1>5. waiter' \in Waiters
  BY <1>1, <1>3, <1>4 DEF Waiters
<1>6. /\ waiter'.seen = mine /\ waiter'.lots = Cardinality(mine)
      /\ waiter'.keyed = TRUE /\ waiter'.on = waiter.on
  BY <1>1, <1>4 DEF Waiters
<1> QED BY <1>1, <1>2, <1>5, <1>6 DEF Shapes

Inv == TypeInv /\ Calls /\ Counts /\ Finds

\* The order of a call is one of the orders.
LEMMA OnAnOrder ==
    ASSUME Inv, pc # "idle"
    PROVE  cur \in Orders /\ exec[cur] \in 0..Qty /\ counted <= exec[cur]
<1>1. cur \in 0..MaxOrders /\ cur # 0 /\ counted <= exec[cur]
  BY DEF Inv, TypeInv, TypeOK, Calls, Counts
<1>2. cur \in Orders
  BY <1>1, VenueAssumption DEF Orders
<1> QED BY <1>1, <1>2 DEF Inv, TypeInv, TypeOK, VenueTypeOK

\* The outcome after the account was asked: no more than was asked for, and as
\* much as was counted or as the account moved.
LEMMA ConcludeTells ==
    ASSUME Inv, Conclude
    PROVE  \E fills \in 0..Qty :
             /\ Tell(Status(fills), fills)
             /\ fills <= exec[cur] \/ fills <= Moved(cur, base, view)
<1>1. pc = "account"
  BY DEF Conclude
<1>2. cur \in Orders /\ exec[cur] \in 0..Qty /\ counted <= exec[cur] /\ counted \in Nat
  BY <1>1, OnAnOrder DEF Inv, Counts
<1>3. PICK delta \in IF counted >= Qty THEN {0} ELSE {0, Confirmed} :
        Tell(Status(Larger(counted, delta)), Larger(counted, delta))
  BY DEF Conclude
<1> DEFINE d == Moved(cur, base, view)
<1>4. d \in Int
  <2>1. side[cur] \in {-1, 1} /\ base \in Int /\ view \in Int
    BY <1>2 DEF Inv, TypeInv, TypeOK, VenueTypeOK
  <2>2. PICK s \in Int : s = side[cur]
    BY <2>1
  <2>3. s * (view - base) \in Int
    BY <2>1
  <2> QED BY <2>2, <2>3 DEF Moved
<1>5. Confirmed \in 0..Qty /\ (Confirmed = 0 \/ Confirmed <= d)
  <2>1. Confirmed = IF d <= 0 THEN 0 ELSE IF d < Qty THEN d ELSE Qty
    BY DEF Confirmed
  <2> HIDE DEF d
  <2> QED BY <1>4, <2>1, VenueAssumption
<1> HIDE DEF d
<1>6. delta \in 0..Qty /\ (delta = 0 \/ delta <= d)
  BY <1>3, <1>5, VenueAssumption
<1>7. Larger(counted, delta) \in 0..Qty
      /\ (Larger(counted, delta) <= exec[cur] \/ Larger(counted, delta) <= d)
  <2>1. PICK e \in 0..Qty : e = exec[cur]
    BY <1>2
  <2> QED BY <1>2, <1>4, <1>6, <2>1, VenueAssumption DEF Larger
<1> QED BY <1>3, <1>7 DEF d

LEMMA StatusType ==
    ASSUME NEW fills \in 0..Qty
    PROVE  /\ Status(fills) \in {"filled", "partial_fill", "failed", "unknown"}
           /\ Status(fills) = "filled" <=> fills = Qty
           /\ Status(fills) = "failed" => fills = 0
BY VenueAssumption DEF Status

\* Types are kept.
LEMMA TypeStep == Inv /\ [Next]_vars => TypeInv'
<1> SUFFICES ASSUME Inv, [Next]_vars PROVE TypeInv'
  OBVIOUS
<1>0. TypeInv /\ CallTypes /\ Shapes /\ (CallTypes' /\ Shapes' => TypeInv')
  <2>1. CallTypes' /\ Shapes' => TypeInv'
    BY TypeParts, PTL
  <2> QED BY <2>1, TypeParts DEF Inv
<1>1. CASE AtVenue
  <2>1. VenueTypeOK'
    BY <1>0, <1>1, VenueMoves DEF AtVenue, CallTypes
  <2>2. CallTypes' /\ Shapes'
    BY <1>0, <1>1, <2>1 DEF AtVenue, sdk, wait, seenSoFar, CallTypes, Shapes
  <2> QED BY <1>0, <2>2
<1>2. CASE Callbacks
  BY <1>0, <1>2, CallbackType DEF Inv, Finds
<1>3. CASE NotSent
  <2>1. cur' \in 0..MaxOrders
    BY <1>0, <1>3, VenueAssumption DEF NotSent, CallTypes
  <2>2. venue' = venue /\ base' = base
    BY <1>3 DEF NotSent
  <2>3. listener' \in {"none", "active", "idle"} /\ unmatched' \in Buffers
    BY <1>0, <1>3, SessionType DEF NotSent, CallTypes, Shapes, sdk
  <2>4. 0 \in 0..Qty
    BY VenueAssumption
  <2> QED BY <1>0, <1>3, <2>1, <2>2, <2>3, <2>4, TellType DEF NotSent
<1>4. CASE Begin
  <2>1. cur' \in 0..MaxOrders /\ base' \in Int
    BY <1>0, <1>4, VenueAssumption DEF Begin, CallTypes, VenueTypeOK
  <2>2. listener' \in {"none", "active", "idle"} /\ unmatched' \in Buffers
    BY <1>0, <1>4, SessionType DEF Begin
  <2>3. waiter' \in Waiters
    <3>1. (listener' = "active") \in BOOLEAN
      OBVIOUS
    <3> QED BY <1>4, <3>1 DEF Begin, NoWaiter, Waiters
  <2>4. told' \in Told
    BY <1>4, VenueAssumption DEF Begin, NoReport, Told
  <2>5. CallTypes'
    BY <1>0, <1>4, <2>1, <2>2, <2>4 DEF Begin, CallTypes, venue, VenueTypeOK
  <2>6. Shapes'
    BY <2>2, <2>3 DEF Shapes
  <2> QED BY <1>0, <2>5, <2>6
<1>5. CASE Submit
  <2>1. VenueTypeOK'
    BY <1>0, <1>5 DEF Submit, Reaches, CallTypes, VenueTypeOK
  <2>2. CallTypes' /\ Shapes'
    BY <1>0, <1>5, <2>1 DEF Submit, sdk, wait, CallTypes, Shapes
  <2> QED BY <1>0, <2>2
<1>6. CASE PlaceReturns
  <2>1. cur \in Orders
    BY <1>6, OnAnOrder DEF PlaceReturns
  <2>2. Shapes'
    <3>1. CASE keyed' /\ waiter.on
      <4>1. Reclaim
        BY <1>6, <3>1 DEF PlaceReturns
      <4> QED BY <1>0, <2>1, <4>1, ReclaimType DEF CallTypes, Inv, Counts
    <3>2. CASE ~(keyed' /\ waiter.on)
      BY <1>0, <1>6, <3>2 DEF PlaceReturns, Shapes
    <3> QED BY <3>1, <3>2
  <2>3. CallTypes'
    BY <1>0, <1>6 DEF PlaceReturns, CallTypes, venue, VenueTypeOK
  <2> QED BY <1>0, <2>2, <2>3
<1>7. CASE PlaceFails
  <2>1. PICK status \in {"unknown", "failed"} : Tell(status, 0)
    BY <1>7 DEF PlaceFails
  <2>2. 0 \in 0..Qty
    BY VenueAssumption
  <2> QED BY <1>0, <1>7, <2>1, <2>2, TellType DEF PlaceFails, sdk, CallTypes, Shapes
<1>8. CASE GraceEnds
  <2>1. CallTypes' /\ Shapes'
    BY <1>0, <1>8, ShapesType DEF GraceEnds, WaitOver, sdk, CallTypes, Shapes, venue, VenueTypeOK
  <2> QED BY <1>0, <2>1
<1>9. CASE Poll
  <2>1. attempt' \in 0..Attempts
    <3>1. attempt < Attempts /\ attempt \in Nat
      BY <1>0, <1>9, FubonAssumption DEF Poll, Inv, Calls, CallTypes
    <3>2. attempt' = attempt \/ attempt' = attempt + 1
      BY <1>9 DEF Poll, Counted
    <3>3. attempt \in 0..Attempts /\ attempt + 1 \in 0..Attempts
      BY <3>1, FubonAssumption
    <3> QED BY <3>2, <3>3
  <2>2. /\ row' \in {"none", "working", "timeout", "filled", "cancelled"}
        /\ pc' \in {"poll", "pause", "account"}
        /\ counted' = counted \/ counted' = waiter.lots
    <3>1. CASE \E status \in {"none"} \cup UNION {RowStatus(o) : o \in Rows} :
                 IF status \in {"filled", "cancelled"} \/ attempt' = Attempts
                 THEN WaitOver(status)
                 ELSE /\ pc' = IF status = "timeout" THEN "poll" ELSE "pause"
                      /\ UNCHANGED <<row, counted>>
      <4>1. \A o \in Rows : RowStatus(o) \subseteq {"working", "timeout", "filled", "cancelled"}
        BY DEF RowStatus
      <4> QED BY <1>0, <3>1, <4>1 DEF WaitOver, CallTypes
    <3>2. CASE WaitOver("none") \/ WaitOver("cancelled")
      BY <3>2 DEF WaitOver
    <3> QED BY <1>9, <3>1, <3>2 DEF Poll
  <2>3. waiter.lots \in Nat
    BY <1>0, ShapesType
  <2>4. CallTypes' /\ Shapes'
    BY <1>0, <1>9, <2>1, <2>2, <2>3 DEF Poll, sdk, CallTypes, Shapes, venue, VenueTypeOK
  <2> QED BY <1>0, <2>4
<1>10. CASE PauseEnds
  <2>1. CallTypes' /\ Shapes'
    BY <1>0, <1>10 DEF PauseEnds, sdk, wait, seenSoFar, CallTypes, Shapes, venue, VenueTypeOK
  <2> QED BY <1>0, <2>1
<1>11. CASE Conclude
  <2>1. PICK fills \in 0..Qty : Tell(Status(fills), fills)
    BY <1>11, ConcludeTells
  <2> QED BY <1>0, <1>11, <2>1, StatusType, TellType DEF Conclude, sdk, CallTypes, Shapes
<1>12. CASE WorkerGone
  <2>1. <<>> \in Seq(FillIds)
    BY EmptySeq
  <2>2. Empty \in Buffers
    BY <2>1 DEF Empty, Buffers
  <2>3. 0 \in 0..Qty
    BY VenueAssumption
  <2> QED BY <1>0, <1>12, <2>2, <2>3, TellType DEF WorkerGone, CallTypes
<1>13. CASE UNCHANGED vars
  <2>1. CallTypes' /\ Shapes'
    BY <1>0, <1>13 DEF vars, sdk, wait, seenSoFar, CallTypes, Shapes, venue, VenueTypeOK
  <2> QED BY <1>0, <2>1
<1> QED BY <1>1, <1>2, <1>3, <1>4, <1>5, <1>6, <1>7, <1>8, <1>9, <1>10, <1>11, <1>12, <1>13
       DEF Next, Adapter

-----------------------------------------------------------------------------
(* Calls *)

\* An outcome leaves nothing of the call behind.
LEMMA TellEnds ==
    ASSUME NEW status, NEW fills, Tell(status, fills), status # "none",
           placed' = placed, \A o \in Orders : placed[o] => o <= cur'
    PROVE  Calls'
<1>1. /\ pc' = "idle" /\ waiter' = NoWaiter /\ keyed' = FALSE /\ attempt' = 0
      /\ row' = "none" /\ counted' = 0 /\ heard' = {} /\ dropped' = {}
      /\ told' = [status |-> status, fills |-> fills]
  BY DEF Tell
<1>2. told' # NoReport
  BY <1>1 DEF NoReport
<1>3. 0 < Attempts
  BY FubonAssumption
<1> QED BY <1>1, <1>2, <1>3 DEF Calls

LEMMA InitCalls == Init => Calls
BY FubonAssumption DEF Init, VenueInit, Calls

LEMMA CallsStep == Inv /\ [Next]_vars => Calls'
<1> SUFFICES ASSUME Inv, [Next]_vars PROVE Calls'
  OBVIOUS
<1>0. Calls /\ VenueTypeOK /\ cur \in 0..MaxOrders /\ attempt \in 0..Attempts
  BY DEF Inv, TypeInv, TypeOK
<1>1. CASE AtVenue
  <2>1. placed' = placed
    BY <1>0, <1>1, VenueMoves DEF AtVenue
  <2> QED BY <1>0, <1>1, <2>1 DEF AtVenue, wait, seenSoFar, Calls
<1>2. CASE OnFilled
  <2>1. pc = "idle" => waiter' = waiter /\ heard' = heard /\ dropped' = dropped
    BY <1>0, <1>2 DEF OnFilled, Calls, Awaited, NoWaiter
  <2>2. ~waiter.keyed => waiter' = waiter
    BY <1>2 DEF OnFilled, Awaited
  <2> QED BY <1>0, <1>2, <2>1, <2>2 DEF OnFilled, venue, Calls
<1>3. CASE OnOrderReport
  <2>1. ~waiter.keyed => waiter' = waiter
    BY <1>3 DEF OnOrderReport, Awaited
  <2> QED BY <1>0, <1>3, <2>1 DEF OnOrderReport, venue, seenSoFar, Calls
<1>4. CASE NotSent
  <2>1. placed' = placed /\ cur' = cur + 1
    BY <1>4 DEF NotSent, venue
  <2>2. \A o \in Orders : placed[o] => o <= cur'
    BY <1>0, <2>1 DEF Calls, Orders
  <2> QED BY <1>4, <2>1, <2>2, TellEnds DEF NotSent
<1>5. CASE Begin
  <2>1. placed' = placed /\ cur' = cur + 1 /\ pc' = "submit" /\ told' = NoReport /\ pc = "idle"
        /\ attempt' = attempt /\ counted' = counted
    BY <1>5 DEF Begin, venue
  <2>2. \A o \in Orders : placed[o] => o <= cur'
    BY <1>0, <2>1 DEF Calls, Orders
  <2>3. cur' # 0
    BY <1>0, <2>1, VenueAssumption
  <2>4. ~placed'[cur']
    <3>1. cur + 1 \in Orders
      BY <1>0, <1>5, VenueAssumption DEF Begin, Orders
    <3>2. ~(cur + 1 <= cur)
      BY <1>0, VenueAssumption
    <3> QED BY <1>0, <2>1, <3>1, <3>2 DEF Calls
  <2>5. attempt' < Attempts /\ counted' = 0
    BY <1>0, <2>1 DEF Calls
  <2>6. ~waiter'.keyed
    BY <1>5 DEF Begin, NoWaiter
  <2> QED BY <2>1, <2>2, <2>3, <2>4, <2>5, <2>6 DEF Calls
<1>6. CASE Submit
  <2>1. pc' = "placing" /\ pc = "submit" /\ placed' = [placed EXCEPT ![cur] = TRUE]
        /\ UNCHANGED <<cur, wait, told>>
    BY <1>6 DEF Submit, Reaches
  <2>2. \A o \in Orders : placed'[o] => o <= cur'
    BY <1>0, <2>1 DEF Calls, VenueTypeOK, Orders
  <2> QED BY <1>0, <2>1, <2>2 DEF wait, Calls
<1>7. CASE PlaceReturns
  BY <1>0, <1>7 DEF PlaceReturns, venue, seenSoFar, Calls
<1>8. CASE PlaceFails
  BY <1>0, <1>8, TellEnds DEF PlaceFails, venue, Calls
<1>9. CASE GraceEnds
  BY <1>0, <1>9 DEF GraceEnds, WaitOver, venue, seenSoFar, Calls
<1>10. CASE Poll
  <2>1. /\ pc = "poll" /\ pc' \in {"poll", "pause", "account"}
        /\ pc' # "account" => attempt' # Attempts /\ counted' = counted
        /\ attempt' = attempt \/ attempt' = attempt + 1
        /\ UNCHANGED <<venue, cur, told>>
    BY <1>10 DEF Poll, WaitOver, Counted
  <2>2. attempt < Attempts /\ counted = 0
    BY <1>0, <2>1 DEF Calls
  <2>3. pc' # "account" => attempt' < Attempts
    BY <1>0, <2>1, <2>2, FubonAssumption
  <2> QED BY <1>0, <2>1, <2>2, <2>3 DEF Calls, venue
<1>11. CASE PauseEnds
  BY <1>0, <1>11 DEF PauseEnds, wait, seenSoFar, venue, Calls
<1>12. CASE Conclude
  <2>1. PICK fills \in 0..Qty : Tell(Status(fills), fills)
    BY <1>12, ConcludeTells
  <2>2. Status(fills) # "none" /\ placed' = placed /\ cur' = cur
    BY <1>12, StatusType DEF Conclude, venue
  <2>3. \A o \in Orders : placed[o] => o <= cur'
    BY <1>0, <2>2 DEF Calls
  <2> QED BY <2>1, <2>2, <2>3, TellEnds
<1>13. CASE WorkerGone
  BY <1>0, <1>13, TellEnds DEF WorkerGone, venue, Calls
<1>14. CASE UNCHANGED vars
  BY <1>0, <1>14 DEF vars, venue, wait, seenSoFar, Calls
<1> QED BY <1>1, <1>2, <1>3, <1>4, <1>5, <1>6, <1>7, <1>8, <1>9, <1>10, <1>11, <1>12, <1>13, <1>14
       DEF Next, Adapter, Callbacks

-----------------------------------------------------------------------------
(* Counts *)

\* Executions only grow, so what was executed stays executed.
LEMMA CountsGrow ==
    ASSUME Inv, \A o \in Orders : exec[o] <= exec'[o], exec' \in [Orders -> 0..Qty],
           cur' = cur, waiter'.seen = waiter.seen, waiter'.lots = waiter.lots,
           counted' = counted \/ counted' = waiter.lots,
           Elements(unmatched.fills)' \subseteq Elements(unmatched.fills)
    PROVE  Counts'
<1>0. Counts /\ Shapes /\ VenueTypeOK /\ cur \in 0..MaxOrders
  BY DEF Inv, TypeInv, TypeOK
<1>1. \A f \in Elements(unmatched.fills) : f \in FillIds
  BY <1>0, ElementOfSeq DEF Elements, Shapes, Buffers
<1>2. \A f \in Elements(unmatched.fills)' : f[2] <= exec'[f[1]]
  <2> SUFFICES ASSUME NEW f \in Elements(unmatched.fills)' PROVE f[2] <= exec'[f[1]]
    OBVIOUS
  <2>1. f \in FillIds /\ f[2] <= exec[f[1]]
    BY <1>0, <1>1 DEF Counts
  <2>2. f[1] \in Orders /\ f[2] \in Int
    BY <2>1 DEF FillIds
  <2>3. PICK m \in Int, n \in Int : m = exec[f[1]] /\ n = exec'[f[1]]
    BY <1>0, <2>2 DEF VenueTypeOK
  <2>4. m <= n
    BY <2>2, <2>3
  <2> QED BY <2>1, <2>2, <2>3, <2>4
<1>3. cur # 0 => /\ waiter.seen \subseteq Lots(cur, exec[cur])
                 /\ counted <= exec[cur] /\ waiter.lots <= exec[cur]
                 /\ exec[cur] \in Nat /\ exec'[cur] \in Nat /\ exec[cur] <= exec'[cur]
  <2> SUFFICES ASSUME cur # 0
               PROVE  /\ waiter.seen \subseteq Lots(cur, exec[cur])
                      /\ counted <= exec[cur] /\ waiter.lots <= exec[cur]
                      /\ exec[cur] \in Nat /\ exec'[cur] \in Nat /\ exec[cur] <= exec'[cur]
    OBVIOUS
  <2>1. cur \in Orders
    BY <1>0, VenueAssumption DEF Orders
  <2>2. exec[cur] \in Nat /\ exec'[cur] \in Nat /\ exec[cur] <= exec'[cur]
    BY <1>0, <2>1, VenueAssumption DEF VenueTypeOK
  <2>3. waiter.seen \subseteq Lots(cur, exec[cur]) /\ counted <= exec[cur]
    BY <1>0 DEF Counts, Lots
  <2>4. Cardinality(waiter.seen) <= exec[cur]
    BY <2>2, <2>3, LotsCount
  <2> QED BY <1>0, <2>2, <2>3, <2>4 DEF Counts
<1>4. cur' # 0 => waiter'.seen \subseteq Lots(cur', exec'[cur']) /\ counted' <= exec'[cur']
  <2> SUFFICES ASSUME cur # 0
               PROVE  waiter.seen \subseteq Lots(cur, exec'[cur])
                      /\ counted' <= exec'[cur]
    BY DEF Lots
  <2>1. PICK m \in Nat, n \in Nat : m = exec[cur] /\ n = exec'[cur]
    BY <1>3
  <2>2. m <= n /\ waiter.seen \subseteq Lots(cur, m)
        /\ counted <= m /\ waiter.lots <= m
    BY <1>3, <2>1
  <2>3. counted \in Nat /\ waiter.lots \in Nat
    BY <1>0, ShapesType DEF Counts
  <2>4. counted' <= n
    BY <2>2, <2>3
  <2>5. Lots(cur, m) \subseteq Lots(cur, n)
    BY <2>2 DEF Lots
  <2> QED BY <2>1, <2>2, <2>4, <2>5
<1>5. counted' \in Nat
  BY <1>0, ShapesType DEF Counts
<1> QED BY <1>0, <1>2, <1>4, <1>5 DEF Counts

\* After an outcome nothing is counted.
LEMMA TellCounts ==
    ASSUME Inv, NEW status, NEW fills, Tell(status, fills), exec' = exec, cur' \in 0..MaxOrders,
           Elements(unmatched.fills)' \subseteq Elements(unmatched.fills)
    PROVE  Counts'
<1>1. waiter' = NoWaiter /\ counted' = 0
  BY DEF Tell
<1>2. waiter'.seen = {} /\ waiter'.lots = 0
  BY <1>1 DEF NoWaiter
<1>3. Cardinality({}) = 0
  BY FS_EmptySet
<1>4. cur' # 0 => exec'[cur'] \in Nat /\ 0 <= exec'[cur']
  <2> SUFFICES ASSUME cur' # 0 PROVE exec[cur'] \in 0..Qty
    BY VenueAssumption
  <2>1. cur' \in Orders
    BY VenueAssumption DEF Orders
  <2> QED BY <2>1 DEF Inv, TypeInv, TypeOK, VenueTypeOK
<1>5. \A f \in Elements(unmatched.fills)' : f[2] <= exec'[f[1]]
  BY DEF Inv, Counts
<1> QED BY <1>1, <1>2, <1>3, <1>4, <1>5 DEF Counts

LEMMA InitCounts == Init => Counts
<1> SUFFICES ASSUME Init PROVE Counts
  OBVIOUS
<1>1. waiter.seen = {} /\ waiter.lots = 0 /\ counted = 0 /\ cur = 0
  BY DEF Init, NoWaiter
<1>2. Cardinality({}) = 0
  BY FS_EmptySet
<1>3. Elements(unmatched.fills) = {}
  BY DEF Init, Empty, Elements
<1> QED BY <1>1, <1>2, <1>3 DEF Counts

\* A session that is kept keeps its buffered fills, a new one has none.
LEMMA SessionBuffers ==
    ASSUME Inv, Kept \/ Renewed \/ unmatched' = Empty \/ unmatched' = unmatched
    PROVE  /\ Elements(unmatched.fills)' \subseteq Elements(unmatched.fills)
           /\ Len(unmatched.fills)' <= BufferSize
<1>1. CASE unmatched' = Empty
  <2>1. unmatched'.fills = <<>>
    BY <1>1 DEF Empty
  <2>2. Elements(unmatched.fills)' = {}
    BY <2>1 DEF Elements
  <2>3. Len(unmatched.fills)' = 0 /\ 0 <= BufferSize
    BY <2>1, FubonAssumption
  <2> QED BY <2>2, <2>3
<1>2. CASE unmatched'.fills = unmatched.fills
  BY <1>2 DEF Inv, Finds, Elements
<1>3. CASE Kept
  <2>1. unmatched' = [unmatched EXCEPT !.report = "none"] /\ unmatched \in Buffers
    BY <1>3 DEF Kept, Inv, TypeInv, Shapes
  <2>2. unmatched'.fills = unmatched.fills
    BY <2>1 DEF Buffers
  <2> QED BY <1>2, <2>2
<1> QED BY <1>1, <1>2, <1>3 DEF Renewed

\* A fill counts once.
LEMMA AbsorbCounts ==
    ASSUME Inv, NEW f \in Fills, f[1] = cur, waiter' = Absorb(waiter, f)
    PROVE  /\ waiter'.lots = Cardinality(waiter'.seen)
           /\ waiter'.seen = waiter.seen \cup {f} /\ f \in Lots(cur, exec[cur])
           /\ waiter'.on = waiter.on /\ waiter'.keyed = waiter.keyed
<1>1. waiter \in Waiters /\ Counts /\ VenueTypeOK
  BY DEF Inv, TypeInv, TypeOK, Shapes
<1>2. cur \in Orders /\ f \in FillIds /\ f[2] <= exec[cur]
  BY DEF Fills, FillIds
<1>3. exec[cur] \in Nat /\ f = <<cur, f[2]>> /\ f[2] \in 1..exec[cur]
  BY <1>1, <1>2, VenueAssumption DEF VenueTypeOK, FillIds
<1>4. f \in Lots(cur, exec[cur])
  BY <1>3 DEF Lots
<1>5. IsFiniteSet(waiter.seen)
  <2>1. cur # 0
    BY <1>2, VenueAssumption DEF Orders
  <2>2. PICK n \in Nat : n = exec[cur]
    BY <1>3
  <2>3. waiter.seen \subseteq Lots(cur, n)
    BY <1>1, <2>1, <2>2 DEF Counts, Lots
  <2>4. IsFiniteSet(waiter.seen) /\ Cardinality(waiter.seen) \in Nat
        /\ Cardinality(waiter.seen) <= n
    BY <2>3, LotsCount
  <2> QED BY <2>4
<1>6. CASE f \in waiter.seen
  BY <1>1, <1>4, <1>6 DEF Absorb, Counts
<1>7. CASE f \notin waiter.seen
  <2>1. Cardinality(waiter.seen \cup {f}) = Cardinality(waiter.seen) + 1
    BY <1>5, <1>7, FS_AddElement
  <2>2. waiter'.seen = waiter.seen \cup {f} /\ waiter'.lots = waiter.lots + 1
        /\ waiter'.on = waiter.on /\ waiter'.keyed = waiter.keyed
    BY <1>1, <1>7 DEF Absorb, Waiters
  <2> QED BY <1>1, <1>4, <2>1, <2>2 DEF Counts
<1> QED BY <1>6, <1>7

\* What delivering a fill does.
LEMMA FilledGives ==
    ASSUME Inv, OnFilled
    PROVE  \E f \in Fills :
             /\ heard' = IF pc # "idle" /\ f[1] = cur THEN heard \cup {f} ELSE heard
             /\ \/ /\ Awaited(f[1]) /\ waiter' = Absorb(waiter, f)
                   /\ UNCHANGED <<unmatched, dropped>>
                \/ /\ ~Awaited(f[1]) /\ UNCHANGED waiter
                   /\ unmatched'.fills = Push(unmatched.fills, f)
                   /\ dropped' = IF Len(unmatched.fills) = BufferSize /\ pc # "idle"
                                      /\ Ours(Head(unmatched.fills))
                                 THEN dropped \cup {Head(unmatched.fills)} ELSE dropped
<1>1. PICK f \in Fills :
        /\ heard' = IF pc # "idle" /\ Ours(f) THEN heard \cup {f} ELSE heard
        /\ IF Awaited(f[1])
           THEN waiter' = Absorb(waiter, f) /\ UNCHANGED <<unmatched, dropped>>
           ELSE /\ unmatched' = [unmatched EXCEPT !.fills = Push(@, f)]
                /\ dropped' = IF Len(unmatched.fills) = BufferSize /\ pc # "idle"
                                   /\ Ours(Head(unmatched.fills))
                              THEN dropped \cup {Head(unmatched.fills)} ELSE dropped
                /\ UNCHANGED waiter
  BY DEF OnFilled
<1>2. unmatched \in Buffers
  BY DEF Inv, TypeInv, Shapes
<1>3. [unmatched EXCEPT !.fills = Push(@, f)].fills = Push(unmatched.fills, f)
  BY <1>2 DEF Buffers
<1>4. heard' = IF pc # "idle" /\ f[1] = cur THEN heard \cup {f} ELSE heard
  BY <1>1 DEF Ours
<1> QED BY <1>1, <1>3, <1>4

LEMMA FilledCounts == ASSUME Inv, OnFilled PROVE Counts'
<1>0. Counts /\ VenueTypeOK /\ unmatched \in Buffers /\ Finds
  BY DEF Inv, TypeInv, TypeOK, Shapes
<1>1. /\ exec' = exec /\ cur' = cur /\ counted' = counted
  BY DEF OnFilled, venue
<1>2. PICK f \in Fills :
         \/ Awaited(f[1]) /\ waiter' = Absorb(waiter, f) /\ UNCHANGED <<unmatched, dropped>>
         \/ UNCHANGED waiter /\ unmatched'.fills = Push(unmatched.fills, f)
  BY FilledGives
<1>3. CASE Awaited(f[1]) /\ waiter' = Absorb(waiter, f) /\ UNCHANGED unmatched
  <2>1. f[1] = cur /\ f[1] \in Orders
    BY <1>3 DEF Awaited, Fills
  <2>2. waiter'.lots = Cardinality(waiter'.seen)
        /\ waiter'.seen = waiter.seen \cup {f} /\ f \in Lots(cur, exec[cur])
    BY <1>3, <2>1, AbsorbCounts
  <2>3. cur # 0
    BY <2>1, VenueAssumption DEF Orders
  <2>4. waiter'.seen \subseteq Lots(cur, exec[cur])
    BY <1>0, <2>2, <2>3 DEF Counts
  <2> QED BY <1>0, <1>1, <1>3, <2>2, <2>3, <2>4 DEF Counts, Lots, Elements
<1>4. CASE UNCHANGED waiter /\ unmatched'.fills = Push(unmatched.fills, f)
  <2>1. f \in FillIds /\ f[2] <= exec[f[1]]
    BY DEF Fills, FillIds
  <2>2. unmatched.fills \in Seq(FillIds) /\ Len(unmatched.fills) <= BufferSize
    BY <1>0 DEF Buffers, Finds
  <2>3. Elements(Push(unmatched.fills, f)) \subseteq Elements(unmatched.fills) \cup {f}
    BY <2>1, <2>2, PushKeeps
  <2>4. Elements(unmatched.fills)' = Elements(Push(unmatched.fills, f))
    BY <1>4 DEF Elements
  <2>5. \A g \in Elements(unmatched.fills)' : g[2] <= exec'[g[1]]
    BY <1>0, <1>1, <2>1, <2>3, <2>4 DEF Counts
  <2> QED BY <1>0, <1>1, <1>4, <2>5 DEF Counts, Lots
<1> QED BY <1>2, <1>3, <1>4

LEMMA CountsStep == Inv /\ [Next]_vars => Counts'
<1> SUFFICES ASSUME Inv, [Next]_vars PROVE Counts'
  OBVIOUS
<1>0. VenueTypeOK /\ cur \in 0..MaxOrders /\ Shapes /\ Counts /\ Calls
      /\ exec \in [Orders -> 0..Qty] /\ \A o \in Orders : exec[o] <= exec[o]
  BY DEF Inv, TypeInv, TypeOK, VenueTypeOK
<1>1. CASE AtVenue
  <2>1. exec' \in [Orders -> 0..Qty] /\ \A o \in Orders : exec[o] <= exec'[o]
    BY <1>0, <1>1, VenueMoves DEF AtVenue, VenueTypeOK
  <2> QED BY <1>1, <2>1, CountsGrow DEF AtVenue, sdk, wait, Elements
<1>2. CASE OnFilled
  BY <1>2, FilledCounts
<1>3. CASE OnOrderReport
  <2>1. waiter'.seen = waiter.seen /\ waiter'.lots = waiter.lots
    BY <1>0, <1>3 DEF OnOrderReport, Apply, Shapes, Waiters
  <2>2. unmatched'.fills = unmatched.fills
    BY <1>0, <1>3 DEF OnOrderReport, Shapes, Buffers
  <2>3. exec' = exec /\ cur' = cur /\ counted' = counted
    BY <1>3 DEF OnOrderReport, venue
  <2>4. Elements(unmatched.fills)' \subseteq Elements(unmatched.fills)
    BY <2>2 DEF Elements
  <2> QED BY <1>0, <2>1, <2>3, <2>4, CountsGrow
<1>4. CASE NotSent
  <2>1. cur' \in 0..MaxOrders /\ exec' = exec
    BY <1>0, <1>4, VenueAssumption DEF NotSent, venue
  <2>2. Elements(unmatched.fills)' \subseteq Elements(unmatched.fills)
    BY <1>4, SessionBuffers DEF NotSent, sdk
  <2> QED BY <1>4, <2>1, <2>2, TellCounts DEF NotSent
<1>5. CASE Begin
  <2>1. waiter = NoWaiter /\ counted = 0 /\ exec' = exec /\ counted' = counted
        /\ cur' \in 0..MaxOrders
    BY <1>0, <1>5, VenueAssumption DEF Begin, Calls, venue
  <2>2. waiter'.seen = {} /\ waiter'.lots = 0
    BY <1>5 DEF Begin, NoWaiter
  <2>3. Cardinality({}) = 0
    BY FS_EmptySet
  <2>4. Elements(unmatched.fills)' \subseteq Elements(unmatched.fills)
    BY <1>5, SessionBuffers DEF Begin
  <2>5. cur' # 0 => 0 <= exec'[cur']
    <3> SUFFICES ASSUME cur' # 0 PROVE exec[cur'] \in 0..Qty
      BY <2>1, VenueAssumption
    <3>1. cur' \in Orders
      BY <2>1, VenueAssumption DEF Orders
    <3> QED BY <1>0, <3>1
  <2> QED BY <1>0, <2>1, <2>2, <2>3, <2>4, <2>5 DEF Counts
<1>6. CASE Submit
  BY <1>0, <1>6, CountsGrow DEF Submit, Reaches, sdk, wait, Elements
<1>7. CASE PlaceReturns
  <2>1. exec' = exec /\ cur' = cur /\ counted' = counted
    BY <1>7 DEF PlaceReturns, venue
  <2>2. CASE keyed' /\ waiter.on
    <3>1. Reclaim /\ cur \in Orders
      BY <1>7, <2>2, OnAnOrder DEF PlaceReturns
    <3>2. waiter'.lots = Cardinality(waiter'.seen) /\ waiter'.seen \subseteq Lots(cur, exec[cur])
      BY <1>0, <3>1, ReclaimType DEF Counts
    <3>3. Elements(unmatched.fills)' \subseteq Elements(unmatched.fills)
      BY <1>0, <3>1, ReclaimGives
    <3>4. cur # 0
      BY <3>1, VenueAssumption DEF Orders
    <3> QED BY <1>0, <2>1, <3>2, <3>3, <3>4 DEF Counts, Lots
  <2>3. CASE ~(keyed' /\ waiter.on)
    <3>1. waiter' = waiter /\ unmatched' = unmatched
      BY <1>7, <2>3 DEF PlaceReturns
    <3> QED BY <1>0, <2>1, <3>1, CountsGrow DEF Elements
  <2> QED BY <2>2, <2>3
<1>8. CASE PlaceFails
  BY <1>0, <1>8, TellCounts DEF PlaceFails, venue, sdk, Elements
<1>9. CASE GraceEnds
  BY <1>0, <1>9, CountsGrow DEF GraceEnds, WaitOver, venue, sdk, Elements
<1>10. CASE Poll
  BY <1>0, <1>10, CountsGrow DEF Poll, WaitOver, venue, sdk, Elements
<1>11. CASE PauseEnds
  BY <1>0, <1>11, CountsGrow DEF PauseEnds, wait, venue, sdk, Elements
<1>12. CASE Conclude
  <2>1. PICK fills \in 0..Qty : Tell(Status(fills), fills)
    BY <1>12, ConcludeTells
  <2> QED BY <1>0, <1>12, <2>1, TellCounts DEF Conclude, venue, sdk, Elements
<1>13. CASE WorkerGone
  <2>1. Elements(unmatched.fills)' \subseteq Elements(unmatched.fills)
    BY <1>13, SessionBuffers DEF WorkerGone
  <2> QED BY <1>0, <1>13, <2>1, TellCounts DEF WorkerGone, venue
<1>14. CASE UNCHANGED vars
  BY <1>0, <1>14, CountsGrow DEF vars, wait, venue, sdk, Elements
<1> QED BY <1>1, <1>2, <1>3, <1>4, <1>5, <1>6, <1>7, <1>8, <1>9, <1>10, <1>11, <1>12, <1>13, <1>14
       DEF Next, Adapter, Callbacks

-----------------------------------------------------------------------------
(* Finds *)

LEMMA InitFinds == Init => Finds
<1> SUFFICES ASSUME Init PROVE Finds
  OBVIOUS
<1>1. unmatched.fills = <<>> /\ heard = {} /\ dropped = {} /\ ~waiter.keyed
  BY DEF Init, Empty, NoWaiter
<1>2. Len(unmatched.fills) <= BufferSize
  BY <1>1, FubonAssumption
<1> QED BY <1>1, <1>2 DEF Finds

\* Without a delivery nothing is lost: fills stay counted or buffered.
LEMMA FindsStay ==
    ASSUME Finds, cur' = cur, UNCHANGED <<heard, dropped>>,
           waiter'.keyed = waiter.keyed, waiter'.on = waiter.on,
           waiter'.seen = waiter.seen, unmatched'.fills = unmatched.fills
    PROVE  Finds'
BY DEF Finds, Elements

\* Outside a call nothing is owed.
LEMMA NothingOwed ==
    ASSUME ~waiter'.keyed, heard' = {}, Len(unmatched.fills)' <= BufferSize
    PROVE  Finds'
BY DEF Finds

\* An outcome ends what is owed to the call.
LEMMA TellFinds ==
    ASSUME NEW status, NEW fills, Tell(status, fills), Len(unmatched.fills)' <= BufferSize
    PROVE  Finds'
<1>1. ~waiter'.keyed /\ heard' = {}
  BY DEF Tell, NoWaiter
<1> QED BY <1>1, NothingOwed

\* A fill that is delivered is counted, or buffered, perhaps in the place of
\* the oldest one.
LEMMA FilledFinds == ASSUME Inv, OnFilled PROVE Finds'
<1>0. Finds /\ unmatched \in Buffers /\ cur' = cur /\ Calls
  BY DEF Inv, TypeInv, Shapes, OnFilled
<1>1. PICK f \in Fills :
        /\ heard' = IF pc # "idle" /\ f[1] = cur THEN heard \cup {f} ELSE heard
        /\ \/ /\ Awaited(f[1]) /\ waiter' = Absorb(waiter, f)
              /\ UNCHANGED <<unmatched, dropped>>
           \/ /\ ~Awaited(f[1]) /\ UNCHANGED waiter
              /\ unmatched'.fills = Push(unmatched.fills, f)
              /\ dropped' = IF Len(unmatched.fills) = BufferSize /\ pc # "idle"
                                 /\ Ours(Head(unmatched.fills))
                            THEN dropped \cup {Head(unmatched.fills)} ELSE dropped
  BY FilledGives
<1>2. \A g \in heard' : g[1] = cur'
  BY <1>0, <1>1 DEF Finds
<1>3. CASE Awaited(f[1]) /\ waiter' = Absorb(waiter, f) /\ UNCHANGED <<unmatched, dropped>>
  <2>1. f[1] = cur /\ waiter.keyed
    BY <1>3 DEF Awaited
  <2>2. waiter'.seen = waiter.seen \cup {f}
        /\ waiter'.on = waiter.on /\ waiter'.keyed = waiter.keyed
    BY <1>3, <2>1, AbsorbCounts
  <2>3. heard' \subseteq waiter'.seen \cup dropped'
    BY <1>0, <1>1, <1>3, <2>1, <2>2 DEF Finds
  <2> QED BY <1>0, <1>2, <1>3, <2>1, <2>2, <2>3 DEF Finds
<1>4. CASE /\ ~Awaited(f[1]) /\ UNCHANGED waiter
           /\ unmatched'.fills = Push(unmatched.fills, f)
           /\ dropped' = IF Len(unmatched.fills) = BufferSize /\ pc # "idle"
                              /\ Ours(Head(unmatched.fills))
                         THEN dropped \cup {Head(unmatched.fills)} ELSE dropped
  <2> DEFINE q == unmatched.fills
             r == Push(q, f)
  <2>1. f \in FillIds /\ q \in Seq(FillIds) /\ Len(q) <= BufferSize
    BY <1>0 DEF Fills, FillIds, Buffers, Finds
  <2>2. /\ Len(r) <= BufferSize
        /\ Elements(q) \cup {f} \subseteq
             Elements(r) \cup (IF Len(q) = BufferSize THEN {Head(q)} ELSE {})
    BY <2>1, PushKeeps
  <2>3. dropped \subseteq dropped'
    BY <1>4
  <2>4. CASE waiter.keyed
    <3>1. waiter.on /\ heard \subseteq waiter.seen \cup dropped
      BY <1>0, <2>4 DEF Finds
    <3>2. f[1] # cur
      BY <1>4, <2>4, <3>1 DEF Awaited
    <3>3. heard' = heard
      BY <1>1, <3>2
    <3> QED BY <1>2, <1>4, <2>2, <2>3, <2>4, <3>1, <3>3 DEF Finds
  <2>5. CASE ~waiter.keyed
    <3>1. heard \subseteq Elements(q) \cup dropped
      BY <1>0, <2>5 DEF Finds
    <3>2. heard' \subseteq Elements(r) \cup dropped'
      <4>1. CASE pc = "idle"
        <5>1. heard' = {}
          BY <1>0, <1>1, <4>1 DEF Calls
        <5> QED BY <5>1
      <4>2. CASE pc # "idle"
        <5> SUFFICES ASSUME NEW g \in heard', g \notin dropped' PROVE g \in Elements(r)
          OBVIOUS
        <5>1. g[1] = cur /\ g \in Elements(q) \cup {f}
          BY <1>0, <1>1, <1>2, <2>3, <3>1
        <5>2. CASE Len(q) = BufferSize /\ g = Head(q)
          <6>1. Ours(Head(q))
            BY <5>1, <5>2 DEF Ours
          <6>2. g \in dropped'
            BY <1>4, <4>2, <5>2, <6>1
          <6> QED BY <6>2
        <5>3. CASE ~(Len(q) = BufferSize /\ g = Head(q))
          BY <2>2, <5>1, <5>3
        <5> QED BY <5>2, <5>3
      <4> QED BY <4>1, <4>2
    <3>3. waiter' = waiter /\ Elements(unmatched.fills)' = Elements(r)
          /\ Len(unmatched.fills)' = Len(r)
      BY <1>4 DEF Elements
    <3> QED BY <1>2, <2>2, <2>5, <3>2, <3>3 DEF Finds
  <2> QED BY <2>4, <2>5
<1> QED BY <1>1, <1>3, <1>4

LEMMA FindsStep == Inv /\ [Next]_vars => Finds'
<1> SUFFICES ASSUME Inv, [Next]_vars PROVE Finds'
  OBVIOUS
<1>0. Finds /\ Calls /\ Counts /\ Shapes /\ VenueTypeOK
      /\ Len(unmatched.fills) <= BufferSize
  BY DEF Inv, TypeInv, TypeOK, Finds
<1>1. CASE AtVenue
  BY <1>0, <1>1, FindsStay DEF AtVenue, sdk, wait, seenSoFar
<1>2. CASE OnFilled
  BY <1>2, FilledFinds
<1>3. CASE OnOrderReport
  <2>1. /\ waiter'.keyed = waiter.keyed /\ waiter'.on = waiter.on
        /\ waiter'.seen = waiter.seen
    BY <1>0, <1>3 DEF OnOrderReport, Apply, Shapes, Waiters
  <2>2. unmatched'.fills = unmatched.fills
    BY <1>0, <1>3 DEF OnOrderReport, Shapes, Buffers
  <2> QED BY <1>0, <1>3, <2>1, <2>2, FindsStay DEF OnOrderReport, seenSoFar
<1>4. CASE NotSent
  <2>1. Len(unmatched.fills)' <= BufferSize
    BY <1>4, SessionBuffers DEF NotSent, sdk
  <2> QED BY <1>4, <2>1, TellFinds DEF NotSent
<1>5. CASE Begin
  <2>1. Len(unmatched.fills)' <= BufferSize
    BY <1>5, SessionBuffers DEF Begin
  <2>2. ~waiter'.keyed /\ heard' = {}
    BY <1>0, <1>5 DEF Begin, NoWaiter, seenSoFar, Calls
  <2> QED BY <2>1, <2>2, NothingOwed
<1>6. CASE Submit
  BY <1>0, <1>6, FindsStay DEF Submit, sdk, wait, seenSoFar
<1>7. CASE PlaceReturns
  <2>1. cur' = cur /\ heard' = heard /\ dropped' = dropped
    BY <1>7 DEF PlaceReturns, seenSoFar
  <2>2. CASE keyed' /\ waiter.on
    <3>1. Reclaim /\ cur \in Orders
      BY <1>7, <2>2, OnAnOrder DEF PlaceReturns
    <3>2. /\ waiter'.seen = {f \in Elements(unmatched.fills) : f[1] = cur}
          /\ waiter'.keyed /\ waiter'.on = waiter.on
      BY <1>0, <3>1, ReclaimType DEF Counts
    <3>3. unmatched'.fills \in Seq(FillIds) /\ unmatched.fills \in Seq(FillIds)
          /\ Len(unmatched'.fills) <= Len(unmatched.fills)
      <4>1. PICK mine \in SUBSET FillIds :
              unmatched' \in Buffers /\ Len(unmatched'.fills) <= Len(unmatched.fills)
        BY <1>0, <3>1, ReclaimGives
      <4> QED BY <1>0, <4>1 DEF Shapes, Buffers
    <3>4. Len(unmatched.fills)' <= BufferSize
      <4>1. PICK m \in Nat, n \in Nat : m = Len(unmatched'.fills) /\ n = Len(unmatched.fills)
        BY <3>3, LenProperties
      <4> QED BY <1>0, <3>3, <4>1, FubonAssumption
    <3>5. heard' \subseteq waiter'.seen \cup dropped'
      <4>1. ~waiter.keyed
        BY <1>0, <1>7 DEF PlaceReturns, Calls
      <4> QED BY <1>0, <2>1, <3>2, <4>1 DEF Finds
    <3>6. \A f \in heard' : f[1] = cur'
      BY <1>0, <2>1 DEF Finds
    <3> QED BY <2>2, <3>2, <3>4, <3>5, <3>6 DEF Finds
  <2>3. CASE ~(keyed' /\ waiter.on)
    <3>1. waiter' = waiter /\ unmatched' = unmatched
      BY <1>7, <2>3 DEF PlaceReturns
    <3> QED BY <1>0, <2>1, <3>1, FindsStay
  <2> QED BY <2>2, <2>3
<1>8. CASE PlaceFails
  BY <1>0, <1>8, TellFinds DEF PlaceFails, sdk
<1>9. CASE GraceEnds
  BY <1>0, <1>9, FindsStay DEF GraceEnds, sdk, seenSoFar
<1>10. CASE Poll
  BY <1>0, <1>10, FindsStay DEF Poll, sdk, seenSoFar
<1>11. CASE PauseEnds
  BY <1>0, <1>11, FindsStay DEF PauseEnds, wait, sdk, seenSoFar
<1>12. CASE Conclude
  <2>1. PICK fills \in 0..Qty : Tell(Status(fills), fills)
    BY <1>12, ConcludeTells
  <2> QED BY <1>0, <1>12, <2>1, TellFinds DEF Conclude, sdk
<1>13. CASE WorkerGone
  <2>1. Len(unmatched.fills)' <= BufferSize
    BY <1>13, SessionBuffers DEF WorkerGone
  <2> QED BY <1>13, <2>1, TellFinds DEF WorkerGone
<1>14. CASE UNCHANGED vars
  BY <1>0, <1>14, FindsStay DEF vars, wait, sdk, seenSoFar
<1> QED BY <1>1, <1>2, <1>3, <1>4, <1>5, <1>6, <1>7, <1>8, <1>9, <1>10, <1>11, <1>12, <1>13, <1>14
       DEF Next, Adapter, Callbacks

-----------------------------------------------------------------------------
(* What follows *)

LEMMA InvStarts == Init => Inv
BY InitType, InitCalls, InitCounts, InitFinds DEF Inv

LEMMA InvStep == Inv /\ [Next]_vars => Inv'
BY TypeStep, CallsStep, CountsStep, FindsStep DEF Inv

LEMMA InvIsKept == Spec => []Inv
BY InvStarts, InvStep, PTL DEF Spec

\* The types, with an outcome that never says more lots than were asked for.
THEOREM FubonTypes == Spec => []TypeOK
<1>1. Inv => TypeOK
  BY DEF Inv, TypeInv
<1> QED BY <1>1, InvIsKept, PTL

\* CountsOwnFillsOnce: fills that are repeated, reordered, buffered, or of an
\* earlier order never make an order count more lots than it executed.
THEOREM OwnFillsCounted == Spec => []CountsOwnFillsOnce
<1>1. Inv => CountsOwnFillsOnce
  <2> SUFFICES ASSUME Inv, waiter.on PROVE waiter.lots <= exec[cur]
    BY DEF CountsOwnFillsOnce
  <2>1. pc # "idle"
    BY DEF Inv, Calls, NoWaiter
  <2>2. cur # 0 /\ exec[cur] \in Nat
    BY <2>1, OnAnOrder, VenueAssumption DEF Inv, Calls
  <2>3. PICK n \in Nat : n = exec[cur]
    BY <2>2
  <2>4. waiter.seen \subseteq Lots(cur, n) /\ waiter.lots = Cardinality(waiter.seen)
    BY <2>2, <2>3 DEF Inv, Counts
  <2>5. Cardinality(waiter.seen) <= n
    BY <2>4, LotsCount
  <2> QED BY <2>3, <2>4, <2>5
<1> QED BY <1>1, InvIsKept, PTL

\* EarlyFillsAreFound: once place_order has named the order, every fill of it
\* that was delivered is counted, but for those the full buffer pushed out.
THEOREM EarlyFillsFound == Spec => []EarlyFillsAreFound
<1>1. Inv => EarlyFillsAreFound
  BY DEF Inv, Finds, EarlyFillsAreFound
<1> QED BY <1>1, InvIsKept, PTL

-----------------------------------------------------------------------------
(* What the coordinator is promised *)

PromiseVars == <<venue, cur, base, told>>

LEMMA InitPromise == Init => Contract!Init
BY DEF Init, NoReport, Contract!Init, Contract!NoReport, VenueInit, Contract!VenueInit, Orders, Contract!Orders

\* An order is open for the promise while it is worked on.
LEMMA OpenDuringCall ==
    ASSUME Inv
    PROVE  /\ pc # "idle" => Contract!Open
           /\ pc = "idle" /\ cur < MaxOrders => Contract!Idle
BY DEF Inv, Calls, NoReport, Contract!Open, Contract!Idle, Contract!NoReport

\* The report of an order with nothing filled.
LEMMA ReportsNothing ==
    ASSUME Inv, pc # "idle", NEW status \in {"failed", "unknown"}, Tell(status, 0),
           UNCHANGED <<venue, cur, base>>
    PROVE  Contract!Next
<1>1. 0 \in 0..Qty /\ ~(0 = Qty) /\ ~(0 > 0)
  BY VenueAssumption
<1>2. Contract!Report(status, 0)
  BY <1>1, OpenDuringCall DEF Contract!Report, Tell, venue, Contract!venue
<1>3. status \in Contract!Statuses
  BY DEF Contract!Statuses
<1> QED BY <1>1, <1>2, <1>3 DEF Contract!Next

\* Every step of the adapter is a step of the promise, or none.
LEMMA PromiseStep == Inv /\ [Next]_vars => [Contract!Next]_(Contract!vars)
<1> SUFFICES ASSUME Inv, [Next]_vars PROVE Contract!Next \/ UNCHANGED PromiseVars
  BY DEF PromiseVars, Contract!vars, venue, Contract!venue
<1>1. CASE AtVenue
  <2>1. Contract!VenueNext
    BY <1>1 DEF AtVenue, VenueNext, CatchUp, SomebodyTrades, Trade, Ends, Orders,
       Contract!VenueNext, Contract!CatchUp, Contract!SomebodyTrades, Contract!Trade,
       Contract!Ends, Contract!Orders
  <2> QED BY <1>1, <2>1 DEF AtVenue, Contract!Next, Contract!AtVenue
<1>2. CASE Callbacks
  BY <1>2 DEF Callbacks, OnFilled, OnOrderReport, PromiseVars
<1>3. CASE NotSent
  <2>1. Contract!Idle /\ cur' = cur + 1 /\ UNCHANGED <<venue, base>>
    BY <1>3, OpenDuringCall DEF NotSent
  <2>2. told' \in {[status |-> s, fills |-> 0] : s \in {"rejected", "failed", "unknown"}}
    BY <1>3 DEF NotSent, Tell
  <2>3. Contract!TurnDown
    BY <2>1, <2>2 DEF Contract!TurnDown, venue, Contract!venue
  <2> QED BY <2>3 DEF Contract!Next
<1>4. CASE Begin
  <2>1. Contract!Begin
    BY <1>4, OpenDuringCall DEF Begin, Contract!Begin, NoReport, Contract!NoReport, venue, Contract!venue
  <2> QED BY <2>1 DEF Contract!Next
<1>5. CASE Submit
  <2>1. Contract!Open /\ ~placed[cur]
    BY <1>5, OpenDuringCall DEF Submit, Inv, Calls
  <2>2. Contract!Place
    BY <1>5, <2>1 DEF Submit, Reaches, Contract!Place, Contract!Reaches
  <2> QED BY <2>2 DEF Contract!Next
<1>6. CASE PlaceReturns \/ GraceEnds \/ Poll \/ PauseEnds
  BY <1>6 DEF PlaceReturns, GraceEnds, Poll, PauseEnds, PromiseVars
<1>7. CASE PlaceFails
  <2>1. pc # "idle" /\ UNCHANGED <<venue, cur, base>>
        /\ \E status \in {"unknown", "failed"} : Tell(status, 0)
    BY <1>7 DEF PlaceFails
  <2> QED BY <2>1, ReportsNothing
<1>8. CASE Conclude
  <2>1. PICK fills \in 0..Qty :
          /\ Tell(Status(fills), fills)
          /\ fills <= exec[cur] \/ fills <= Moved(cur, base, view)
    BY <1>8, ConcludeTells
  <2>2. /\ Status(fills) \in {"filled", "partial_fill", "failed", "unknown"}
        /\ Status(fills) = "filled" <=> fills = Qty
        /\ Status(fills) = "failed" => fills = 0
    BY StatusType
  <2>3. Contract!Backed(fills)
    BY <2>1 DEF Contract!Backed, Moved, Contract!Moved
  <2>4. Contract!Open /\ UNCHANGED <<venue, cur, base>>
    BY <1>8, OpenDuringCall DEF Conclude
  <2>5. Contract!Report(Status(fills), fills)
    <3>1. told' = [status |-> Status(fills), fills |-> fills]
      BY <2>1 DEF Tell
    <3>2. Status(fills) \in {"rejected", "failed"} => fills = 0
      BY <2>2
    <3> QED BY <2>2, <2>3, <2>4, <3>1, <3>2 DEF Contract!Report, venue, Contract!venue
  <2>6. Status(fills) \in Contract!Statuses
    BY <2>2 DEF Contract!Statuses
  <2> QED BY <2>5, <2>6 DEF Contract!Next
<1>9. CASE WorkerGone
  BY <1>9, ReportsNothing DEF WorkerGone
<1>10. CASE UNCHANGED vars
  BY <1>10 DEF vars, PromiseVars
<1> QED BY <1>1, <1>2, <1>3, <1>4, <1>5, <1>6, <1>7, <1>8, <1>9, <1>10
       DEF Next, Adapter

\* The adapter implements what the pair coordinator relies on: an order reaches
\* the venue at most once and is reported on once, and what is reported as
\* filled was executed, or moved at the account by as much.
THEOREM FubonKeepsPromise == Spec => KeepsVenuePromise
BY PromiseStep, InitPromise, InvIsKept, PTL DEF Spec, KeepsVenuePromise, Contract!Spec
=============================================================================
