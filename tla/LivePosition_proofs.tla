-------------------------- MODULE LivePosition_proofs --------------------------
(***************************************************************************)
(* What LivePosition keeps for every set of rows, requests and bounds.     *)
(*                                                                         *)
(* A tick works on a snapshot of the rows, across many awaits.  It may do  *)
(* so because nobody else closes rows or touches their trailing stops: the *)
(* invariants below say what the snapshot still tells it about the rows.   *)
(***************************************************************************)
EXTENDS LivePosition, TLAPS

Requests == RideRequests \cup CloseRequests

\* A tick past its choice of a row is on a row, once; a busy request has one.
Shape ==
  /\ tick.pc \notin {"idle", "next"} => tick.row \in Rows /\ tick.row \notin tick.todo
  /\ \A q \in Requests : request[q].pc # "idle" => request[q].row \in Rows

Recorded == {"after", "confirm", "cancel"}

\* The rows a tick still has to see are open, and so is the one it is on until
\* the tick itself has closed it.
OpenUntilRecorded ==
  /\ \A r \in tick.todo : rows[r].status = "open"
  /\ tick.pc \notin {"idle", "next"} =>
       rows[tick.row].status = (IF tick.pc \in Recorded THEN "closed" ELSE "open")

PInv == TypeOK /\ Shape /\ OpenUntilRecorded

-----------------------------------------------------------------------------
(* The trailing stop.                                                      *)

\* The snapshot misses no trailing stop: only the tick sets the flag.
SnapshotKnowsTrail ==
  /\ \A r \in tick.todo : rows[r].trail => tick.snap[r].trail
  /\ tick.pc \notin {"idle", "next"} => (rows[tick.row].trail => Local.trail)

\* While the tick places a trailing stop the row has none; once the click is
\* through, the order is at the broker before the flag says so.
PlacingTrail ==
  tick.kind = "trail" /\ tick.pc \in {"place", "flag"} =>
    /\ ~rows[tick.row].trail
    /\ tick.pc = "flag" =>
         resting[tick.row].trail > 0 \/ <<tick.row, "trail">> \in filled

\* Whenever the tick may click "Cancel Orders", no open row relies on a
\* trailing stop: a row entered meanwhile has none yet.
NothingToLose ==
  tick.pc \in {"recancel", "confirm", "cancel"} =>
    \A r \in Rows : rows[r].status = "open" => ~rows[r].trail

SInv == SnapshotKnowsTrail /\ PlacingTrail /\ NothingToLose /\ StopEnforced

-----------------------------------------------------------------------------
(* How a step moves the tick.                                              *)

\* On with the same row, to one of the stages in S.
OnRow(S) ==
  /\ tick' \in Tick /\ tick'.pc \in S
  /\ tick'.row = tick.row /\ tick'.todo = tick.todo

\* Done with the row, or with the tick.
Leaves ==
  /\ tick' \in Tick /\ tick'.pc \in {"idle", "next"} /\ tick'.kind = "tp"
  /\ tick'.todo = tick.todo
  /\ \A r \in tick.todo : tick'.snap[r] = tick.snap[r]

LEMMA NoRowIsRow == NoRow \in Row
BY DEF NoRow, Row, Reasons

LEMMA IdleTickIsTick == IdleTick \in Tick
BY NoRowIsRow DEF IdleTick, Tick, Stages, Kinds, Reasons

LEMMA GotoEffect ==
  ASSUME TypeOK, NEW stage \in Stages, Goto(stage)
  PROVE  OnRow({stage}) /\ tick'.snap = tick.snap /\ tick'.kind = tick.kind
BY DEF TypeOK, Goto, Tick, OnRow

LEMMA PlaceEffect ==
  ASSUME TypeOK, NEW kind \in Kinds, NEW back \in {"tp", "flat", "exit"},
         Place(kind, back)
  PROVE  OnRow({"place"}) /\ tick'.snap = tick.snap /\ tick'.kind = kind
BY DEF TypeOK, Place, Tick, OnRow, Stages

LEMMA CloseAsEffect ==
  ASSUME TypeOK, NEW reason \in Reasons, CloseAs(reason)
  PROVE  OnRow({"record"}) /\ tick'.snap = tick.snap /\ tick'.kind = tick.kind
BY DEF TypeOK, CloseAs, Tick, OnRow, Stages

LEMMA DoneEffect ==
  ASSUME PInv, tick.pc \notin {"idle", "next"}, DoneWithRow
  PROVE  Leaves
<1>1. CASE tick.todo = {}
  BY <1>1, IdleTickIsTick DEF DoneWithRow, Leaves, IdleTick
<1>2. CASE tick.todo # {}
  <2> DEFINE t == [IdleTick EXCEPT !.pc = "next", !.todo = tick.todo,
                     !.snap = [tick.snap EXCEPT ![tick.row] = NoRow]]
  <2>1. [tick.snap EXCEPT ![tick.row] = NoRow] \in [Rows -> Row]
    BY NoRowIsRow DEF PInv, TypeOK, Tick
  <2>2. t \in Tick
    BY <2>1, IdleTickIsTick DEF PInv, TypeOK, Tick, Stages
  <2>3. /\ t.pc = "next" /\ t.kind = "tp" /\ t.todo = tick.todo
        /\ t.snap = [tick.snap EXCEPT ![tick.row] = NoRow]
    BY DEF IdleTick
  <2>4. tick' = t BY <1>2 DEF DoneWithRow
  <2> HIDE DEF t
  <2> QED BY <2>2, <2>3, <2>4 DEF Leaves, PInv, Shape, TypeOK, Tick
<1> QED BY <1>1, <1>2

\* The snapshot's order flag is the only thing a return changes.
LEMMA ReturnEffect ==
  ASSUME PInv, tick.pc \in {"place", "flag"}, NEW placed \in BOOLEAN,
         Return(placed)
  PROVE  /\ OnRow({"tp", "flat", "exit", "save"}) /\ tick'.kind = "tp"
         /\ \A r \in Rows : r # tick.row => tick'.snap[r] = tick.snap[r]
         /\ tick'.snap[tick.row].trail =
              (IF tick.kind = "trail" THEN placed ELSE Local.trail)
<1> DEFINE row == [Local EXCEPT ![tick.kind] = placed]
           snap == [tick.snap EXCEPT ![tick.row] = row]
<1>1. tick.row \in Rows /\ Local \in Row /\ tick.kind \in Kinds
  BY DEF PInv, TypeOK, Tick, Shape, Local
<1>2. row \in Row /\ row.trail = (IF tick.kind = "trail" THEN placed ELSE Local.trail)
  <2>1. CASE tick.kind = "trail" BY <1>1, <2>1 DEF Row
  <2>2. CASE tick.kind = "tp" BY <1>1, <2>2 DEF Row
  <2> QED BY <1>1, <2>1, <2>2 DEF Kinds
<1>3. snap \in [Rows -> Row] /\ snap[tick.row] = row
      /\ \A r \in Rows : r # tick.row => snap[r] = tick.snap[r]
  BY <1>1, <1>2 DEF PInv, TypeOK, Tick
<1>4. tick' = [tick EXCEPT !.pc = tick.back, !.kind = "tp", !.back = "tp",
                           !.snap = snap]
  BY <1>1 DEF Return, Local, PInv, TypeOK, Tick
<1> HIDE DEF snap, row
<1>5. tick' \in Tick /\ tick'.snap = snap /\ tick'.pc = tick.back
      /\ tick'.row = tick.row /\ tick'.todo = tick.todo /\ tick'.kind = "tp"
  BY <1>3, <1>4 DEF PInv, TypeOK, Tick, Stages, Kinds
<1> QED BY <1>2, <1>3, <1>5 DEF OnRow, PInv, TypeOK, Tick

-----------------------------------------------------------------------------
(* The types, and the rows a tick is entitled to find open.                *)

Busy == Stages \ ({"idle", "next"} \cup Recorded)

\* The tick stays on its row, on the same side of recording its close, or is
\* done with it.
Proceeds ==
  \/ tick.pc \in Busy /\ OnRow(Busy)
  \/ tick.pc \in Recorded /\ OnRow(Recorded)
  \/ tick.pc \in Busy \cup Recorded /\ Leaves

LEMMA GotoProceeds ==
  ASSUME PInv, tick.pc \in Busy, NEW stage \in Busy, Goto(stage)
  PROVE  Proceeds
<1>1. stage \in Stages BY DEF Busy
<1> QED BY <1>1, GotoEffect DEF PInv, Proceeds, OnRow

LEMMA PlaceProceeds ==
  ASSUME PInv, tick.pc \in Busy, NEW kind \in Kinds,
         NEW back \in {"tp", "flat", "exit"}, Place(kind, back)
  PROVE  Proceeds
BY PlaceEffect DEF PInv, Proceeds, OnRow, Busy, Stages, Recorded

LEMMA DoneProceeds ==
  ASSUME PInv, tick.pc \in Busy \cup Recorded, DoneWithRow
  PROVE  Proceeds
BY DoneEffect DEF Proceeds, Busy, Recorded, Stages

LEMMA ReturnProceeds ==
  ASSUME PInv, tick.pc \in {"place", "flag"}, NEW placed \in BOOLEAN, Return(placed)
  PROVE  Proceeds
BY ReturnEffect DEF Proceeds, OnRow, Busy, Stages, Recorded

LEMMA BusyStages ==
  /\ {"reanchor", "recancel", "save", "trail", "tp", "place", "flag", "flat",
      "box", "exit", "recheck", "close", "again", "flatten", "record", "write",
      "reconcile"} \subseteq Busy
  /\ {"after", "confirm", "cancel"} \subseteq Recorded
BY DEF Busy, Stages, Recorded

LEMMA ArmsProceed ==
  ASSUME PInv, ArmTrail \/ ArmTarget \/ ChartBox
  PROVE  Proceeds
<1>1. ASSUME NEW stage \in {"tp", "flat", "exit"}, Goto(stage), tick.pc \in Busy
      PROVE  Proceeds
  BY <1>1, BusyStages, GotoProceeds
<1>2. ASSUME NEW kind \in Kinds, NEW back \in {"tp", "flat", "exit"},
             Place(kind, back), tick.pc \in Busy
      PROVE  Proceeds
  BY <1>2, PlaceProceeds
<1>3. CASE ArmTrail
  BY <1>1, <1>2, <1>3, BusyStages DEF ArmTrail, Kinds
<1>4. CASE ArmTarget
  BY <1>1, <1>2, <1>4, BusyStages DEF ArmTarget, Kinds
<1>5. CASE ChartBox
  <2>1. CASE tick' = [tick EXCEPT !.pc = "exit", !.red = TRUE]
    <3>1. OnRow({"exit"}) BY <2>1 DEF PInv, TypeOK, Tick, OnRow, Stages
    <3> QED BY <1>5, <3>1, BusyStages DEF ChartBox, Proceeds, OnRow
  <2> QED BY <1>1, <1>2, <1>5, <2>1, BusyStages DEF ChartBox, Kinds
<1> QED BY <1>3, <1>4, <1>5

LEMMA ReanchorProceeds ==
  ASSUME PInv, Reanchor \/ ReanchorCancel
  PROVE  Proceeds
<1>1. ASSUME NEW stage \in {"trail", "recancel", "save"}, Goto(stage), tick.pc \in Busy
      PROVE  Proceeds
  BY <1>1, BusyStages, GotoProceeds
<1>2. CASE tick.pc \in Busy
           /\ tick' = [tick EXCEPT !.pc = "trail", !.snap[tick.row] = rows[tick.row]]
  <2>1. tick.row \in Rows /\ rows[tick.row] \in Row
    BY <1>2 DEF PInv, Shape, TypeOK, Busy
  <2>2. [tick.snap EXCEPT ![tick.row] = rows[tick.row]] \in [Rows -> Row]
    BY <2>1 DEF PInv, TypeOK, Tick
  <2>3. OnRow({"trail"}) BY <1>2, <2>2 DEF PInv, TypeOK, Tick, OnRow, Stages
  <2> QED BY <1>2, <2>3, BusyStages DEF Proceeds, OnRow
<1>3. CASE tick.pc \in Busy
           /\ tick' = [tick EXCEPT !.pc = "place", !.kind = "tp", !.back = "save"]
  <2>1. OnRow({"place"}) BY <1>3 DEF PInv, TypeOK, Tick, OnRow, Stages, Kinds
  <2> QED BY <1>3, <2>1, BusyStages DEF Proceeds, OnRow
<1> QED BY <1>1, <1>2, <1>3, BusyStages DEF Reanchor, ReanchorCancel

LEMMA ExitProceeds ==
  ASSUME PInv, SeesFlat \/ SeesPosition \/ ExitOrStay
  PROVE  Proceeds
<1>1. ASSUME NEW stage \in {"box", "reconcile"}, Goto(stage), tick.pc \in Busy
      PROVE  Proceeds
  BY <1>1, BusyStages, GotoProceeds
<1>2. ASSUME NEW reason \in Reasons, CloseAs(reason), tick.pc \in Busy
      PROVE  Proceeds
  BY <1>2, BusyStages, CloseAsEffect DEF PInv, Proceeds, OnRow
<1>3. ASSUME NEW reason \in Reasons, tick.pc \in Busy,
             tick' = [tick EXCEPT !.pc = "recheck", !.reason = reason]
      PROVE  Proceeds
  <2>1. OnRow({"recheck"}) BY <1>3 DEF PInv, TypeOK, Tick, OnRow, Stages
  <2> QED BY <1>3, <2>1, BusyStages DEF Proceeds, OnRow
<1> QED
  BY <1>1, <1>2, <1>3, BusyStages, DoneProceeds
  DEF SeesFlat, FlatMeansClose, SeesPosition, ExitOrStay, Reasons

LEMMA CloseProceeds ==
  ASSUME PInv, Recheck \/ ForceClose \/ CheckAgain \/ Flatten \/ Record
  PROVE  Proceeds
<1>1. ASSUME NEW stage \in {"record", "close", "flatten", "again", "write"},
             Goto(stage), tick.pc \in Busy
      PROVE  Proceeds
  BY <1>1, BusyStages, GotoProceeds
<1> QED
  BY <1>1, BusyStages, DoneProceeds
  DEF Recheck, CheckAgain, CheckBefore, ForceClose, Flatten, Record

LEMMA RecordedProceeds ==
  ASSUME PInv, AfterClose \/ ConfirmFlat \/ CancelResting
  PROVE  Proceeds
<1>1. ASSUME NEW stage \in {"confirm", "cancel"}, Goto(stage), tick.pc \in Recorded
      PROVE  Proceeds
  <2>1. stage \in Stages /\ stage \in Recorded BY DEF Stages, Recorded
  <2> QED BY <1>1, <2>1, GotoEffect DEF PInv, Proceeds, OnRow
<1> QED
  BY <1>1, BusyStages, DoneProceeds DEF AfterClose, ConfirmFlat, CancelResting

LEMMA RestingTypes ==
  ASSUME TypeOK
  PROVE  /\ NothingResting \in [Rows -> [Kinds -> 0..MaxResting]]
         /\ PlaceOrder /\ tick.row \in Rows
              => resting' \in [Rows -> [Kinds -> 0..MaxResting]]
<1>1. MaxResting \in Nat BY Bounds
<1>2. NothingResting \in [Rows -> [Kinds -> 0..MaxResting]]
  BY <1>1 DEF NothingResting
<1>3. ASSUME PlaceOrder, tick.row \in Rows
      PROVE  resting' \in [Rows -> [Kinds -> 0..MaxResting]]
  <2>1. tick.kind \in Kinds BY DEF TypeOK, Tick
  <2>2. ASSUME resting[tick.row][tick.kind] < MaxResting
        PROVE  resting[tick.row][tick.kind] + 1 \in 0..MaxResting
    BY <1>1, <1>3, <2>1, <2>2 DEF TypeOK
  <2>3. ASSUME resting[tick.row][tick.kind] + 1 \in 0..MaxResting
        PROVE  [resting EXCEPT ![tick.row][tick.kind] = @ + 1]
                 \in [Rows -> [Kinds -> 0..MaxResting]]
    BY <2>1, <1>3, <2>3 DEF TypeOK
  <2> QED BY <1>3, <2>2, <2>3 DEF PlaceOrder, TypeOK
<1> QED BY <1>2, <1>3

\* A step of the tick that leaves the statuses of the rows alone.
LEMMA ProceedsKeepsPInv ==
  ASSUME PInv, Proceeds, TypeOK', request' = request,
         \A r \in Rows : rows'[r].status = rows[r].status
  PROVE  PInv'
<1>1. Shape'
  BY DEF PInv, Shape, Proceeds, OnRow, Leaves, Busy, Recorded
<1>2. tick.todo \subseteq Rows BY DEF PInv, TypeOK, Tick
<1>3. OpenUntilRecorded'
  BY <1>2 DEF PInv, Shape, OpenUntilRecorded, Proceeds, OnRow, Leaves, Busy,
              Recorded
<1> QED BY <1>1, <1>3 DEF PInv

\* The tick's own flags of a row.
LEMMA SetFlagEffect ==
  ASSUME PInv, tick.pc = "flag", SetFlag
  PROVE  /\ rows' \in [Rows -> Row]
         /\ \A r \in Rows : /\ rows'[r].status = rows[r].status
                            /\ rows'[r].reason = rows[r].reason
                            /\ r # tick.row => rows'[r] = rows[r]
         /\ tick.kind # "trail" => rows'[tick.row].trail = rows[tick.row].trail
<1>1. tick.row \in Rows /\ tick.kind \in Kinds
  BY DEF PInv, TypeOK, Tick, Shape
<1>2. CASE tick.kind = "trail"
  BY <1>1, <1>2 DEF SetFlag, PInv, TypeOK, Row
<1>3. CASE tick.kind = "tp"
  BY <1>1, <1>3 DEF SetFlag, PInv, TypeOK, Row
<1> QED BY <1>1, <1>2, <1>3 DEF Kinds

LEMMA ReanchorSaveEffect ==
  ASSUME PInv, ReanchorSave
  PROVE  /\ Proceeds /\ rows' \in [Rows -> Row]
         /\ \A r \in Rows : /\ rows'[r].status = rows[r].status
                            /\ rows'[r].reason = rows[r].reason
                            /\ rows'[r].trail = rows[r].trail
         /\ OnRow({"trail"}) /\ tick'.snap[tick.row] = rows'[tick.row]
         /\ \A r \in tick.todo : tick'.snap[r] = tick.snap[r]
<1>1. /\ tick.row \in Rows /\ tick.row \notin tick.todo /\ tick.todo \subseteq Rows
      /\ Local.tp \in BOOLEAN
  BY DEF PInv, TypeOK, Tick, Shape, Local, Row, ReanchorSave
<1>2. /\ rows' \in [Rows -> Row]
      /\ \A r \in Rows : /\ rows'[r].status = rows[r].status
                         /\ rows'[r].reason = rows[r].reason
                         /\ rows'[r].trail = rows[r].trail
  BY <1>1 DEF ReanchorSave, PInv, TypeOK, Row
<1>3. tick' \in Tick
  <2>1. [tick.snap EXCEPT ![tick.row] = rows'[tick.row]] \in [Rows -> Row]
    BY <1>1, <1>2 DEF PInv, TypeOK, Tick
  <2> QED BY <2>1 DEF ReanchorSave, PInv, TypeOK, Tick, Stages
<1>4. OnRow({"trail"}) /\ tick'.snap[tick.row] = rows'[tick.row]
      /\ \A r \in tick.todo : tick'.snap[r] = tick.snap[r]
  BY <1>1, <1>3 DEF ReanchorSave, PInv, TypeOK, Tick, OnRow
<1> QED
  BY <1>2, <1>4, BusyStages DEF ReanchorSave, Proceeds, OnRow

LEMMA CloseRowEffect ==
  ASSUME PInv, NEW r \in Rows, NEW reason \in Reasons, CloseRow(r, reason)
  PROVE  /\ rows' \in [Rows -> Row]
         /\ rows'[r].status = "closed"
         /\ \A s \in Rows : s # r => rows'[s] = rows[s]
<1> DEFINE row == [rows[r] EXCEPT !.status = "closed", !.reason = reason]
<1>1. row \in Row /\ row.status = "closed"
  BY DEF PInv, TypeOK, Row
<1>2. rows' = [rows EXCEPT ![r] = row]
  BY DEF CloseRow, PInv, TypeOK
<1> HIDE DEF row
<1> QED BY <1>1, <1>2 DEF PInv, TypeOK

\* Closing moves the tick out of the stages that need the row open.
LEMMA RecordsKeepPInv ==
  ASSUME PInv, WriteClose \/ Reconcile
  PROVE  PInv'
<1>1. /\ tick.row \in Rows /\ tick.row \notin tick.todo /\ tick.todo \subseteq Rows
      /\ tick.reason \in Reasons /\ "auto_reconciled" \in Reasons
  BY DEF PInv, TypeOK, Tick, Shape, Reasons, WriteClose, Reconcile
<1>2. /\ rows' \in [Rows -> Row] /\ rows'[tick.row].status = "closed"
      /\ \A s \in Rows : s # tick.row => rows'[s] = rows[s]
  BY <1>1, CloseRowEffect DEF WriteClose, Reconcile
<1>3. \/ OnRow({"after"})
      \/ Leaves
  <2>1. "after" \in Stages BY DEF Stages
  <2> QED
    BY <2>1, GotoEffect, DoneEffect DEF PInv, WriteClose, Reconcile
<1>4. TypeOK'
  BY <1>2, <1>3 DEF PInv, TypeOK, OnRow, Leaves, WriteClose, Reconcile
<1>5. Shape'
  BY <1>1, <1>3 DEF PInv, Shape, OnRow, Leaves, WriteClose, Reconcile
<1>6. OpenUntilRecorded'
  BY <1>1, <1>2, <1>3 DEF PInv, OpenUntilRecorded, OnRow, Leaves, Recorded
<1> QED BY <1>4, <1>5, <1>6 DEF PInv

LEMMA TickStartKeepsPInv ==
  ASSUME PInv, TickStart PROVE PInv'
<1>1. OpenRows \subseteq Rows BY DEF OpenRows
<1>2. tick' \in Tick /\ tick'.pc = "next" /\ tick'.todo = OpenRows
  <2>1. tick' \in Tick
    BY <1>1, IdleTickIsTick DEF TickStart, PInv, TypeOK, Tick, Stages
  <2> QED BY <2>1 DEF TickStart, IdleTick
<1>3. TypeOK' BY <1>2 DEF PInv, TypeOK, TickStart
<1> QED
  BY <1>2, <1>3 DEF PInv, Shape, OpenUntilRecorded, OpenRows, TickStart

LEMMA TickRowKeepsPInv ==
  ASSUME PInv, NEW r \in Rows, TickRow(r) PROVE PInv'
<1>1. /\ tick' \in Tick /\ tick'.pc = "reanchor" /\ tick'.row = r
      /\ tick'.todo = tick.todo \ {r}
  BY DEF PInv, TypeOK, Tick, TickRow, Stages
<1>2. TypeOK' BY <1>1 DEF PInv, TypeOK, TickRow
<1> QED
  BY <1>1, <1>2 DEF PInv, Shape, OpenUntilRecorded, Recorded, TickRow

\* The rest of a tick.
LEMMA TickStepKeepsPInv ==
  ASSUME PInv, TickStep \/ SeesFlat PROVE PInv'
<1>0. tick.pc \notin {"idle", "next"} => tick.row \in Rows
  BY DEF PInv, Shape
<1>1. CASE SeesFlat \/ SeesPosition \/ ExitOrStay
  <2>1. Proceeds BY <1>1, ExitProceeds
  <2>2. TypeOK'
    BY <1>1, <2>1
    DEF PInv, TypeOK, Proceeds, OnRow, Leaves, SeesFlat, SeesPosition, ExitOrStay
  <2> QED
    BY <1>1, <2>1, <2>2, ProceedsKeepsPInv DEF SeesFlat, SeesPosition, ExitOrStay
<1>2. CASE ArmTrail \/ ArmTarget \/ ChartBox
  <2>1. Proceeds BY <1>2, ArmsProceed
  <2>2. TypeOK'
    BY <1>2, <2>1
    DEF PInv, TypeOK, Proceeds, OnRow, Leaves, ArmTrail, ArmTarget, ChartBox
  <2> QED
    BY <1>2, <2>1, <2>2, ProceedsKeepsPInv DEF ArmTrail, ArmTarget, ChartBox
<1>3. CASE Reanchor \/ ReanchorCancel
  <2>1. Proceeds BY <1>3, ReanchorProceeds
  <2>2. TypeOK'
    BY <1>0, <1>3, <2>1, RestingTypes
    DEF PInv, TypeOK, Proceeds, OnRow, Leaves, Reanchor, ReanchorCancel, CancelAll
  <2> QED
    BY <1>3, <2>1, <2>2, ProceedsKeepsPInv DEF Reanchor, ReanchorCancel
<1>4. CASE ReanchorSave
  <2>1. TypeOK'
    BY <1>4, ReanchorSaveEffect DEF PInv, TypeOK, ReanchorSave, OnRow
  <2> QED BY <1>4, <2>1, ReanchorSaveEffect, ProceedsKeepsPInv DEF ReanchorSave
<1>5. CASE PlaceOrder
  <2>1. Proceeds
    <3>1. "flag" \in Busy /\ "place" \in Busy BY BusyStages
    <3> QED
      BY <1>5, <3>1, ReturnProceeds, GotoProceeds DEF PlaceOrder, Refused
  <2>2. TypeOK'
    BY <1>0, <1>5, <2>1, RestingTypes
    DEF PInv, TypeOK, Proceeds, OnRow, Leaves, PlaceOrder
  <2> QED BY <1>5, <2>1, <2>2, ProceedsKeepsPInv DEF PlaceOrder
<1>6. CASE FlagOrder
  <2>1. Proceeds BY <1>6, ReturnProceeds DEF FlagOrder
  <2>2. TypeOK'
    BY <1>6, <2>1, SetFlagEffect
    DEF PInv, TypeOK, Proceeds, OnRow, Leaves, FlagOrder
  <2> QED
    BY <1>6, <2>1, <2>2, SetFlagEffect, ProceedsKeepsPInv DEF FlagOrder
<1>7. CASE Recheck \/ ForceClose \/ CheckAgain \/ Flatten \/ Record
  <2>1. Proceeds BY <1>7, CloseProceeds
  <2>2. net' \in (-MaxNet)..MaxNet
    BY <1>7 DEF PInv, TypeOK, Recheck, ForceClose, CheckAgain, CheckBefore,
                Flatten, Record, MayBecome
  <2>3. UNCHANGED <<rows, resting, checked, request, faults, cut, filled>>
    BY <1>7 DEF Recheck, ForceClose, CheckAgain, CheckBefore, Flatten, Record
  <2>4. TypeOK'
    BY <2>1, <2>2, <2>3 DEF PInv, TypeOK, Proceeds, OnRow, Leaves
  <2> QED BY <2>1, <2>3, <2>4, ProceedsKeepsPInv
<1>8. CASE AfterClose \/ ConfirmFlat \/ CancelResting
  <2>1. Proceeds BY <1>8, RecordedProceeds
  <2>2. TypeOK'
    BY <1>8, <2>1, RestingTypes
    DEF PInv, TypeOK, Proceeds, OnRow, Leaves, AfterClose, ConfirmFlat,
        CancelResting, CancelAll
  <2> QED
    BY <1>8, <2>1, <2>2, ProceedsKeepsPInv
    DEF AfterClose, ConfirmFlat, CancelResting
<1> QED
  BY <1>1, <1>2, <1>3, <1>4, <1>5, <1>6, <1>7, <1>8, TickRowKeepsPInv,
     RecordsKeepPInv
  DEF TickStep

-----------------------------------------------------------------------------
(* What goes on around the tick.                                           *)

\* A request that moves on, or answers.
LEMMA RequestMoves ==
  ASSUME PInv, NEW q \in Requests, NEW e \in Request,
         e.pc # "idle" => e.row \in Rows, request' = [request EXCEPT ![q] = e]
  PROVE  /\ request' \in [Requests -> Request]
         /\ \A p \in Requests : request'[p].pc # "idle" => request'[p].row \in Rows
BY DEF PInv, TypeOK, Shape, Requests

LEMMA StepMoves ==
  ASSUME PInv, NEW q \in Requests, NEW r \in Rows,
         NEW pc \in {"cancel", "unflag", "ride", "close"}, Step(q, pc, r)
  PROVE  /\ request' \in [Requests -> Request]
         /\ \A p \in Requests : request'[p].pc # "idle" => request'[p].row \in Rows
<1>1. [pc |-> pc, row |-> r] \in Request BY DEF Request
<1> QED BY <1>1, RequestMoves DEF Step

LEMMA FinishMoves ==
  ASSUME PInv, NEW q \in Requests, Finish(q)
  PROVE  /\ request' \in [Requests -> Request]
         /\ \A p \in Requests : request'[p].pc # "idle" => request'[p].row \in Rows
<1>1. IdleRequest \in Request /\ IdleRequest.pc = "idle"
  BY DEF IdleRequest, Request
<1> QED BY <1>1, RequestMoves DEF Finish

\* A step beside the tick that closes no row and opens none but a new one.
LEMMA BesidesKeepsPInv ==
  ASSUME PInv, TypeOK', tick' = tick,
         \A p \in Requests : request'[p].pc # "idle" => request'[p].row \in Rows,
         \A r \in Rows : rows[r].status # "none" => rows'[r].status = rows[r].status
  PROVE  PInv'
<1>1. tick.todo \subseteq Rows BY DEF PInv, TypeOK, Tick
<1>2. OpenUntilRecorded'
  BY <1>1 DEF PInv, Shape, OpenUntilRecorded
<1> QED BY <1>2 DEF PInv, Shape

\* Let-it-ride changes two flags of a row, never its status or its stop.
LEMMA RideEffect ==
  ASSUME PInv, NEW r \in Rows,
         \/ rows' = [rows EXCEPT ![r].tp = FALSE]
         \/ rows' = [rows EXCEPT ![r].ride = TRUE]
  PROVE  /\ rows' \in [Rows -> Row]
         /\ \A s \in Rows : /\ rows'[s].status = rows[s].status
                            /\ rows'[s].reason = rows[s].reason
                            /\ rows'[s].trail = rows[s].trail
<1> DEFINE row == rows'[r]
<1>1. /\ row \in Row /\ row.trail = rows[r].trail
      /\ row.status = rows[r].status /\ row.reason = rows[r].reason
  <2>1. \/ row = [rows[r] EXCEPT !.tp = FALSE]
        \/ row = [rows[r] EXCEPT !.ride = TRUE]
    BY DEF PInv, TypeOK
  <2>2. rows[r] \in Row BY DEF PInv, TypeOK
  <2> HIDE DEF row
  <2> QED BY <2>1, <2>2 DEF Row
<1>2. rows' = [rows EXCEPT ![r] = row]
  BY DEF PInv, TypeOK
<1> HIDE DEF row
<1> QED BY <1>1, <1>2 DEF PInv, TypeOK

LEMMA RideKeepsPInv ==
  ASSUME PInv, NEW q \in RideRequests,
         RideStep(q) \/ (\E r \in Rows : RideStart(q, r))
  PROVE  PInv'
<1>0. q \in Requests BY DEF Requests
<1>1. ASSUME NEW r \in Rows, RideStart(q, r) PROVE PInv'
  <2>1. TypeOK' /\ \A p \in Requests : request'[p].pc # "idle" => request'[p].row \in Rows
    <3>1. /\ request' \in [Requests -> Request]
          /\ \A p \in Requests : request'[p].pc # "idle" => request'[p].row \in Rows
      <4>1. CASE rows[r].tp BY <1>0, <1>1, <4>1, StepMoves DEF RideStart
      <4>2. CASE ~rows[r].tp BY <1>0, <1>1, <4>2, StepMoves DEF RideStart
      <4> QED BY <4>1, <4>2
    <3> QED BY <1>1, <3>1 DEF PInv, TypeOK, RideStart, Requests
  <2> QED BY <1>1, <2>1, BesidesKeepsPInv DEF RideStart
<1>2. CASE RideStep(q)
  <2>1. request[q].row \in Rows
    BY <1>0, <1>2 DEF PInv, Shape, RideStep, RideCancel, RideUnflag, RideOn
  <2>2. /\ request' \in [Requests -> Request]
        /\ \A p \in Requests : request'[p].pc # "idle" => request'[p].row \in Rows
    BY <1>0, <1>2, <2>1, StepMoves, FinishMoves
    DEF RideStep, RideCancel, RideUnflag, RideOn
  <2>3. /\ rows' \in [Rows -> Row]
        /\ \A s \in Rows : rows'[s].status = rows[s].status
    BY <1>2, <2>1, RideEffect
    DEF RideStep, RideCancel, RideUnflag, RideOn, PInv, TypeOK
  <2>4. resting' \in [Rows -> [Kinds -> 0..MaxResting]]
    BY <1>2, RestingTypes
    DEF RideStep, RideCancel, RideUnflag, RideOn, CancelAll, PInv, TypeOK
  <2>5. UNCHANGED <<net, tick, checked, faults, cut, filled>>
    BY <1>2 DEF RideStep, RideCancel, RideUnflag, RideOn
  <2>6. TypeOK' BY <2>2, <2>3, <2>4, <2>5 DEF PInv, TypeOK, Requests
  <2> QED BY <2>2, <2>3, <2>5, <2>6, BesidesKeepsPInv
<1> QED BY <1>1, <1>2

LEMMA CloseRequestKeepsPInv ==
  ASSUME PInv, NEW q \in CloseRequests,
         CloseClick(q) \/ (\E r \in Rows : CloseStart(q, r))
  PROVE  PInv'
<1>0. q \in Requests BY DEF Requests
<1>1. /\ request' \in [Requests -> Request]
      /\ \A p \in Requests : request'[p].pc # "idle" => request'[p].row \in Rows
  BY <1>0, StepMoves, FinishMoves DEF CloseClick, CloseStart
<1>2. TypeOK'
  BY <1>1 DEF PInv, TypeOK, CloseClick, CloseStart, MayBecome, Requests
<1> QED BY <1>1, <1>2, BesidesKeepsPInv DEF CloseClick, CloseStart

LEMMA EnterEffect ==
  ASSUME PInv, NEW r \in Rows, NEW side \in {-1, 1}, Enter(r, side)
  PROVE  /\ rows' \in [Rows -> Row] /\ rows[r].status = "none"
         /\ rows'[r].status = "open" /\ ~rows'[r].trail
         /\ \A s \in Rows : s # r => rows'[s] = rows[s]
<1> DEFINE row == [NoRow EXCEPT !.status = "open", !.side = side]
<1>1. row \in Row /\ row.status = "open" /\ ~row.trail
  BY NoRowIsRow DEF NoRow, Row
<1>2. rows' = [rows EXCEPT ![r] = row] BY DEF Enter
<1> HIDE DEF row
<1> QED BY <1>1, <1>2 DEF Enter, PInv, TypeOK

\* A fill takes one order of one kind for one row away, and remembers it.
LEMMA FillEffect ==
  ASSUME PInv, NEW r \in Rows, NEW kind \in Kinds, BrokerFills(r, kind)
  PROVE  /\ resting' \in [Rows -> [Kinds -> 0..MaxResting]]
         /\ filled' \subseteq Rows \X Kinds /\ filled \subseteq filled'
         /\ \A s \in Rows : resting'[s].trail = resting[s].trail
                              \/ <<s, "trail">> \in filled'
<1>1. resting[r][kind] \in 0..MaxResting /\ MaxResting \in Nat
  BY Bounds DEF PInv, TypeOK
<1>2. resting[r][kind] - 1 \in 0..MaxResting
  BY <1>1 DEF BrokerFills
<1>3. resting' \in [Rows -> [Kinds -> 0..MaxResting]]
  BY <1>2 DEF BrokerFills, PInv, TypeOK
<1>4. filled' \subseteq Rows \X Kinds /\ filled \subseteq filled'
  BY DEF BrokerFills, PInv, TypeOK
<1>5. ASSUME NEW s \in Rows, <<s, "trail">> \notin filled'
      PROVE  resting'[s]["trail"] = resting[s]["trail"]
  <2>1. s # r \/ kind # "trail" BY <1>5 DEF BrokerFills
  <2> QED BY <2>1 DEF BrokerFills, PInv, TypeOK, Kinds
<1> QED BY <1>3, <1>4, <1>5

LEMMA IdleRequestsAreIdle ==
  /\ IdleRequests \in [Requests -> Request]
  /\ \A p \in Requests : IdleRequests[p].pc = "idle"
BY DEF IdleRequests, IdleRequest, Request, Requests

LEMMA FaultsKeepPInv ==
  ASSUME PInv, TickFails \/ Restart PROVE PInv'
<1>1. tick' = IdleTick /\ IdleTick \in Tick /\ tick'.pc = "idle" /\ tick'.todo = {}
  BY IdleTickIsTick DEF TickFails, Restart, IdleTick
<1>2. rows' \in [Rows -> Row]
  BY SetFlagEffect DEF TickFails, Restart, PInv, TypeOK
<1>3. faults' \in 0..MaxFaults
  BY Bounds DEF TickFails, Restart, PInv, TypeOK
<1>4. /\ request' \in [Requests -> Request]
      /\ \A p \in Requests : request'[p].pc # "idle" => request'[p].row \in Rows
  BY IdleRequestsAreIdle DEF TickFails, Restart, PInv, TypeOK, Shape, Requests
<1>5. cut' \in BOOLEAN /\ checked' \subseteq Rows /\ filled' = filled
      /\ UNCHANGED <<net, resting>>
  <2>1. CASE TickFails BY <2>1 DEF TickFails, PInv, TypeOK
  <2>2. CASE Restart
    <3>1. cut' \in BOOLEAN BY <2>2, Zenon DEF Restart, PInv, TypeOK
    <3> QED BY <2>2, <3>1 DEF Restart, PInv, TypeOK
  <2> QED BY <2>1, <2>2
<1>6. TypeOK'
  BY <1>1, <1>2, <1>3, <1>4, <1>5 DEF PInv, TypeOK, Requests
<1> QED
  BY <1>1, <1>4, <1>6 DEF PInv, Shape, OpenUntilRecorded

LEMMA SurroundingsKeepPInv ==
  ASSUME PInv, Surroundings PROVE PInv'
<1>0. \A p \in Requests : request[p].pc # "idle" => request[p].row \in Rows
  BY DEF PInv, Shape
<1>1. ASSUME NEW r \in Rows, NEW side \in {-1, 1}, Enter(r, side) PROVE PInv'
  <2>1. TypeOK' BY <1>1, EnterEffect DEF PInv, TypeOK, Enter
  <2> QED BY <1>0, <1>1, <2>1, EnterEffect, BesidesKeepsPInv DEF Enter
<1>2. ASSUME NEW r \in Rows, NEW kind \in Kinds, BrokerFills(r, kind) PROVE PInv'
  <2>1. TypeOK' BY <1>2, FillEffect DEF PInv, TypeOK, BrokerFills
  <2> QED BY <1>0, <1>2, <2>1, BesidesKeepsPInv DEF BrokerFills
<1>3. ASSUME NEW q \in Requests, RequestFails(q) PROVE PInv'
  <2>1. faults' \in 0..MaxFaults BY <1>3, Bounds DEF RequestFails, PInv, TypeOK
  <2>2. TypeOK'
    BY <1>3, <2>1, FinishMoves DEF RequestFails, PInv, TypeOK, Requests
  <2> QED BY <1>3, <2>2, FinishMoves, BesidesKeepsPInv DEF RequestFails
<1>4. CASE ClosedOutOfBand
  <2>1. TypeOK' BY <1>4, Bounds DEF ClosedOutOfBand, PInv, TypeOK
  <2> QED BY <1>0, <1>4, <2>1, BesidesKeepsPInv DEF ClosedOutOfBand
<1> QED
  BY <1>1, <1>2, <1>3, <1>4, FaultsKeepPInv DEF Surroundings, Requests

LEMMA PInvNext ==
  ASSUME PInv, [Next]_vars PROVE PInv'
<1>1. CASE UNCHANGED vars
  BY <1>1 DEF vars, PInv, TypeOK, Shape, OpenUntilRecorded
<1> QED
  BY <1>1, TickStartKeepsPInv, TickStepKeepsPInv, RideKeepsPInv,
     CloseRequestKeepsPInv, SurroundingsKeepPInv
  DEF Next

LEMMA PInvInit == Init => PInv
<1> SUFFICES ASSUME Init PROVE PInv
  OBVIOUS
<1>1. TypeOK
  <2>1. /\ rows \in [Rows -> Row] /\ tick \in Tick
        /\ resting \in [Rows -> [Kinds -> 0..MaxResting]]
        /\ request \in [Requests -> Request]
    <3>1. NothingResting \in [Rows -> [Kinds -> 0..MaxResting]]
      BY Bounds DEF NothingResting
    <3> QED
      BY <3>1, NoRowIsRow, IdleTickIsTick, IdleRequestsAreIdle DEF Init
  <2>2. 0 \in (-MaxNet)..MaxNet /\ 0 \in 0..MaxFaults BY Bounds
  <2> QED BY <2>1, <2>2 DEF Init, TypeOK, Requests
<1>2. tick.pc = "idle" /\ tick.todo = {} BY DEF Init, IdleTick
<1> QED
  BY <1>1, <1>2, IdleRequestsAreIdle DEF Init, PInv, Shape, OpenUntilRecorded

\* The model stays within its types.
THEOREM PositionTypeCorrect == Spec => []TypeOK
<1>1. PInv => TypeOK BY DEF PInv
<1> QED BY <1>1, PInvInit, PInvNext, PTL DEF Spec

-----------------------------------------------------------------------------
(* A close is recorded once.                                               *)

LEMMA NextClosesOnce ==
  ASSUME PInv, [Next]_vars, NEW r \in Rows, rows[r].status = "closed"
  PROVE  rows'[r].status = "closed" /\ rows'[r].reason = rows[r].reason
<1>1. CASE UNCHANGED rows
  BY <1>1
<1>2. CASE ReanchorSave
  BY <1>2, ReanchorSaveEffect
<1>3. CASE tick.pc = "flag" /\ SetFlag
  BY <1>3, SetFlagEffect
<1>4. CASE WriteClose \/ Reconcile
  <2>1. /\ tick.row \in Rows /\ rows[tick.row].status = "open"
        /\ tick.reason \in Reasons /\ "auto_reconciled" \in Reasons
    BY <1>4 DEF WriteClose, Reconcile, PInv, TypeOK, Tick, Shape,
                OpenUntilRecorded, Recorded, Reasons
  <2> QED BY <1>4, <2>1, CloseRowEffect DEF WriteClose, Reconcile
<1>5. ASSUME NEW q \in RideRequests, RideUnflag(q) \/ RideOn(q)
      PROVE  rows'[r].status = "closed" /\ rows'[r].reason = rows[r].reason
  <2>1. request[q].row \in Rows
    BY <1>5 DEF PInv, Shape, Requests, RideUnflag, RideOn
  <2> QED BY <1>5, <2>1, RideEffect DEF RideUnflag, RideOn
<1>6. ASSUME NEW s \in Rows, NEW side \in {-1, 1}, Enter(s, side)
      PROVE  rows'[r].status = "closed" /\ rows'[r].reason = rows[r].reason
  BY <1>6, EnterEffect
<1>7. CASE UNCHANGED vars
  BY <1>7 DEF vars
<1>8. CASE TickStart \/ TickStep \/ SeesFlat
  BY <1>1, <1>2, <1>3, <1>4, <1>8
  DEF TickStart, TickStep, TickRow, Reanchor, ReanchorCancel, ArmTrail, ArmTarget,
      PlaceOrder, FlagOrder, SeesFlat, SeesPosition, ChartBox, ExitOrStay, Recheck,
      CheckAgain, CheckBefore, ForceClose, Flatten, Record, AfterClose,
      ConfirmFlat, CancelResting
<1>9. CASE Surroundings
  BY <1>1, <1>3, <1>6, <1>9
  DEF Surroundings, BrokerFills, RequestFails, ClosedOutOfBand, TickFails, Restart
<1>10. CASE \/ \E q \in RideRequests : RideStep(q) \/ (\E s \in Rows : RideStart(q, s))
            \/ \E q \in CloseRequests :
                 CloseClick(q) \/ (\E s \in Rows : CloseStart(q, s))
  BY <1>1, <1>5, <1>10 DEF RideStep, RideStart, RideCancel, CloseClick, CloseStart
<1> QED BY <1>7, <1>8, <1>9, <1>10 DEF Next

\* How a trade ended is written once, for every number of rows and requests.
THEOREM CloseIsFinal == Spec => ClosedOnce
<1>1. PInv /\ [Next]_vars =>
        [\A r \in Rows : rows[r].status = "closed" =>
           rows'[r].status = "closed" /\ rows'[r].reason = rows[r].reason]_vars
  BY NextClosesOnce
<1> QED BY <1>1, PInvInit, PInvNext, PTL DEF Spec, ClosedOnce

-----------------------------------------------------------------------------
(* The stop of an open row is kept, where nobody lets a trade ride.        *)

\* r's trailing stop is at the broker, or has been filled there.
Covered(r) == resting[r].trail > 0 \/ <<r, "trail">> \in filled

NobodyLosesCover == \A r \in Rows : Covered(r) => Covered(r)'

\* A step that writes no row, costs no row its order, and leaves the tick
\* where nothing is about to be clicked.
LEMMA QuietKeepsSInv ==
  ASSUME PInv, SInv, rows' = rows, NobodyLosesCover,
         \/ tick' = tick
         \/ tick.pc \notin {"idle", "next"} /\ Leaves
         \/ /\ tick.pc \notin {"idle", "next"} /\ tick'.snap = tick.snap
            /\ OnRow(Stages \ {"idle", "next", "place", "flag", "recancel",
                               "confirm", "cancel"})
  PROVE  SInv'
<1>1. StopEnforced'
  BY DEF SInv, StopEnforced, NobodyLosesCover, Covered
<1>2. SnapshotKnowsTrail'
  BY DEF SInv, SnapshotKnowsTrail, Leaves, OnRow, Local
<1>3. PlacingTrail'
  BY DEF PInv, Shape, SInv, PlacingTrail, NobodyLosesCover, Covered, Leaves, OnRow
<1>4. NothingToLose'
  BY DEF SInv, NothingToLose, Leaves, OnRow
<1> QED BY <1>1, <1>2, <1>3, <1>4 DEF SInv

LEMMA SameOrders ==
  ASSUME UNCHANGED <<resting, filled>> PROVE NobodyLosesCover
BY DEF NobodyLosesCover, Covered

LEMMA QuietGoto ==
  ASSUME PInv, SInv, UNCHANGED <<rows, resting, filled>>,
         tick.pc \notin {"idle", "next"},
         \/ DoneWithRow
         \/ \E stage \in {"reanchor", "save", "trail", "tp", "flat", "box", "exit",
                          "recheck", "close", "again", "flatten", "record",
                          "write", "after", "reconcile"} : Goto(stage)
         \/ \E reason \in Reasons : CloseAs(reason)
  PROVE  SInv'
<1>1. CASE DoneWithRow
  BY <1>1, DoneEffect, SameOrders, QuietKeepsSInv
<1>2. ASSUME NEW stage \in {"reanchor", "save", "trail", "tp", "flat", "box", "exit",
                            "recheck", "close", "again", "flatten", "record",
                            "write", "after", "reconcile"}, Goto(stage)
      PROVE  SInv'
  <2>1. stage \in Stages BY DEF Stages
  <2> QED
    BY <1>2, <2>1, GotoEffect, SameOrders, QuietKeepsSInv DEF PInv, OnRow
<1>3. ASSUME NEW reason \in Reasons, CloseAs(reason) PROVE SInv'
  BY <1>3, CloseAsEffect, SameOrders, QuietKeepsSInv DEF PInv, OnRow, Stages
<1> QED BY <1>1, <1>2, <1>3

\* The trailing stop is placed only where the snapshot shows none.
LEMMA PlaceKeepsSInv ==
  ASSUME PInv, SInv, UNCHANGED <<rows, resting, filled>>,
         tick.pc \notin {"idle", "next"}, NEW kind \in Kinds,
         NEW back \in {"tp", "flat", "exit"}, Place(kind, back),
         kind = "trail" => ~Local.trail
  PROVE  SInv'
<1>1. OnRow({"place"}) /\ tick'.snap = tick.snap /\ tick'.kind = kind
  BY PlaceEffect DEF PInv
<1>2. tick.row \in Rows BY DEF PInv, Shape
<1>3. StopEnforced' BY DEF SInv, StopEnforced
<1>4. SnapshotKnowsTrail'
  BY <1>1 DEF SInv, SnapshotKnowsTrail, OnRow, Local
<1>5. PlacingTrail'
  BY <1>1 DEF SInv, PlacingTrail, SnapshotKnowsTrail, OnRow
<1>6. NothingToLose' BY <1>1 DEF NothingToLose, OnRow
<1> QED BY <1>3, <1>4, <1>5, <1>6 DEF SInv

\* With no other row open and none of its own, there is no stop to cancel.
LEMMA ReanchorKeepsSInv ==
  ASSUME PInv, SInv, Reanchor PROVE SInv'
<1>0. /\ UNCHANGED <<rows, resting, filled>> /\ tick.row \in Rows
      /\ tick.pc = "reanchor" /\ tick.row \notin tick.todo /\ tick.todo \subseteq Rows
  BY DEF Reanchor, PInv, Shape, TypeOK, Tick
<1>1. CASE Goto("trail") \/ Goto("save")
  BY <1>0, <1>1, QuietGoto
<1>2. CASE tick' = [tick EXCEPT !.pc = "trail", !.snap[tick.row] = rows[tick.row]]
  <2>1. /\ tick'.pc = "trail" /\ tick'.row = tick.row /\ tick'.todo = tick.todo
        /\ tick'.snap = [tick.snap EXCEPT ![tick.row] = rows[tick.row]]
    BY <1>2 DEF PInv, TypeOK, Tick
  <2>2. SnapshotKnowsTrail'
    BY <1>0, <2>1 DEF SInv, SnapshotKnowsTrail, Local, PInv, TypeOK, Tick
  <2> QED
    BY <1>0, <2>1, <2>2
    DEF SInv, StopEnforced, PlacingTrail, NothingToLose
<1>3. CASE Goto("recancel") /\ MovesOrder /\ ~OtherOpen
  <2>1. OnRow({"recancel"}) /\ tick'.snap = tick.snap /\ tick'.kind = tick.kind
    <3>1. "recancel" \in Stages BY DEF Stages
    <3> QED BY <1>3, <3>1, GotoEffect DEF PInv
  <2>2. ~rows[tick.row].trail
    BY <1>0, <1>3 DEF SInv, SnapshotKnowsTrail, MovesOrder
  <2>3. \A r \in Rows : rows[r].status = "open" => r = tick.row
    BY <1>3 DEF OtherOpen, OpenRows
  <2>4. SnapshotKnowsTrail'
    BY <1>0, <2>1 DEF SInv, SnapshotKnowsTrail, OnRow, Local
  <2> QED
    BY <1>0, <2>1, <2>2, <2>3, <2>4
    DEF SInv, StopEnforced, PlacingTrail, NothingToLose, OnRow
<1> QED BY <1>1, <1>2, <1>3 DEF Reanchor

\* "Cancel Orders", where no open row relies on a stop.
LEMMA CancelKeepsSInv ==
  ASSUME PInv, SInv, tick.pc \in {"recancel", "cancel"}, rows' = rows,
         tick'.pc \notin {"flag", "recancel", "confirm", "cancel"},
         tick'.pc = "place" => tick'.kind = "tp",
         SnapshotKnowsTrail'
  PROVE  SInv'
<1>1. StopEnforced'
  BY DEF SInv, NothingToLose, StopEnforced
<1>2. PlacingTrail' BY DEF PlacingTrail
<1>3. NothingToLose' BY DEF NothingToLose
<1> QED BY <1>1, <1>2, <1>3 DEF SInv

LEMMA CancelsKeepSInv ==
  ASSUME PInv, SInv, ReanchorCancel \/ CancelResting PROVE SInv'
<1>1. CASE ReanchorCancel
  <2>1. CASE Goto("save") /\ UNCHANGED resting
    BY <1>1, <2>1, QuietGoto DEF ReanchorCancel
  <2>2. CASE tick' = [tick EXCEPT !.pc = "place", !.kind = "tp", !.back = "save"]
    <3>1. /\ tick'.pc = "place" /\ tick'.kind = "tp" /\ tick'.row = tick.row
          /\ tick'.todo = tick.todo /\ tick'.snap = tick.snap
      BY <2>2 DEF PInv, TypeOK, Tick
    <3>2. SnapshotKnowsTrail'
      BY <1>1, <3>1 DEF ReanchorCancel, SInv, SnapshotKnowsTrail, Local
    <3> QED BY <1>1, <3>1, <3>2, CancelKeepsSInv DEF ReanchorCancel
  <2> QED BY <1>1, <2>1, <2>2 DEF ReanchorCancel
<1>2. CASE CancelResting
  <2>1. Leaves BY <1>2, DoneEffect DEF CancelResting
  <2>2. SnapshotKnowsTrail'
    BY <1>2, <2>1 DEF CancelResting, SInv, SnapshotKnowsTrail, Leaves
  <2> QED BY <1>2, <2>1, <2>2, CancelKeepsSInv DEF CancelResting, Leaves
<1> QED BY <1>1, <1>2

LEMMA ReanchorSaveKeepsSInv ==
  ASSUME PInv, SInv, ReanchorSave PROVE SInv'
<1>1. /\ tick.row \in Rows /\ tick.todo \subseteq Rows
      /\ UNCHANGED <<resting, filled>>
  BY DEF PInv, Shape, TypeOK, Tick, ReanchorSave
<1>2. StopEnforced'
  BY <1>1, ReanchorSaveEffect DEF SInv, StopEnforced
<1>3. SnapshotKnowsTrail'
  BY <1>1, ReanchorSaveEffect DEF SInv, SnapshotKnowsTrail, OnRow, Local
<1>4. PlacingTrail' /\ NothingToLose'
  BY ReanchorSaveEffect DEF PlacingTrail, NothingToLose, OnRow
<1> QED BY <1>2, <1>3, <1>4 DEF SInv

LEMMA RefusedKeepsSInv ==
  ASSUME PInv, SInv, PlaceOrder, Refused, UNCHANGED resting PROVE SInv'
<1>1. /\ tick.row \in Rows /\ tick.pc = "place" /\ tick.todo \subseteq Rows
      /\ tick.row \notin tick.todo /\ UNCHANGED <<rows, filled>>
  BY DEF PlaceOrder, PInv, Shape, TypeOK, Tick
<1>2. /\ OnRow({"tp", "flat", "exit", "save"})
      /\ \A r \in Rows : r # tick.row => tick'.snap[r] = tick.snap[r]
      /\ tick'.snap[tick.row].trail =
           (IF tick.kind = "trail" THEN FALSE ELSE Local.trail)
  BY <1>1, ReturnEffect DEF Refused
<1>3. SnapshotKnowsTrail'
  BY <1>1, <1>2 DEF SInv, SnapshotKnowsTrail, PlacingTrail, OnRow, Local
<1> QED
  BY <1>1, <1>2, <1>3
  DEF SInv, StopEnforced, PlacingTrail, NothingToLose, OnRow

LEMMA ClickKeepsSInv ==
  ASSUME PInv, SInv, PlaceOrder, Goto("flag"),
         resting' = [resting EXCEPT ![tick.row][tick.kind] = @ + 1]
  PROVE  SInv'
<1>1. /\ tick.row \in Rows /\ tick.pc = "place" /\ tick.kind \in Kinds
      /\ UNCHANGED <<rows, filled>>
  BY DEF PlaceOrder, PInv, Shape, TypeOK, Tick
<1>2. OnRow({"flag"}) /\ tick'.snap = tick.snap /\ tick'.kind = tick.kind
  <2>1. "flag" \in Stages BY DEF Stages
  <2> QED BY <2>1, GotoEffect DEF PInv
<1>3. \A r \in Rows : resting[r]["trail"] \in Nat
  <2>1. \A r \in Rows : resting[r]["trail"] \in 0..MaxResting
    BY DEF PInv, TypeOK, Kinds
  <2> QED BY <2>1, Bounds
<1>4. /\ \A r \in Rows : resting'[r]["trail"] >= resting[r]["trail"]
      /\ tick.kind = "trail" =>
           resting'[tick.row]["trail"] = resting[tick.row]["trail"] + 1
  BY <1>1, <1>3 DEF PInv, TypeOK, Kinds
<1>5. \A r \in Rows : resting[r].trail > 0 => resting'[r].trail > 0
  BY <1>3, <1>4
<1>6. tick.kind = "trail" => resting'[tick.row].trail > 0
  BY <1>1, <1>3, <1>4
<1>7. StopEnforced' BY <1>1, <1>5 DEF SInv, StopEnforced
<1>8. SnapshotKnowsTrail'
  BY <1>1, <1>2 DEF SInv, SnapshotKnowsTrail, OnRow, Local
<1>9. PlacingTrail'
  BY <1>1, <1>2, <1>6 DEF SInv, PlacingTrail, OnRow
<1>10. NothingToLose' BY <1>2 DEF NothingToLose, OnRow
<1> QED BY <1>7, <1>8, <1>9, <1>10 DEF SInv

\* The flag is written last, with the order at the broker.
LEMMA FlagKeepsStop ==
  ASSUME PInv, SInv, tick.pc = "flag", SetFlag, UNCHANGED <<resting, filled>>
  PROVE  StopEnforced'
<1>1. tick.row \in Rows BY DEF PInv, Shape
<1> QED BY <1>1, SetFlagEffect DEF SInv, StopEnforced, PlacingTrail

LEMMA FlagOrderKeepsSInv ==
  ASSUME PInv, SInv, FlagOrder PROVE SInv'
<1>1. /\ tick.row \in Rows /\ tick.pc = "flag" /\ tick.todo \subseteq Rows
      /\ tick.row \notin tick.todo
  BY DEF FlagOrder, PInv, Shape, TypeOK, Tick
<1>2. /\ OnRow({"tp", "flat", "exit", "save"})
      /\ \A r \in Rows : r # tick.row => tick'.snap[r] = tick.snap[r]
      /\ tick'.snap[tick.row].trail =
           (IF tick.kind = "trail" THEN TRUE ELSE Local.trail)
  BY <1>1, ReturnEffect DEF FlagOrder
<1>3. SnapshotKnowsTrail'
  BY <1>1, <1>2, SetFlagEffect
  DEF FlagOrder, SInv, SnapshotKnowsTrail, OnRow, Local
<1>4. StopEnforced' BY <1>1, FlagKeepsStop DEF FlagOrder
<1> QED
  BY <1>2, <1>3, <1>4 DEF SInv, PlacingTrail, NothingToLose, OnRow

LEMMA RecordsKeepSInv ==
  ASSUME PInv, SInv, WriteClose \/ Reconcile PROVE SInv'
<1>1. /\ tick.row \in Rows /\ tick.todo \subseteq Rows /\ tick.row \notin tick.todo
      /\ tick.reason \in Reasons /\ "auto_reconciled" \in Reasons
      /\ UNCHANGED <<resting, filled>> /\ tick.pc \notin {"idle", "next"}
  BY DEF PInv, TypeOK, Tick, Shape, Reasons, WriteClose, Reconcile
<1>2. /\ rows'[tick.row].status = "closed"
      /\ \A s \in Rows : s # tick.row => rows'[s] = rows[s]
  BY <1>1, CloseRowEffect DEF WriteClose, Reconcile
<1>3. rows'[tick.row].trail = rows[tick.row].trail
  BY <1>1 DEF WriteClose, Reconcile, CloseRow, PInv, TypeOK, Row
<1>4. \/ OnRow({"after"}) /\ tick'.snap = tick.snap
      \/ Leaves
  <2>1. "after" \in Stages BY DEF Stages
  <2> QED BY <2>1, GotoEffect, DoneEffect DEF PInv, WriteClose, Reconcile
<1>5. StopEnforced' BY <1>1, <1>2 DEF SInv, StopEnforced
<1>6. SnapshotKnowsTrail'
  BY <1>1, <1>2, <1>3, <1>4 DEF SInv, SnapshotKnowsTrail, OnRow, Leaves, Local
<1>7. PlacingTrail' /\ NothingToLose'
  BY <1>4 DEF PlacingTrail, NothingToLose, OnRow, Leaves
<1> QED BY <1>5, <1>6, <1>7 DEF SInv

\* After a close the orders are cancelled only with no row open; one that is
\* entered between the look and the click has no stop yet.
LEMMA LookBeforeCancelKeepsSInv ==
  ASSUME PInv, SInv, AfterClose \/ ConfirmFlat PROVE SInv'
<1>1. /\ UNCHANGED <<rows, resting, filled>> /\ tick.pc \notin {"idle", "next"}
  BY DEF AfterClose, ConfirmFlat
<1>2. CASE DoneWithRow
  BY <1>1, <1>2, QuietGoto
<1>3. ASSUME NEW stage \in {"confirm", "cancel"}, Goto(stage),
             \A r \in Rows : rows[r].status = "open" => ~rows[r].trail
      PROVE  SInv'
  <2>1. OnRow({stage}) /\ tick'.snap = tick.snap
    <3>1. stage \in Stages BY DEF Stages
    <3> QED BY <1>3, <3>1, GotoEffect DEF PInv
  <2>2. SnapshotKnowsTrail'
    BY <1>1, <2>1 DEF SInv, SnapshotKnowsTrail, OnRow, Local
  <2> QED
    BY <1>1, <1>3, <2>1, <2>2
    DEF SInv, StopEnforced, PlacingTrail, NothingToLose, OnRow
<1>4. CASE AfterClose /\ ~OtherOpen
  <2>1. \A r \in Rows : rows[r].status # "open"
    BY <1>4 DEF AfterClose, OtherOpen, OpenRows, PInv, OpenUntilRecorded, Recorded
  <2> QED BY <1>3, <1>4, <2>1 DEF AfterClose
<1>5. CASE ConfirmFlat
  <2>1. \A r \in Rows : rows[r].status = "open" => ~rows[r].trail
    BY <1>5 DEF ConfirmFlat, SInv, NothingToLose
  <2> QED BY <1>2, <1>3, <1>5, <2>1 DEF ConfirmFlat
<1> QED BY <1>2, <1>4, <1>5 DEF AfterClose

LEMMA TickStepKeepsSInv ==
  ASSUME PInv, SInv, TickStart \/ TickStep \/ SeesFlat PROVE SInv'
<1>1. CASE TickStart
  <2>1. /\ tick'.pc = "next" /\ tick'.snap = rows /\ UNCHANGED <<rows, resting, filled>>
    BY <1>1 DEF TickStart, IdleTick
  <2> QED
    BY <2>1 DEF SInv, SnapshotKnowsTrail, PlacingTrail, NothingToLose, StopEnforced
<1>2. ASSUME NEW r \in Rows, TickRow(r) PROVE SInv'
  <2>1. /\ tick'.pc = "reanchor" /\ tick'.row = r /\ tick'.todo = tick.todo \ {r}
        /\ tick'.snap = tick.snap /\ r \in tick.todo
        /\ UNCHANGED <<rows, resting, filled>>
    BY <1>2 DEF PInv, TypeOK, Tick, TickRow
  <2> QED
    BY <2>1 DEF SInv, SnapshotKnowsTrail, PlacingTrail, NothingToLose,
                StopEnforced, Local
<1>3. CASE SeesFlat \/ SeesPosition
  BY <1>3, QuietGoto DEF SeesFlat, FlatMeansClose, SeesPosition, Reasons
<1>4. CASE ArmTrail \/ ArmTarget
  <2>1. ASSUME NEW stage \in {"tp", "flat"}, Goto(stage) PROVE SInv'
    BY <1>4, <2>1, QuietGoto DEF ArmTrail, ArmTarget
  <2>2. ASSUME ~Local.trail, Place("trail", "tp") PROVE SInv'
    BY <1>4, <2>2, PlaceKeepsSInv DEF ArmTrail, ArmTarget, Kinds
  <2>3. ASSUME Place("tp", "flat") PROVE SInv'
    BY <1>4, <2>3, PlaceKeepsSInv DEF ArmTrail, ArmTarget, Kinds
  <2> QED BY <1>4, <2>1, <2>2, <2>3 DEF ArmTrail, ArmTarget
<1>5. CASE ChartBox
  <2>1. CASE Goto("exit") BY <1>5, <2>1, QuietGoto DEF ChartBox
  <2>2. CASE tick' = [tick EXCEPT !.pc = "exit", !.red = TRUE]
    <3>1. OnRow({"exit"}) /\ tick'.snap = tick.snap
      BY <2>2 DEF PInv, TypeOK, Tick, OnRow, Stages
    <3> QED
      BY <1>5, <3>1, SameOrders, QuietKeepsSInv DEF ChartBox, OnRow, Stages
  <2>3. CASE ~Local.trail /\ Place("trail", "exit")
    BY <1>5, <2>3, PlaceKeepsSInv DEF ChartBox, Kinds
  <2> QED BY <1>5, <2>1, <2>2, <2>3 DEF ChartBox
<1>6. CASE ExitOrStay
  <2>1. CASE DoneWithRow BY <1>6, <2>1, QuietGoto DEF ExitOrStay
  <2>2. ASSUME NEW reason \in Reasons,
               tick' = [tick EXCEPT !.pc = "recheck", !.reason = reason]
        PROVE  SInv'
    <3>1. OnRow({"recheck"}) /\ tick'.snap = tick.snap
      BY <2>2 DEF PInv, TypeOK, Tick, OnRow, Stages
    <3> QED
      BY <1>6, <3>1, SameOrders, QuietKeepsSInv DEF ExitOrStay, OnRow, Stages
  <2> QED BY <1>6, <2>1, <2>2 DEF ExitOrStay, Reasons
<1>7. CASE Recheck \/ ForceClose \/ CheckAgain \/ Flatten \/ Record
  BY <1>7, QuietGoto
  DEF Recheck, ForceClose, CheckAgain, CheckBefore, Flatten, Record
<1>8. CASE PlaceOrder
  BY <1>8, RefusedKeepsSInv, ClickKeepsSInv DEF PlaceOrder
<1> QED
  BY <1>1, <1>2, <1>3, <1>4, <1>5, <1>6, <1>7, <1>8, ReanchorKeepsSInv,
     CancelsKeepSInv, ReanchorSaveKeepsSInv, FlagOrderKeepsSInv,
     RecordsKeepSInv, LookBeforeCancelKeepsSInv
  DEF TickStep

LEMMA SurroundingsKeepSInv ==
  ASSUME PInv, SInv, Surroundings PROVE SInv'
<1>1. ASSUME NEW r \in Rows, NEW side \in {-1, 1}, Enter(r, side) PROVE SInv'
  <2>1. /\ r \notin tick.todo /\ tick.todo \subseteq Rows
        /\ tick.pc \notin {"idle", "next"} => tick.row \in Rows /\ tick.row # r
        /\ UNCHANGED <<resting, tick, filled>>
    BY <1>1, EnterEffect
    DEF Enter, PInv, TypeOK, Tick, Shape, OpenUntilRecorded
  <2>2. StopEnforced' BY <1>1, <2>1, EnterEffect DEF SInv, StopEnforced
  <2>3. SnapshotKnowsTrail'
    BY <1>1, <2>1, EnterEffect DEF SInv, SnapshotKnowsTrail, Local
  <2>4. PlacingTrail' BY <1>1, <2>1, EnterEffect DEF SInv, PlacingTrail
  <2>5. NothingToLose' BY <1>1, <2>1, EnterEffect DEF SInv, NothingToLose
  <2> QED BY <2>2, <2>3, <2>4, <2>5 DEF SInv
<1>2. ASSUME NEW r \in Rows, NEW kind \in Kinds, BrokerFills(r, kind) PROVE SInv'
  <2>1. NobodyLosesCover
    BY <1>2, FillEffect DEF NobodyLosesCover, Covered
  <2> QED BY <1>2, <2>1, QuietKeepsSInv DEF BrokerFills
<1>3. ASSUME NEW q \in RideRequests \cup CloseRequests, RequestFails(q) PROVE SInv'
  BY <1>3, SameOrders, QuietKeepsSInv DEF RequestFails
<1>4. CASE ClosedOutOfBand
  BY <1>4, SameOrders, QuietKeepsSInv DEF ClosedOutOfBand
<1>5. CASE TickFails \/ Restart
  <2>1. tick'.pc = "idle" /\ tick'.todo = {}
    BY <1>5 DEF TickFails, Restart, IdleTick
  <2>2. StopEnforced'
    <3>1. CASE UNCHANGED rows
      BY <1>5, <3>1 DEF TickFails, Restart, SInv, StopEnforced
    <3>2. CASE tick.pc = "flag" /\ SetFlag /\ TickFails
      BY <3>2, FlagKeepsStop DEF TickFails
    <3> QED BY <1>5, <3>1, <3>2 DEF TickFails, Restart
  <2> QED
    BY <2>1, <2>2 DEF SInv, SnapshotKnowsTrail, PlacingTrail, NothingToLose
<1> QED BY <1>1, <1>2, <1>3, <1>4, <1>5 DEF Surroundings

LEMMA SInvNext ==
  ASSUME RideRequests = {}, PInv, SInv, [Next]_vars PROVE SInv'
<1>1. CASE UNCHANGED vars
  BY <1>1, SameOrders, QuietKeepsSInv DEF vars
<1>2. ASSUME NEW q \in CloseRequests,
             CloseClick(q) \/ (\E r \in Rows : CloseStart(q, r))
      PROVE  SInv'
  BY <1>2, SameOrders, QuietKeepsSInv DEF CloseClick, CloseStart
<1> QED
  BY <1>1, <1>2, TickStepKeepsSInv, SurroundingsKeepSInv DEF Next

\* Where nobody lets a trade ride, an open row that has stopped looking at its
\* own stop has a trailing stop at the broker, or had it filled: however many
\* rows share the symbol, requests and fills come between the awaits of a tick,
\* and ticks and processes fail.
THEOREM StopIsEnforced == RideRequests = {} => (Spec => []StopEnforced)
<1> SUFFICES ASSUME RideRequests = {} PROVE Spec => []StopEnforced
  OBVIOUS
<1>1. Init => SInv
  <2> SUFFICES ASSUME Init PROVE SInv
    OBVIOUS
  <2>1. tick.pc = "idle" /\ tick.todo = {} BY DEF Init, IdleTick
  <2>2. StopEnforced BY DEF Init, NoRow, StopEnforced
  <2> QED
    BY <2>1, <2>2 DEF SInv, SnapshotKnowsTrail, PlacingTrail, NothingToLose
<1>2. PInv /\ SInv /\ [Next]_vars => SInv' BY SInvNext
<1>3. SInv => StopEnforced BY DEF SInv
<1> QED BY <1>1, <1>2, <1>3, PInvInit, PInvNext, PTL DEF Spec

=============================================================================
