----------------------------- MODULE LivePosition -----------------------------
(***************************************************************************)
(* How an open live position is looked after, for one symbol.  On every    *)
(* price tick the engine reads the open trade rows and takes each through  *)
(* manageLiveOpenTrade: it moves the bracket to the real entry (once),     *)
(* rests a trailing stop and a take-profit at the broker, notices that the *)
(* position is gone, or closes it when its own stop or target is crossed.  *)
(* The price watcher is one loop, so ticks do not overlap each other; what *)
(* does run between any two awaits of a tick is the broker, filling the    *)
(* resting orders, the operator on the trading platform, and API requests  *)
(* (close, let it ride), each with a broker instance of its own.           *)
(*                                                                         *)
(* Prices are data: whether a level is crossed is a nondeterministic       *)
(* choice, wherever the code still looks at it.  Quantities are one        *)
(* contract per row.  A read of the broker's position may come back        *)
(* unreadable at any time, which the code treats like "not flat"; a click  *)
(* may be refused, or be accepted and then dropped by the broker.          *)
(***************************************************************************)
EXTENDS Integers, FiniteSets

CONSTANTS
  Rows,           \* bound: the trade rows ever opened on the symbol
  None,           \* no row
  RideRequests,   \* concurrent let-it-ride requests
  CloseRequests,  \* concurrent close requests
  MaxNet,         \* bound: contracts held, either way
  MaxResting,     \* bound: resting orders of one kind for one row
  MaxFaults       \* bound: failed queries and restarts

ASSUME RowsAreRows == None \notin Rows
ASSUME RequestsAreDistinct == RideRequests \cap CloseRequests = {}
ASSUME Bounds == MaxNet \in Nat /\ MaxResting \in Nat /\ MaxFaults \in Nat

VARIABLES
  rows,      \* the trade rows of the symbol, in the database
  net,       \* contracts held at the broker, negative when short
  resting,   \* protective orders resting at the broker, per row and kind
  tick,      \* the price tick in progress
  checked,   \* entryReanchorChecked, in memory
  request,   \* what each API request is doing
  faults,    \* failed queries and restarts so far
  cut,       \* history: one of them cut a tick or a request short
  filled     \* history: the protective orders the broker has filled

vars == <<rows, net, resting, tick, checked, request, faults, cut, filled>>

Kinds == {"trail", "tp"}
Reasons == {"none", "stop", "target", "trailing_stop", "auto_reconciled"}

\* side is 1 for a long row and -1 for a short one; trail, tp and ride are
\* trailingStopPlaced, takeProfitOrderPlaced and letItRide.
Row == [status: {"none", "open", "closed"}, side: {-1, 1}, trail: BOOLEAN,
        tp: BOOLEAN, ride: BOOLEAN, reason: Reasons]

Stages == {"idle", "next", "reanchor", "recancel", "save", "trail", "tp",
           "place", "flag", "flat", "box", "exit", "recheck", "close", "again",
           "flatten", "record", "write", "after", "confirm", "cancel", "reconcile"}

\* snap holds the rows as the tick read them, and the local flags.
Tick == [pc: Stages, todo: SUBSET Rows, row: Rows \cup {None},
         snap: [Rows -> Row], kind: Kinds, back: {"tp", "flat", "exit", "save"},
         red: BOOLEAN, reason: Reasons]

Request == [pc: {"idle", "cancel", "unflag", "ride", "close"},
            row: Rows \cup {None}]

TypeOK ==
  /\ rows \in [Rows -> Row]
  /\ net \in (-MaxNet)..MaxNet
  /\ resting \in [Rows -> [Kinds -> 0..MaxResting]]
  /\ tick \in Tick
  /\ checked \subseteq Rows
  /\ request \in [RideRequests \cup CloseRequests -> Request]
  /\ faults \in 0..MaxFaults
  /\ cut \in BOOLEAN
  /\ filled \subseteq Rows \X Kinds

-----------------------------------------------------------------------------
NoRow == [status |-> "none", side |-> 1, trail |-> FALSE, tp |-> FALSE,
          ride |-> FALSE, reason |-> "none"]

IdleTick == [pc |-> "idle", todo |-> {}, row |-> None,
             snap |-> [r \in Rows |-> NoRow], kind |-> "tp", back |-> "tp",
             red |-> FALSE, reason |-> "none"]

IdleRequest == [pc |-> "idle", row |-> None]
IdleRequests == [q \in RideRequests \cup CloseRequests |-> IdleRequest]

NothingResting == [r \in Rows |-> [k \in Kinds |-> 0]]

EveryRow == {r \in Rows : rows[r].status # "none"}
OpenRows == {r \in Rows : rows[r].status = "open"}

\* The row the tick is on, as the tick knows it.
Local == tick.snap[tick.row]

OtherOpen == OpenRows \ {tick.row} # {}

Goto(pc) == tick' = [tick EXCEPT !.pc = pc]

\* On to the next row; the last one ends the tick.
DoneWithRow ==
  tick' = IF tick.todo = {} THEN IdleTick
          ELSE [IdleTick EXCEPT !.pc = "next", !.todo = tick.todo,
                                !.snap = [tick.snap EXCEPT ![tick.row] = NoRow]]

\* "Cancel Orders" is per contract: whoever's order it is.
CancelAll == resting' = NothingResting

\* A click that closes the position, or that the broker drops.
MayBecome(n) == n \in (-MaxNet)..MaxNet /\ net' \in {net, n}

-----------------------------------------------------------------------------
(* The tick: onPriceTick, manageOpenTrades.                                *)

TickStart ==
  /\ tick.pc = "idle" /\ OpenRows # {}
  /\ tick' = [IdleTick EXCEPT !.pc = "next", !.todo = OpenRows, !.snap = rows]
  /\ UNCHANGED <<rows, net, resting, checked, request, faults, cut, filled>>

TickRow(r) ==
  /\ tick.pc = "next" /\ r \in tick.todo
  /\ tick' = [tick EXCEPT !.pc = "reanchor", !.row = r, !.todo = @ \ {r}]
  /\ UNCHANGED <<rows, net, resting, checked, request, faults, cut, filled>>

-----------------------------------------------------------------------------
(* maybeReanchorToRealEntry.                                               *)

MovesOrderUnguarded == Local.tp
MovesOrder == Local.tp /\ ~Local.trail

\* Once per row and process.  The entry cannot be read or agrees; or only the
\* recorded entry changes, and the tick goes on with the fresh row; or the
\* bracket moves, and the resting take-profit with it, unless that would
\* cancel somebody else's orders.
Reanchor ==
  /\ tick.pc = "reanchor"
  /\ checked' = checked \cup {tick.row}
  /\ \/ Goto("trail")
     \/ /\ tick.row \notin checked
        /\ tick' = [tick EXCEPT !.pc = "trail", !.snap[tick.row] = rows[tick.row]]
     \/ /\ tick.row \notin checked
        /\ Goto(IF MovesOrder /\ ~OtherOpen THEN "recancel" ELSE "save")
  /\ UNCHANGED <<rows, net, resting, request, faults, cut, filled>>

ReanchorCancel ==
  /\ tick.pc = "recancel"
  /\ \/ /\ CancelAll
        /\ tick' = [tick EXCEPT !.pc = "place", !.kind = "tp", !.back = "save"]
     \/ Goto("save") /\ UNCHANGED resting
  /\ UNCHANGED <<rows, net, checked, request, faults, cut, filled>>

\* The update answers with the row as it now is.
ReanchorSave ==
  /\ tick.pc = "save"
  /\ rows' = [rows EXCEPT ![tick.row].tp = Local.tp]
  /\ tick' = [tick EXCEPT !.pc = "trail", !.snap[tick.row] = rows'[tick.row]]
  /\ UNCHANGED <<net, resting, checked, request, faults, cut, filled>>

-----------------------------------------------------------------------------
(* activateTrailingStop and activateTakeProfitOrder.                       *)

Place(kind, back) ==
  tick' = [tick EXCEPT !.pc = "place", !.kind = kind, !.back = back]

ArmTrail ==
  /\ tick.pc = "trail"
  /\ \/ Goto("tp")
     \/ ~Local.trail /\ Place("trail", "tp")
  /\ UNCHANGED <<rows, net, resting, checked, request, faults, cut, filled>>

\* As WantsTarget, had it forgotten the order that already rests.
WantsTargetAlways == ~Local.ride

\* Not tied to any price: tried on every tick until it rests.
WantsTarget == ~Local.tp /\ ~Local.ride

ArmTarget ==
  /\ tick.pc = "tp"
  /\ IF WantsTarget THEN Place("tp", "flat") ELSE Goto("flat")
  /\ UNCHANGED <<rows, net, resting, checked, request, faults, cut, filled>>

\* activate... returns whether the order rests.
Return(placed) ==
  tick' = [tick EXCEPT !.pc = tick.back, !.kind = "tp", !.back = "tp",
                       !.snap[tick.row][tick.kind] = placed]

RefusedCountsAsPlaced == Return(TRUE)
Refused == Return(FALSE)

\* The check that the position is still there lets an unreadable position
\* pass, and precedes the click: it rules no interleaving out.
PlaceOrder ==
  /\ tick.pc = "place"
  /\ \/ Refused /\ UNCHANGED resting
     \/ /\ resting[tick.row][tick.kind] < MaxResting
        /\ resting' = [resting EXCEPT ![tick.row][tick.kind] = @ + 1]
        /\ Goto("flag")
  /\ UNCHANGED <<rows, net, checked, request, faults, cut, filled>>

SetFlag == rows' = [rows EXCEPT ![tick.row][tick.kind] = TRUE]

FlagOrder ==
  /\ tick.pc = "flag"
  /\ SetFlag /\ Return(TRUE)
  /\ UNCHANGED <<net, resting, checked, request, faults, cut, filled>>

-----------------------------------------------------------------------------
(* manageLiveOpenTrade: the position is gone, or has to go.                *)

CloseAs(reason) == tick' = [tick EXCEPT !.pc = "record", !.reason = reason]

FlatMeansWait == Goto("box")
FlatForgetsTarget ==
  IF Local.trail THEN CloseAs("trailing_stop") ELSE Goto("reconcile")
FlatMeansClose ==
  IF Local.trail THEN CloseAs("trailing_stop")
  ELSE IF Local.tp THEN CloseAs("target")
  ELSE Goto("reconcile")

SeesFlat ==
  /\ tick.pc = "flat" /\ net = 0
  /\ FlatMeansClose
  /\ UNCHANGED <<rows, net, resting, checked, request, faults, cut, filled>>

SeesPosition ==
  /\ tick.pc = "flat"
  /\ Goto("box")
  /\ UNCHANGED <<rows, net, resting, checked, request, faults, cut, filled>>

\* Price outside the chart box closes a losing position and arms the trailing
\* stop of a winning one.
ChartBox ==
  /\ tick.pc = "box"
  /\ \/ Goto("exit")
     \/ tick' = [tick EXCEPT !.pc = "exit", !.red = TRUE]
     \/ ~Local.trail /\ Place("trail", "exit")
  /\ UNCHANGED <<rows, net, resting, checked, request, faults, cut, filled>>

\* The engine's own stop and target stand down where an order rests.
MayHitStop == tick.red \/ ~Local.trail
MayHitTarget == ~tick.red /\ ~Local.ride /\ ~Local.tp

ExitOrStay ==
  /\ tick.pc = "exit"
  /\ \/ ~tick.red /\ DoneWithRow
     \/ MayHitStop /\ tick' = [tick EXCEPT !.pc = "recheck", !.reason = "stop"]
     \/ MayHitTarget /\ tick' = [tick EXCEPT !.pc = "recheck", !.reason = "target"]
  /\ UNCHANGED <<rows, net, resting, checked, request, faults, cut, filled>>

\* Read again before the close button, and again before the opposite order.
CheckBefore(stage, act) ==
  /\ tick.pc = stage
  /\ \/ net = 0 /\ Goto("record")
     \/ Goto(act)
  /\ UNCHANGED <<rows, net, resting, checked, request, faults, cut, filled>>

Recheck == CheckBefore("recheck", "close")
CheckAgain == CheckBefore("again", "flatten")

ForceClose ==
  /\ tick.pc = "close"
  /\ \/ MayBecome(0) /\ Goto("record")
     \/ Goto("again") /\ UNCHANGED net
  /\ UNCHANGED <<rows, resting, checked, request, faults, cut, filled>>

\* A market order the other way, whatever is held by then.
Flatten ==
  /\ tick.pc = "flatten"
  /\ \/ MayBecome(net - Local.side) /\ Goto("record")
     \/ DoneWithRow /\ UNCHANGED net
  /\ UNCHANGED <<rows, resting, checked, request, faults, cut, filled>>

-----------------------------------------------------------------------------
(* closeTrade, cancelRestingOrdersAfterClose, reconcileBrokerFlatTrade.    *)

CloseRowSwapped(r, reason) ==
  rows' = [rows EXCEPT ![r].status = reason, ![r].reason = "closed"]
CloseRow(r, reason) ==
  rows' = [rows EXCEPT ![r].status = "closed", ![r].reason = reason]

\* The row has to be open still; the broker's trade history is read before it
\* is written.
Record ==
  /\ tick.pc = "record"
  /\ IF rows[tick.row].status = "open" THEN Goto("write") ELSE DoneWithRow
  /\ UNCHANGED <<rows, net, resting, checked, request, faults, cut, filled>>

WriteClose ==
  /\ tick.pc = "write"
  /\ CloseRow(tick.row, tick.reason) /\ Goto("after")
  /\ UNCHANGED <<net, resting, checked, request, faults, cut, filled>>

\* Best effort: only with no other open row, and on a flat account.
AfterClose ==
  /\ tick.pc = "after"
  /\ IF OtherOpen THEN DoneWithRow ELSE Goto("confirm")
  /\ UNCHANGED <<rows, net, resting, checked, request, faults, cut, filled>>

ConfirmFlat ==
  /\ tick.pc = "confirm"
  /\ \/ net = 0 /\ Goto("cancel")
     \/ DoneWithRow
  /\ UNCHANGED <<rows, net, resting, checked, request, faults, cut, filled>>

CancelResting ==
  /\ tick.pc = "cancel"
  /\ DoneWithRow
  /\ CancelAll \/ UNCHANGED resting
  /\ UNCHANGED <<rows, net, checked, request, faults, cut, filled>>

Reconcile ==
  /\ tick.pc = "reconcile"
  /\ CloseRow(tick.row, "auto_reconciled")
  /\ DoneWithRow
  /\ UNCHANGED <<net, resting, checked, request, faults, cut, filled>>

-----------------------------------------------------------------------------
(* API requests: enableLetItRide, closeOpenPosition.                       *)

Step(q, pc, r) == request' = [request EXCEPT ![q] = [pc |-> pc, row |-> r]]
Finish(q) == request' = [request EXCEPT ![q] = IdleRequest]

RideStart(q, r) ==
  /\ request[q].pc = "idle" /\ rows[r].status = "open"
  /\ Step(q, IF rows[r].tp THEN "cancel" ELSE "ride", r)
  /\ UNCHANGED <<rows, net, resting, tick, checked, faults, cut, filled>>

RideCancel(q) ==
  /\ request[q].pc = "cancel"
  /\ \/ CancelAll /\ Step(q, "unflag", request[q].row)
     \/ UNCHANGED resting /\ Step(q, "ride", request[q].row)
  /\ UNCHANGED <<rows, net, tick, checked, faults, cut, filled>>

RideUnflag(q) ==
  /\ request[q].pc = "unflag"
  /\ rows' = [rows EXCEPT ![request[q].row].tp = FALSE]
  /\ Step(q, "ride", request[q].row)
  /\ UNCHANGED <<net, resting, tick, checked, faults, cut, filled>>

RideOn(q) ==
  /\ request[q].pc = "ride"
  /\ rows' = [rows EXCEPT ![request[q].row].ride = TRUE]
  /\ Finish(q)
  /\ UNCHANGED <<net, resting, tick, checked, faults, cut, filled>>

CloseStart(q, r) ==
  /\ request[q].pc = "idle" /\ rows[r].status = "open"
  /\ Step(q, "close", r)
  /\ UNCHANGED <<rows, net, resting, tick, checked, faults, cut, filled>>

\* The whole contract is closed and the row left to the next tick.
CloseClick(q) ==
  /\ request[q].pc = "close"
  /\ MayBecome(0)
  /\ Finish(q)
  /\ UNCHANGED <<rows, resting, tick, checked, faults, cut, filled>>

-----------------------------------------------------------------------------
(* Around them.                                                            *)

\* A new entry, in one step here; TradeEntry takes it apart, and shows that
\* rows of different processes may be open on one symbol at once.
Enter(r, side) ==
  /\ rows[r].status = "none"
  /\ net + side \in (-MaxNet)..MaxNet
  /\ net' = net + side
  /\ rows' = [rows EXCEPT ![r] = [NoRow EXCEPT !.status = "open", !.side = side]]
  /\ UNCHANGED <<resting, tick, checked, request, faults, cut, filled>>

\* A resting order fills whether or not its position is still there.
BrokerFills(r, kind) ==
  /\ resting[r][kind] > 0
  /\ net - rows[r].side \in (-MaxNet)..MaxNet
  /\ net' = net - rows[r].side
  /\ resting' = [resting EXCEPT ![r][kind] = @ - 1]
  /\ filled' = filled \cup {<<r, kind>>}
  /\ UNCHANGED <<rows, tick, checked, request, faults, cut>>

\* The operator, or a lockout, closes the position on the platform.
ClosedOutOfBand ==
  /\ net # 0 /\ net' = 0
  /\ UNCHANGED <<rows, resting, tick, checked, request, faults, cut, filled>>

\* A query fails, or the broker cannot be reached: the exception ends the tick.
\* After the flag there is one more insert to fail, the order record's.
TickFails ==
  /\ faults < MaxFaults /\ faults' = faults + 1
  /\ tick.pc \in {"next", "reanchor", "save", "trail", "tp", "place", "flag",
                  "box", "record", "write", "reconcile"}
  /\ tick' = IdleTick /\ cut' = TRUE
  /\ UNCHANGED rows \/ (tick.pc = "flag" /\ SetFlag)
  /\ UNCHANGED <<net, resting, checked, request, filled>>

RequestFails(q) ==
  /\ faults < MaxFaults /\ faults' = faults + 1
  /\ request[q].pc # "idle"
  /\ Finish(q) /\ cut' = TRUE
  /\ UNCHANGED <<rows, net, resting, tick, checked, filled>>

\* The process dies and starts again, forgetting everything but the rows.
Restart ==
  /\ faults < MaxFaults /\ faults' = faults + 1
  /\ cut' = (cut \/ tick # IdleTick \/ request # IdleRequests)
  /\ tick' = IdleTick /\ checked' = {}
  /\ request' = IdleRequests
  /\ UNCHANGED <<rows, net, resting, filled>>

-----------------------------------------------------------------------------
Init ==
  /\ rows = [r \in Rows |-> NoRow] /\ net = 0 /\ resting = NothingResting
  /\ tick = IdleTick /\ checked = {} /\ faults = 0 /\ cut = FALSE
  /\ filled = {}
  /\ request = IdleRequests

\* Every step of a tick but the read that may find the account flat.
TickStep ==
  \/ \E r \in Rows : TickRow(r)
  \/ Reanchor \/ ReanchorCancel \/ ReanchorSave
  \/ ArmTrail \/ ArmTarget \/ PlaceOrder \/ FlagOrder
  \/ SeesPosition \/ ChartBox \/ ExitOrStay
  \/ Recheck \/ ForceClose \/ CheckAgain \/ Flatten \/ Record \/ WriteClose
  \/ AfterClose \/ ConfirmFlat \/ CancelResting \/ Reconcile

RideStep(q) == RideCancel(q) \/ RideUnflag(q) \/ RideOn(q)

Surroundings ==
  \/ \E r \in Rows, side \in {-1, 1} : Enter(r, side)
  \/ \E r \in Rows, kind \in Kinds : BrokerFills(r, kind)
  \/ \E q \in RideRequests \cup CloseRequests : RequestFails(q)
  \/ ClosedOutOfBand \/ TickFails \/ Restart

Next ==
  \/ TickStart \/ TickStep \/ SeesFlat
  \/ \E q \in RideRequests : RideStep(q) \/ (\E r \in Rows : RideStart(q, r))
  \/ \E q \in CloseRequests : CloseClick(q) \/ (\E r \in Rows : CloseStart(q, r))
  \/ Surroundings

Spec == Init /\ [][Next]_vars

\* Prices keep coming while the market is open, every await of a tick
\* settles, and the broker's position is readable again and again.
Fairness ==
  /\ WF_vars(TickStart) /\ WF_vars(TickStep)
  /\ \A r \in Rows : SF_vars(SeesFlat /\ tick.row = r)

FairSpec == Spec /\ Fairness

-----------------------------------------------------------------------------
(* Properties.                                                             *)

\* manageLiveOpenTrade looks away from the stop once trailingStopPlaced is
\* set, so the order must be there: no step of the program takes away the
\* trailing stop of an open row that relies on it, however rows overlap,
\* queries fail or the process restarts.  Only let-it-ride is left out.
StopEnforced ==
  \A r \in Rows :
    rows[r].status = "open" /\ rows[r].trail
      => resting[r].trail > 0 \/ <<r, "trail">> \in filled

\* The take-profit order is taken away and put back by one tick.
Reanchoring(r) ==
  /\ tick.row = r
  /\ tick.pc \in {"save", "place", "flag"}
  /\ tick.pc # "save" => tick.back = "save"

\* takeProfitOrderPlaced stands the target check down in the same way.  Until
\* a fault cuts a tick short the order is there, but for the one tick, after a
\* restart, that moves it.
TargetEnforced ==
  ~cut =>
    \A r \in Rows :
      rows[r].status = "open" /\ rows[r].tp =>
        resting[r].tp > 0 \/ <<r, "tp">> \in filled \/ Reanchoring(r)

\* Two resting exits of one kind for one row would open a position the other
\* way.  The flag is written after the click, and retries go by the flag.
OneExitOrderEach ==
  ~cut => \A r \in Rows, kind \in Kinds : resting[r][kind] <= 1

\* A row reconciled as "no real protective order was ever resting" leaves none
\* behind: this path, unlike closeTrade, cancels nothing.
ReconciledLeavesNothing ==
  ~cut =>
    \A r \in Rows :
      rows[r].reason = "auto_reconciled" => resting[r] = [k \in Kinds |-> 0]

\* What ended a trade is written once: no later tick, stale snapshot or slow
\* step of a tick closes it again or changes how it ended.
ClosedOnce ==
  [][\A r \in Rows : rows[r].status = "closed" =>
       rows'[r].status = "closed" /\ rows'[r].reason = rows[r].reason]_vars

\* A row whose position is gone (closed out of band, filled by a resting order,
\* or never there) is closed in the end and stops blocking new entries.
PhantomCleared ==
  \A r \in Rows :
    (rows[r].status = "open" /\ net = 0) ~> (rows[r].status # "open" \/ net # 0)

(* What comments of the repository say, and the code does not do.          *)

\* engine/loop.ts: after let-it-ride "only a real fill (the trailing stop, or
\* a manual close) can end the trade", so the trailing stop is still there.
LetItRideKeepsTheStop ==
  \A r \in Rows :
    rows[r].status = "open" /\ rows[r].ride /\ rows[r].trail
      => resting[r].trail > 0 \/ <<r, "trail">> \in filled

\* engine/loop.ts, maybeReanchorToRealEntry: the order is moved before the row
\* "so the flag we persist always describes what is actually at the broker".
TargetFlagIsTrue ==
  \A r \in Rows :
    rows[r].status = "open" /\ rows[r].tp =>
      resting[r].tp > 0 \/ <<r, "tp">> \in filled \/ Reanchoring(r)

=============================================================================
