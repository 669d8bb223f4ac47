------------------------------ MODULE TradeEntry ------------------------------
(***************************************************************************)
(* How a new position comes to exist.  Three kinds of process of the one   *)
(* Node backend open positions, and they interleave at every await:        *)
(*                                                                         *)
(*   - the bar path: the price watcher finishes a bar of a symbol and      *)
(*     awaits onNewBar -> evaluateNewSignals.  The watcher is one loop, so *)
(*     the bar path works on one symbol at a time;                         *)
(*   - the continuous scan: a 15 s timer, guarded against overlap, scans   *)
(*     every symbol concurrently, first the long and then the short side;  *)
(*   - manual orders: any number of API requests.                          *)
(*                                                                         *)
(* Each reads the trade rows, decides, places a market order and inserts a *)
(* row, with awaits in between.  The scores, the consensus, the stops and  *)
(* the sizes are data: they decide between "approved" and "rejected", a    *)
(* nondeterministic choice here.  What is kept is the order of the reads   *)
(* and writes, the early returns, the broker's three answers (refused,     *)
(* filled, silently dropped), failures and restarts.                       *)
(***************************************************************************)
EXTENDS Integers, Sequences, FiniteSets

CONSTANTS
  Symbols,               \* ACTIVE_INSTRUMENTS; a symbol also names its scan
  Correlated,            \* the pairs that must not be held in opposite ways
  Bar,                   \* the watcher's bar path
  Requests,              \* concurrent manual orders (API or assistant)
  None,                  \* no symbol yet
  ConfiguredKind,        \* settings.brokerKind
  LiveTradingConfirmed,  \* settings.liveTradingConfirmed
  TradeIds,              \* bound: open rows of one process on one symbol
  OperatorModes,         \* bound: the modes the operator switches between
  MaxNet                 \* bound: contracts held, either way, per symbol

TradingModes == {"analysis_only", "paper", "live"}
Kinds == {"simulated", "live"}
Sides == {"long", "short"}

Engine == {Bar} \cup Symbols
Procs == Engine \cup Requests

ASSUME ProcessesAreDistinct ==
  /\ Bar \notin Symbols \cup Requests
  /\ Symbols \cap Requests = {}
  /\ None \notin Symbols
ASSUME CorrelatedPairs == Correlated \subseteq SUBSET Symbols
ASSUME ConstantKinds ==
  ConfiguredKind \in Kinds /\ LiveTradingConfirmed \in BOOLEAN
ASSUME Bounds ==
  MaxNet \in Nat /\ TradeIds \subseteq Nat /\ OperatorModes \subseteq TradingModes

VARIABLES
  mode,         \* system_state.mode, in the database
  killSwitch,   \* system_state.killSwitch, in the database
  trades,       \* the trade rows with status "open"
  position,     \* net contracts really held at the broker, per symbol
  liveUp,       \* liveBroker # null: the startup connection succeeded
  ticketChain,  \* BrowserControlBroker's chain: who holds or awaits the ticket
  scanning,     \* continuousScanRunning
  entry,        \* what each process is doing
  lost          \* history: symbols whose position the program lost track of

vars == <<mode, killSwitch, trades, position, liveUp, ticketChain, scanning,
          entry, lost>>

Stages == {"idle", "score", "check", "recheck", "decide", "gates", "queued",
           "confirm", "kind", "create"}

Entry == [pc: Stages, sym: Symbols \cup {None}, side: Sides, mode: TradingModes,
          filled: BOOLEAN]

Trade == [id: TradeIds, by: Procs, symbol: Symbols, side: Sides, kind: Kinds,
          venue: Kinds, filled: BOOLEAN]

\* One type invariant: the shape of every variable.
TypeOK ==
  /\ mode \in TradingModes
  /\ killSwitch \in BOOLEAN
  /\ trades \subseteq Trade
  /\ position \in [Symbols -> (-MaxNet)..MaxNet]
  /\ liveUp \in BOOLEAN
  /\ ticketChain \in Seq(Engine)
  /\ scanning \in BOOLEAN
  /\ entry \in [Procs -> Entry]
  /\ lost \subseteq Symbols

-----------------------------------------------------------------------------
(* Reads of the trade table.                                               *)

Idle == [pc |-> "idle", sym |-> None, side |-> "long",
         mode |-> "analysis_only", filled |-> FALSE]

HasOpenPaperOnly(s) ==
  \E t \in trades : t.symbol = s /\ t.kind = "simulated"

\* prisma.trade.findFirst({symbol, status: "open"})
HasOpen(s) == \E t \in trades : t.symbol = s

Opposite(side) == IF side = "long" THEN "short" ELSE "long"

ConflictSameSideOnly(s, side) ==
  \E t \in trades : {s, t.symbol} \in Correlated /\ t.side = side

\* hasConflictingCrossSymbolPosition
HasConflict(s, side) ==
  \E t \in trades : {s, t.symbol} \in Correlated /\ t.side = Opposite(side)

\* brokerKindForMode, and currentBrokerKind for a request
BrokerKindForMode(m) == IF m = "live" THEN ConfiguredKind ELSE "simulated"

\* The broker that fills an order: brokerForMode for the engine, always the
\* configured kind for a manual order.
Venue(p) == IF p \in Requests THEN ConfiguredKind
            ELSE IF entry[p].mode = "live" THEN "live" ELSE "simulated"

Contracts(side) == IF side = "long" THEN 1 ELSE -1

-----------------------------------------------------------------------------
(* Steps shared by the three kinds of process.                             *)

Goto(p, stage) == entry' = [entry EXCEPT ![p].pc = stage]

Finish(p) == entry' = [entry EXCEPT ![p] = Idle]

\* The attempt is over, whatever came of it: the scan goes on to the short
\* side, the bar path and a request return.
EndAttempt(p) ==
  IF p \in Symbols /\ entry[p].side = "long"
  THEN entry' = [entry EXCEPT ![p].pc = "check", ![p].side = "short",
                              ![p].filled = FALSE]
  ELSE Finish(p)

\* History: this process drops a fill the broker really made.
DropFill(p) ==
  lost' = IF /\ entry[p].filled
                  /\ Venue(p) = "live"
                  /\ position[entry[p].sym] # 0
               THEN lost \cup {entry[p].sym}
               ELSE lost

SetPosition(s, n) ==
  /\ position' = [position EXCEPT ![s] = n]
  /\ lost' = IF n = 0 THEN lost \ {s} ELSE lost

HoldsTicketUnchained(p) == TRUE

\* A request's broker is an instance of its own, with a chain of its own.
HoldsTicket(p) ==
  \/ p \in Requests
  \/ ticketChain # <<>> /\ Head(ticketChain) = p

ReleaseTicketNever(p) == UNCHANGED ticketChain

ReleaseTicket(p) ==
  ticketChain' = IF p \in Requests THEN ticketChain ELSE Tail(ticketChain)

-----------------------------------------------------------------------------
(* The bar path: onNewBar, evaluateNewSignals, decideOnBar.                *)

BarIgnoresKillSwitch == TRUE
BarAllowed == ~killSwitch

\* onNewBar reads the system state once: the kill switch, and the mode that
\* will decide where the order goes.
BarStart(s) ==
  /\ entry[Bar].pc = "idle" /\ BarAllowed
  /\ entry' = [entry EXCEPT ![Bar] =
                 [Idle EXCEPT !.pc = "check", !.sym = s, !.mode = mode]]
  /\ UNCHANGED <<mode, killSwitch, trades, position, liveUp, ticketChain,
                 scanning, lost>>

\* evaluateNewSignals: a disabled symbol, too few bars or an open row end it.
BarCheck ==
  /\ entry[Bar].pc = "check"
  /\ \/ Finish(Bar)
     \/ ~HasOpen(entry[Bar].sym) /\ Goto(Bar, "recheck")
  /\ UNCHANGED <<mode, killSwitch, trades, position, liveUp, ticketChain,
                 scanning, lost>>

\* decideOnBar asks both questions again, several awaits later.
BarRecheck ==
  /\ entry[Bar].pc = "recheck"
  /\ \/ Finish(Bar)
     \/ ~HasOpen(entry[Bar].sym) /\ Goto(Bar, "decide")
  /\ UNCHANGED <<mode, killSwitch, trades, position, liveUp, ticketChain,
                 scanning, lost>>

\* The strategies are tried in turn until one is approved; one whose side
\* conflicts with the correlated symbol is rejected like any other.
BarDecide ==
  /\ entry[Bar].pc = "decide"
  /\ \/ Finish(Bar)
     \/ \E side \in Sides :
          /\ ~HasConflict(entry[Bar].sym, side)
          /\ entry' = [entry EXCEPT ![Bar].pc = "gates", ![Bar].side = side]
  /\ UNCHANGED <<mode, killSwitch, trades, position, liveUp, ticketChain,
                 scanning, lost>>

-----------------------------------------------------------------------------
(* The continuous scan: the timer callback, runContinuousScan,             *)
(* scanSymbolContinuously.                                                 *)

ScanMayStart == ~scanning

\* One read of the mode serves every symbol; the kill switch is not read.
ScanStart ==
  /\ ScanMayStart
  /\ scanning' = TRUE
  /\ entry' = [p \in Procs |->
                 IF p \in Symbols
                 THEN [Idle EXCEPT !.pc = "score", !.sym = p, !.mode = mode]
                 ELSE entry[p]]
  /\ UNCHANGED <<mode, killSwitch, trades, position, liveUp, ticketChain,
                 lost>>

\* A disabled symbol, stale or already scanned data end this symbol's scan.
ScanScore(s) ==
  /\ entry[s].pc = "score"
  /\ Finish(s) \/ Goto(s, "check")
  /\ UNCHANGED <<mode, killSwitch, trades, position, liveUp, ticketChain,
                 scanning, lost>>

\* A disabled strategy skips the side; an open row ends the scan.
ScanCheck(s) ==
  /\ entry[s].pc = "check"
  /\ \/ EndAttempt(s)
     \/ HasOpen(s) /\ Finish(s)
     \/ ~HasOpen(s) /\ Goto(s, "decide")
  /\ UNCHANGED <<mode, killSwitch, trades, position, liveUp, ticketChain,
                 scanning, lost>>

\* The side needs a consensus, an approval and no conflict.
ScanDecide(s) ==
  /\ entry[s].pc = "decide"
  /\ \/ EndAttempt(s)
     \/ ~HasConflict(s, entry[s].side) /\ Goto(s, "gates")
  /\ UNCHANGED <<mode, killSwitch, trades, position, liveUp, ticketChain,
                 scanning, lost>>

\* Promise.allSettled: the scan is over when every symbol is.
ScanDone ==
  /\ scanning
  /\ \A s \in Symbols : entry[s].pc = "idle"
  /\ scanning' = FALSE
  /\ UNCHANGED <<mode, killSwitch, trades, position, liveUp, ticketChain,
                 entry, lost>>

-----------------------------------------------------------------------------
(* Manual orders: placeManualOrder up to the order.                        *)

ManualAllowed == mode # "analysis_only" /\ ~killSwitch

ManualStart(r, s, side) ==
  /\ entry[r].pc = "idle" /\ ManualAllowed
  /\ entry' = [entry EXCEPT ![r] = [Idle EXCEPT !.pc = "check", !.sym = s,
                                                !.side = side, !.mode = mode]]
  /\ UNCHANGED <<mode, killSwitch, trades, position, liveUp, ticketChain,
                 scanning, lost>>

\* An open row, a circuit breaker or the size limit refuse the order.  The
\* correlated symbol is not looked at.
ManualCheck(r) ==
  /\ entry[r].pc = "check"
  /\ \/ Finish(r)
     \/ /\ ~HasOpen(entry[r].sym)
        /\ IF ConfiguredKind = "live"
           THEN Goto(r, "queued")
           ELSE entry' = [entry EXCEPT ![r].pc = "kind", ![r].filled = TRUE]
  /\ UNCHANGED <<mode, killSwitch, trades, position, liveUp, ticketChain,
                 scanning, lost>>

\* currentBrokerKind: the mode is read again, after the order.
ManualReadKind(r) ==
  /\ entry[r].pc = "kind"
  /\ entry' = [entry EXCEPT ![r].pc = "create", ![r].mode = mode]
  /\ UNCHANGED <<mode, killSwitch, trades, position, liveUp, ticketChain,
                 scanning, lost>>

-----------------------------------------------------------------------------
(* attemptExecution and executeIfApproved.                                 *)

\* The Tilt and chart-zone gates may still reject.  The mode is the snapshot
\* of the start: analysis_only places nothing, paper fills at once, live
\* joins the ticket's chain, and throws without a live broker.
PassGates(p) ==
  /\ entry[p].pc = "gates"
  /\ \/ EndAttempt(p) /\ UNCHANGED ticketChain
     \/ /\ entry[p].mode = "paper"
        /\ entry' = [entry EXCEPT ![p].pc = "create", ![p].filled = TRUE]
        /\ UNCHANGED ticketChain
     \/ /\ entry[p].mode = "live" /\ ~liveUp
        /\ Finish(p) /\ UNCHANGED ticketChain
     \/ /\ entry[p].mode = "live" /\ liveUp
        /\ Goto(p, "queued")
        /\ ticketChain' = Append(ticketChain, p)
  /\ UNCHANGED <<mode, killSwitch, trades, position, liveUp, scanning,
                 lost>>

\* placeOrderOnTicket: refused before the click, filled, or clicked and
\* dropped by the broker without a word.
PlaceOrder(p) ==
  /\ entry[p].pc = "queued" /\ HoldsTicket(p)
  /\ \/ /\ EndAttempt(p) /\ ReleaseTicket(p)
        /\ UNCHANGED <<position, lost>>
     \/ /\ position[entry[p].sym] + Contracts(entry[p].side)
             \in (-MaxNet)..MaxNet
        /\ SetPosition(entry[p].sym,
                       position[entry[p].sym] + Contracts(entry[p].side))
        /\ entry' = [entry EXCEPT ![p].pc = "confirm", ![p].filled = TRUE]
        /\ UNCHANGED ticketChain
     \/ Goto(p, "confirm") /\ UNCHANGED <<ticketChain, position, lost>>
  /\ UNCHANGED <<mode, killSwitch, trades, liveUp, scanning>>

\* checkPositionFlat answered false: some position exists in the contract.
SeesPosition(s) == position[s] # 0

\* confirmPositionOpened: any position confirms the order; a flat account, or
\* a panel that stays unreadable, rejects it.
ConfirmFill(p) ==
  /\ entry[p].pc = "confirm"
  /\ \/ /\ SeesPosition(entry[p].sym)
        /\ Goto(p, IF p \in Requests THEN "kind" ELSE "create")
        /\ UNCHANGED lost
     \/ EndAttempt(p) /\ DropFill(p)
  /\ ReleaseTicket(p)
  /\ UNCHANGED <<mode, killSwitch, trades, position, liveUp, scanning>>

NewTradeModeAsKind(p, id) ==
  [id |-> id, by |-> p, symbol |-> entry[p].sym, side |-> entry[p].side,
   kind |-> entry[p].mode, venue |-> Venue(p), filled |-> entry[p].filled]

NewTradeModeNow(p, id) ==
  [id |-> id, by |-> p, symbol |-> entry[p].sym, side |-> entry[p].side,
   kind |-> BrokerKindForMode(mode), venue |-> Venue(p),
   filled |-> entry[p].filled]

NewTrade(p, id) ==
  [id |-> id, by |-> p, symbol |-> entry[p].sym, side |-> entry[p].side,
   kind |-> BrokerKindForMode(entry[p].mode), venue |-> Venue(p),
   filled |-> entry[p].filled]

\* Rows are told apart by their process, their symbol and a number.
FreeIds(p) ==
  TradeIds \ {t.id : t \in {u \in trades : u.by = p /\ u.symbol = entry[p].sym}}

\* The insert, or its failure: the exception ends the bar, the symbol's scan
\* or the request, and what the broker filled stays unrecorded.
RecordTrade(p) ==
  /\ entry[p].pc = "create"
  /\ \/ \E id \in FreeIds(p) :
          /\ \A j \in FreeIds(p) : id <= j
          /\ trades' = trades \cup {NewTrade(p, id)}
          /\ EndAttempt(p) /\ UNCHANGED lost
     \/ Finish(p) /\ DropFill(p) /\ UNCHANGED trades
  /\ UNCHANGED <<mode, killSwitch, position, liveUp, ticketChain, scanning>>

-----------------------------------------------------------------------------
(* Around them.                                                            *)

MayGoLive == liveUp /\ LiveTradingConfirmed

SetMode(m) ==
  /\ m = "live" => MayGoLive
  /\ mode' = m
  /\ UNCHANGED <<killSwitch, trades, position, liveUp, ticketChain, scanning,
                 entry, lost>>

\* Nothing sets the switch any more: assessNewTrade never asks for it.
ClearKillSwitch ==
  /\ killSwitch /\ killSwitch' = FALSE
  /\ UNCHANGED <<mode, trades, position, liveUp, ticketChain, scanning, entry,
                 lost>>

CloseWithoutFlattening(t) == position[t.symbol]
PositionAfterClose(t) ==
  IF t.kind = "live" THEN 0 ELSE position[t.symbol]

\* A price tick closes a row.  Ticks come from the watcher's loop, so never
\* while the bar path runs.  The close command flattens the whole contract;
\* its click counts as done even if the broker drops it.
CloseTrade(t) ==
  /\ entry[Bar].pc = "idle"
  /\ t.kind = "live" => liveUp
  /\ trades' = trades \ {t}
  /\ \/ SetPosition(t.symbol, PositionAfterClose(t))
     \/ /\ t.kind = "live" /\ position[t.symbol] # 0
        /\ lost' = lost \cup {t.symbol}
        /\ UNCHANGED position
  /\ UNCHANGED <<mode, killSwitch, liveUp, ticketChain, scanning, entry>>

\* A resting stop or target fills, the operator closes on the platform, or
\* the dashboard's close button is clicked: the row stays open.
BrokerFlattens(s) ==
  /\ position[s] # 0
  /\ SetPosition(s, 0)
  /\ UNCHANGED <<mode, killSwitch, trades, liveUp, ticketChain, scanning,
                 entry>>

InFlight(p) == /\ entry[p].pc \in {"confirm", "kind", "create"}
               /\ entry[p].filled /\ Venue(p) = "live"

\* The process dies and starts again: the database and the broker keep their
\* state, everything else starts afresh.  The connection may fail.
Restart ==
  /\ liveUp' \in (IF ConfiguredKind = "live" THEN BOOLEAN ELSE {FALSE})
  /\ entry' = [p \in Procs |-> Idle]
  /\ ticketChain' = <<>> /\ scanning' = FALSE
  /\ lost' = lost \cup
       {s \in Symbols : position[s] # 0
                        /\ \E p \in Procs : entry[p].sym = s /\ InFlight(p)}
  /\ UNCHANGED <<mode, killSwitch, trades, position>>

-----------------------------------------------------------------------------
Init ==
  /\ mode \in OperatorModes /\ killSwitch \in BOOLEAN
  /\ trades = {} /\ position = [s \in Symbols |-> 0] /\ lost = {}
  /\ liveUp \in (IF ConfiguredKind = "live" THEN BOOLEAN ELSE {FALSE})
  /\ ticketChain = <<>> /\ scanning = FALSE
  /\ entry = [p \in Procs |-> Idle]

BarStep == BarCheck \/ BarRecheck \/ BarDecide
ScanStep(s) == ScanScore(s) \/ ScanCheck(s) \/ ScanDecide(s)
Execute(p) == PassGates(p) \/ PlaceOrder(p) \/ ConfirmFill(p) \/ RecordTrade(p)

Next ==
  \/ \E s \in Symbols : BarStart(s)
  \/ BarStep
  \/ ScanStart \/ ScanDone
  \/ \E s \in Symbols : ScanStep(s)
  \/ \E r \in Requests : \/ \E s \in Symbols, side \in Sides :
                              ManualStart(r, s, side)
                         \/ ManualCheck(r)
                         \/ ManualReadKind(r)
  \/ \E p \in Procs : Execute(p)
  \/ \E m \in OperatorModes : SetMode(m)
  \/ ClearKillSwitch
  \/ \E t \in trades : CloseTrade(t)
  \/ \E s \in Symbols : BrokerFlattens(s)
  \/ Restart

Spec == Init /\ [][Next]_vars

\* Every await of a process already under way settles in the end: queries and
\* browser actions have timeouts, and the event loop runs every continuation.
Fairness ==
  /\ WF_vars(BarStep) /\ WF_vars(ScanDone)
  /\ \A s \in Symbols : WF_vars(ScanStep(s))
  /\ \A p \in Engine : WF_vars(Execute(p))

FairSpec == Spec /\ Fairness

-----------------------------------------------------------------------------
(* Properties.                                                             *)

\* The table's check-then-insert is not atomic, but one process never opens
\* two rows on one symbol: the bar path is one loop, and the overlap guard
\* keeps a symbol from being scanned twice at once.  So duplicates come only
\* from different processes that overlap, and are at most one each.
OneOpenTradePerProcess ==
  \A t, u \in trades : t.by = u.by /\ t.symbol = u.symbol => t = u

\* risk/engine.ts: ES and NQ are never held in opposite directions.  It holds
\* among the rows the bar path opens: that path handles one symbol at a time,
\* from the conflict check to the insert.
BarTradesNeverConflict ==
  \A t, u \in trades :
    t.by = Bar /\ u.by = Bar /\ {t.symbol, u.symbol} \in Correlated
      => t.side = u.side

\* While the kill switch is set no bar is being evaluated and no manual order
\* is under way, even one that started before: nothing in the running program
\* sets the switch, so it can only be on from before.
KillSwitchStopsEntries ==
  killSwitch => \A p \in {Bar} \cup Requests : entry[p].pc = "idle"

\* A row the engine opens names the broker that filled it, whatever the mode
\* was changed to between the decision and the insert: manageOpenTrades picks
\* the broker by that name.
EngineRowsNameTheirBroker ==
  \A t \in trades : t.by \in Engine => t.kind = t.venue

\* No live position is left alone: there is a live row to manage it, or an
\* order for it under way, or it was lost in one of the four known ways (an
\* unreadable panel, a failed insert, a restart, a close the broker dropped).
LivePositionIsWatched ==
  \A s \in Symbols :
    position[s] # 0 =>
      \/ \E t \in trades : t.symbol = s /\ t.kind = "live"
      \/ \E p \in Procs : entry[p].sym = s /\ InFlight(p)
      \/ s \in lost

\* Two entries never use one broker instance's ticket at once: of the engine's
\* processes at most one is between its click and its confirmation.
OneEntryOnTheTicket ==
  \A p, q \in Engine :
    entry[p].pc = "confirm" /\ entry[q].pc = "confirm" => p = q

\* The overlap guard is always released: a scan that started ends, whatever
\* its symbols run into and whoever else uses the ticket.
ScanEnds == scanning ~> ~scanning

\* A bar's evaluation ends, so the watcher's loop goes on to the next symbol
\* and open trades are watched again.
BarEnds == entry[Bar].pc # "idle" ~> entry[Bar].pc = "idle"

(* What comments of the repository say, and the code does not do.          *)

\* engine/loop.ts, scanSymbolContinuously: the fresh check also catches a
\* position the real-signal path opened concurrently on the same symbol.
OneOpenTradePerSymbol ==
  \A t, u \in trades :
    t.by \in Engine /\ u.by \in Engine /\ t.symbol = u.symbol => t = u

\* risk/engine.ts: ES and NQ must never hold conflicting positions.
NoCrossSymbolConflict ==
  \A t, u \in trades :
    {t.symbol, u.symbol} \in Correlated => t.side = u.side

\* risk/circuitBreakers.ts: the kill switch blocks all new entries.
KillSwitchBlocksAllEntries ==
  killSwitch => \A p \in Procs :
                  entry[p].pc \notin {"queued", "confirm", "kind", "create"}

\* brokers/browserControlBroker.ts: no row for an order that never filled.
NoPhantomTrade == \A t \in trades : t.filled

\* api/routes/trades.ts: a manual order sent to the live broker is not
\* recorded as a simulated one.
ManualRowsNameTheirBroker ==
  \A t \in trades : t.by \in Requests => t.kind = t.venue

=============================================================================
