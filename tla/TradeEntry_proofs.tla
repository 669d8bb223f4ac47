-------------------------- MODULE TradeEntry_proofs --------------------------
(***************************************************************************)
(* What TradeEntry keeps for every set of symbols, requests and bounds.    *)
(*                                                                         *)
(* The invariants say what a process in the middle of an entry may rely    *)
(* on: nobody else inserts rows in its name, so what it saw of its own     *)
(* rows at the check still holds at the insert, however many steps of      *)
(* others come between.                                                    *)
(***************************************************************************)
EXTENDS TradeEntry, TLAPS

\* A process that is doing something is doing it on a symbol, a scan on its
\* own; only the engine passes gates.
EntryShape ==
  /\ \A p \in Procs : entry[p].pc # "idle" => entry[p].sym \in Symbols
  /\ \A p \in Procs : entry[p].pc = "gates" => p \in Engine
  /\ \A s \in Symbols : entry[s].pc # "idle" => entry[s].sym = s

\* An engine process between click and confirmation heads the ticket's chain.
TicketHeld ==
  \A p \in Engine :
    entry[p].pc = "confirm" => ticketChain # <<>> /\ Head(ticketChain) = p

TInv == TypeOK /\ EntryShape /\ TicketHeld

-----------------------------------------------------------------------------
(* What the helpers do to the entries.                                     *)

LEMMA IdleIsEntry ==
  Idle \in Entry /\ Idle.pc = "idle" /\ Idle.sym = None /\ ~Idle.filled
BY DEF Idle, Entry, Stages, Sides, TradingModes

\* Only p's entry changes, to an entry of the same symbol.
Touches(p) ==
  /\ entry' \in [Procs -> Entry]
  /\ \A q \in Procs : q # p => entry'[q] = entry[q]
  /\ entry'[p].pc # "idle" => entry'[p].sym = entry[p].sym

LEMMA UpdateEffect ==
  ASSUME TypeOK, NEW p \in Procs, NEW e \in Entry,
         e.pc # "idle" => e.sym = entry[p].sym,
         entry' = [entry EXCEPT ![p] = e]
  PROVE  Touches(p) /\ entry'[p] = e
BY DEF TypeOK, Touches

LEMMA GotoEffect ==
  ASSUME TypeOK, NEW p \in Procs, NEW stage \in Stages, Goto(p, stage)
  PROVE  /\ Touches(p)
         /\ entry'[p] = [entry[p] EXCEPT !.pc = stage]
         /\ entry'[p].pc = stage
         /\ entry'[p].side = entry[p].side
         /\ entry'[p].mode = entry[p].mode
         /\ entry'[p].filled = entry[p].filled
BY DEF TypeOK, Goto, Entry, Touches

LEMMA FinishEffect ==
  ASSUME TypeOK, NEW p \in Procs, Finish(p)
  PROVE  Touches(p) /\ entry'[p] = Idle /\ entry'[p].pc = "idle"
BY IdleIsEntry DEF TypeOK, Finish, Touches

\* The end of an attempt leaves an entry idle or, for a scan on its long
\* side, at the check of the same symbol.
LEMMA EndAttemptEffect ==
  ASSUME TypeOK, NEW p \in Procs, EndAttempt(p)
  PROVE  /\ Touches(p)
         /\ entry'[p].pc \in {"idle", "check"}
         /\ entry'[p].pc = "check" => p \in Symbols
<1>1. CASE p \in Symbols /\ entry[p].side = "long"
  <2> DEFINE e == [entry[p] EXCEPT !.pc = "check", !.side = "short",
                                   !.filled = FALSE]
  <2>1. e \in Entry /\ e.pc = "check" /\ e.sym = entry[p].sym
    BY DEF TypeOK, Entry, Stages, Sides
  <2>2. entry' = [entry EXCEPT ![p] = e]
    BY <1>1 DEF EndAttempt, TypeOK
  <2> HIDE DEF e
  <2> QED BY <1>1, <2>1, <2>2 DEF TypeOK, Touches
<1>2. CASE ~(p \in Symbols /\ entry[p].side = "long")
  BY <1>2, FinishEffect DEF EndAttempt
<1> QED BY <1>1, <1>2

-----------------------------------------------------------------------------
(* What each step of a busy process does to its entry.                     *)

\* p moves to one of the stages in S; unless its attempt ends there it keeps
\* its side and, in the engine, the mode it read.
MovesTo(p, S) ==
  /\ Touches(p)
  /\ entry[p].pc # "idle"
  /\ entry'[p].pc \in S
  /\ entry'[p].pc \in {"queued", "confirm", "kind", "create"}
       => entry'[p].side = entry[p].side
  /\ p \in Engine /\ entry'[p].pc \notin {"idle", "check"}
       => entry'[p].mode = entry[p].mode

LEMMA BarStepEffect ==
  ASSUME TInv, BarStep
  PROVE  /\ Bar \in Engine /\ Bar \in Procs /\ Bar \notin Symbols
         /\ MovesTo(Bar, {"idle", "recheck", "decide", "gates"})
<1>1. Bar \in Procs /\ Bar \in Engine /\ Bar \notin Symbols
  BY ProcessesAreDistinct DEF Procs, Engine
<1>2. entry[Bar].pc # "idle"
  BY DEF BarStep, BarCheck, BarRecheck, BarDecide
<1>3. CASE Finish(Bar)
  BY <1>1, <1>2, <1>3, FinishEffect DEF TInv, MovesTo
<1>4. ASSUME NEW stage \in {"recheck", "decide"}, Goto(Bar, stage)
      PROVE  MovesTo(Bar, {"idle", "recheck", "decide", "gates"})
  <2>1. stage \in Stages BY <1>4 DEF Stages
  <2> QED BY <1>1, <1>2, <1>4, <2>1, GotoEffect DEF TInv, MovesTo
<1>5. ASSUME NEW side \in Sides,
             entry' = [entry EXCEPT ![Bar].pc = "gates", ![Bar].side = side]
      PROVE  MovesTo(Bar, {"idle", "recheck", "decide", "gates"})
  <2> DEFINE e == [entry[Bar] EXCEPT !.pc = "gates", !.side = side]
  <2>1. /\ e \in Entry /\ e.pc = "gates" /\ e.sym = entry[Bar].sym
        /\ e.mode = entry[Bar].mode
    BY <1>1 DEF TInv, TypeOK, Entry, Stages
  <2>2. entry' = [entry EXCEPT ![Bar] = e]
    BY <1>5, <1>1 DEF TInv, TypeOK
  <2> HIDE DEF e
  <2> QED BY <1>1, <1>2, <2>1, <2>2, UpdateEffect DEF TInv, MovesTo
<1> QED BY <1>1, <1>3, <1>4, <1>5 DEF BarStep, BarCheck, BarRecheck, BarDecide

LEMMA ScanStepEffect ==
  ASSUME TInv, NEW s \in Symbols, ScanStep(s)
  PROVE  /\ s \in Engine /\ s \in Procs
         /\ MovesTo(s, {"idle", "check", "decide", "gates"})
<1>1. s \in Procs /\ s \in Engine
  BY DEF Procs, Engine
<1>2. entry[s].pc # "idle"
  BY DEF ScanStep, ScanScore, ScanCheck, ScanDecide
<1>3. CASE Finish(s)
  BY <1>1, <1>2, <1>3, FinishEffect DEF TInv, MovesTo
<1>4. CASE EndAttempt(s)
  BY <1>1, <1>2, <1>4, EndAttemptEffect DEF TInv, MovesTo
<1>5. ASSUME NEW stage \in {"check", "decide", "gates"}, Goto(s, stage)
      PROVE  MovesTo(s, {"idle", "check", "decide", "gates"})
  <2>1. stage \in Stages BY <1>5 DEF Stages
  <2> QED BY <1>1, <1>2, <1>5, <2>1, GotoEffect DEF TInv, MovesTo
<1> QED BY <1>1, <1>3, <1>4, <1>5 DEF ScanStep, ScanScore, ScanCheck, ScanDecide

LEMMA ManualStepEffect ==
  ASSUME TInv, NEW r \in Requests, ManualCheck(r) \/ ManualReadKind(r)
  PROVE  /\ r \in Procs /\ r \notin Symbols /\ r # Bar
         /\ MovesTo(r, {"idle", "queued", "kind", "create"})
<1>1. r \in Procs /\ r \notin Engine /\ r \notin Symbols /\ r # Bar
  BY ProcessesAreDistinct DEF Procs, Engine
<1>2. entry[r].pc # "idle"
  BY DEF ManualCheck, ManualReadKind
<1>3. CASE Finish(r)
  BY <1>1, <1>2, <1>3, FinishEffect DEF TInv, MovesTo
<1>4. CASE Goto(r, "queued")
  <2>1. "queued" \in Stages BY DEF Stages
  <2> QED BY <1>1, <1>2, <1>4, <2>1, GotoEffect DEF TInv, MovesTo
<1>5. CASE entry' = [entry EXCEPT ![r].pc = "kind", ![r].filled = TRUE]
  <2> DEFINE e == [entry[r] EXCEPT !.pc = "kind", !.filled = TRUE]
  <2>1. /\ e \in Entry /\ e.pc = "kind" /\ e.sym = entry[r].sym
        /\ e.mode = entry[r].mode /\ e.side = entry[r].side
    BY <1>1 DEF TInv, TypeOK, Entry, Stages
  <2>2. entry' = [entry EXCEPT ![r] = e]
    BY <1>5, <1>1 DEF TInv, TypeOK
  <2> HIDE DEF e
  <2> QED BY <1>1, <1>2, <2>1, <2>2, UpdateEffect DEF TInv, MovesTo
<1>6. CASE ManualReadKind(r)
  <2> DEFINE e == [entry[r] EXCEPT !.pc = "create", !.mode = mode]
  <2>1. /\ e \in Entry /\ e.pc = "create" /\ e.sym = entry[r].sym
        /\ e.side = entry[r].side
    BY <1>1 DEF TInv, TypeOK, Entry, Stages
  <2>2. entry' = [entry EXCEPT ![r] = e]
    BY <1>6, <1>1 DEF TInv, TypeOK, ManualReadKind
  <2> HIDE DEF e
  <2> QED BY <1>1, <1>2, <2>1, <2>2, UpdateEffect DEF TInv, MovesTo
<1> QED BY <1>1, <1>3, <1>4, <1>5, <1>6 DEF ManualCheck

LEMMA PassGatesEffect ==
  ASSUME TInv, NEW p \in Procs, PassGates(p)
  PROVE  MovesTo(p, {"idle", "check", "queued", "create"})
<1>1. entry[p].pc # "idle"
  BY DEF PassGates
<1>2. CASE Finish(p)
  BY <1>1, <1>2, FinishEffect DEF TInv, MovesTo
<1>3. CASE EndAttempt(p)
  BY <1>1, <1>3, EndAttemptEffect DEF TInv, MovesTo
<1>4. CASE Goto(p, "queued")
  <2>1. "queued" \in Stages BY DEF Stages
  <2> QED BY <1>1, <1>4, <2>1, GotoEffect DEF TInv, MovesTo
<1>5. CASE entry' = [entry EXCEPT ![p].pc = "create", ![p].filled = TRUE]
  <2> DEFINE e == [entry[p] EXCEPT !.pc = "create", !.filled = TRUE]
  <2>1. /\ e \in Entry /\ e.pc = "create" /\ e.sym = entry[p].sym
        /\ e.mode = entry[p].mode /\ e.side = entry[p].side
    BY DEF TInv, TypeOK, Entry, Stages
  <2>2. entry' = [entry EXCEPT ![p] = e]
    BY <1>5 DEF TInv, TypeOK
  <2> HIDE DEF e
  <2> QED BY <1>1, <2>1, <2>2, UpdateEffect DEF TInv, MovesTo
<1> QED BY <1>2, <1>3, <1>4, <1>5 DEF PassGates

LEMMA PlaceOrderEffect ==
  ASSUME TInv, NEW p \in Procs, PlaceOrder(p)
  PROVE  MovesTo(p, {"idle", "check", "confirm"})
<1>1. entry[p].pc # "idle"
  BY DEF PlaceOrder
<1>2. CASE EndAttempt(p)
  BY <1>1, <1>2, EndAttemptEffect DEF TInv, MovesTo
<1>3. CASE Goto(p, "confirm")
  <2>1. "confirm" \in Stages BY DEF Stages
  <2> QED BY <1>1, <1>3, <2>1, GotoEffect DEF TInv, MovesTo
<1>4. CASE entry' = [entry EXCEPT ![p].pc = "confirm", ![p].filled = TRUE]
  <2> DEFINE e == [entry[p] EXCEPT !.pc = "confirm", !.filled = TRUE]
  <2>1. /\ e \in Entry /\ e.pc = "confirm" /\ e.sym = entry[p].sym
        /\ e.mode = entry[p].mode /\ e.side = entry[p].side
    BY DEF TInv, TypeOK, Entry, Stages
  <2>2. entry' = [entry EXCEPT ![p] = e]
    BY <1>4 DEF TInv, TypeOK
  <2> HIDE DEF e
  <2> QED BY <1>1, <2>1, <2>2, UpdateEffect DEF TInv, MovesTo
<1> QED BY <1>2, <1>3, <1>4 DEF PlaceOrder

LEMMA ConfirmFillEffect ==
  ASSUME TInv, NEW p \in Procs, ConfirmFill(p)
  PROVE  MovesTo(p, {"idle", "check", "kind", "create"})
<1>1. entry[p].pc # "idle"
  BY DEF ConfirmFill
<1>2. CASE EndAttempt(p)
  BY <1>1, <1>2, EndAttemptEffect DEF TInv, MovesTo
<1>3. ASSUME NEW stage \in {"kind", "create"}, Goto(p, stage)
      PROVE  MovesTo(p, {"idle", "check", "kind", "create"})
  <2>1. stage \in Stages BY <1>3 DEF Stages
  <2> QED BY <1>1, <1>3, <2>1, GotoEffect DEF TInv, MovesTo
<1> QED BY <1>2, <1>3 DEF ConfirmFill

LEMMA RecordTradeEffect ==
  ASSUME TInv, NEW p \in Procs, RecordTrade(p)
  PROVE  MovesTo(p, {"idle", "check"})
BY EndAttemptEffect, FinishEffect DEF TInv, MovesTo, RecordTrade

LEMMA ExecuteEffect ==
  ASSUME TInv, NEW p \in Procs, Execute(p)
  PROVE  /\ MovesTo(p, {"idle", "check", "queued", "confirm", "kind", "create"})
         /\ entry[p].pc \in {"gates", "queued", "confirm", "create"}
<1>1. CASE PassGates(p)
  BY <1>1, PassGatesEffect DEF MovesTo, PassGates
<1>2. CASE PlaceOrder(p)
  BY <1>2, PlaceOrderEffect DEF MovesTo, PlaceOrder
<1>3. CASE ConfirmFill(p)
  BY <1>3, ConfirmFillEffect DEF MovesTo, ConfirmFill
<1>4. CASE RecordTrade(p)
  BY <1>4, RecordTradeEffect DEF MovesTo, RecordTrade
<1> QED BY <1>1, <1>2, <1>3, <1>4 DEF Execute

-----------------------------------------------------------------------------
(* Type correctness.                                                       *)

LEMMA TInvInit == Init => TInv
<1> SUFFICES ASSUME Init PROVE TInv OBVIOUS
<1>1. entry \in [Procs -> Entry]
  BY IdleIsEntry DEF Init
<1>2. position \in [Symbols -> (-MaxNet)..MaxNet]
  BY Bounds DEF Init
<1>3. TypeOK
  <2>1. mode \in TradingModes /\ killSwitch \in BOOLEAN /\ liveUp \in BOOLEAN
    BY Bounds DEF Init
  <2>2. trades \subseteq Trade /\ lost \subseteq Symbols
    BY DEF Init
  <2>3. ticketChain \in Seq(Engine) /\ scanning \in BOOLEAN
    <3>1. <<>> \in Seq(Engine) OBVIOUS
    <3> QED BY <3>1 DEF Init
  <2> QED BY <1>1, <1>2, <2>1, <2>2, <2>3 DEF TypeOK
<1>4. EntryShape /\ TicketHeld
  BY IdleIsEntry DEF Init, EntryShape, TicketHeld, Engine, Procs
<1> QED BY <1>3, <1>4 DEF TInv

\* A step that only moves one busy process keeps the shape of the entries.
LEMMA TouchKeepsShape ==
  ASSUME TInv, NEW p \in Procs, entry[p].pc # "idle", Touches(p),
         entry'[p].pc = "gates" => p \in Engine
  PROVE  EntryShape'
BY ProcessesAreDistinct DEF TInv, EntryShape, Touches, Procs, Engine

\* ... and if it leaves the ticket alone, that too.
LEMMA TouchKeepsTicket ==
  ASSUME TInv, NEW p \in Procs, Touches(p), UNCHANGED ticketChain,
         entry'[p].pc # "confirm"
  PROVE  TicketHeld'
BY DEF TInv, TicketHeld, Touches, Procs, Engine

\* A bar or a request starts from an idle entry.
LEMMA StartKeepsTInv ==
  ASSUME TInv, NEW p \in Procs \ Symbols, NEW e \in Entry,
         e.pc = "check", e.sym \in Symbols,
         entry' = [entry EXCEPT ![p] = e],
         UNCHANGED <<mode, killSwitch, trades, position, liveUp, ticketChain,
                     scanning, lost>>
  PROVE  TInv'
<1>1. TypeOK'
  BY DEF TInv, TypeOK
<1>2. EntryShape' /\ TicketHeld'
  BY DEF TInv, TypeOK, EntryShape, TicketHeld, Procs, Engine
<1> QED BY <1>1, <1>2 DEF TInv

LEMMA BarStartKeepsTInv ==
  ASSUME TInv, NEW s \in Symbols, BarStart(s) PROVE TInv'
<1> DEFINE e == [Idle EXCEPT !.pc = "check", !.sym = s, !.mode = mode]
<1>1. e \in Entry /\ e.pc = "check" /\ e.sym \in Symbols
  BY DEF TInv, TypeOK, Idle, Entry, Stages, Sides
<1>2. Bar \in Procs \ Symbols
  BY ProcessesAreDistinct DEF Procs, Engine
<1>3. entry' = [entry EXCEPT ![Bar] = e]
  BY DEF BarStart
<1> HIDE DEF e
<1> QED BY <1>1, <1>2, <1>3, StartKeepsTInv DEF BarStart

LEMMA ManualStartKeepsTInv ==
  ASSUME TInv, NEW r \in Requests, NEW s \in Symbols, NEW side \in Sides,
         ManualStart(r, s, side)
  PROVE  TInv'
<1> DEFINE e == [Idle EXCEPT !.pc = "check", !.sym = s, !.side = side,
                             !.mode = mode]
<1>1. e \in Entry /\ e.pc = "check" /\ e.sym \in Symbols
  BY DEF TInv, TypeOK, Idle, Entry, Stages
<1>2. r \in Procs \ Symbols
  BY ProcessesAreDistinct DEF Procs, Engine
<1>3. entry' = [entry EXCEPT ![r] = e]
  BY DEF ManualStart
<1> HIDE DEF e
<1> QED BY <1>1, <1>2, <1>3, StartKeepsTInv DEF ManualStart

LEMMA ScanStartKeepsTInv ==
  ASSUME TInv, ScanStart PROVE TInv'
<1>1. \A s \in Symbols :
        [Idle EXCEPT !.pc = "score", !.sym = s, !.mode = mode] \in Entry
  BY DEF TInv, TypeOK, Idle, Entry, Stages, Sides
<1>2. TypeOK'
  BY <1>1 DEF TInv, TypeOK, ScanStart
<1>3. \A s \in Symbols : entry'[s].pc = "score" /\ entry'[s].sym = s
  BY DEF ScanStart, Idle, Procs, Engine
<1>4. \A p \in Procs : p \notin Symbols => entry'[p] = entry[p]
  BY DEF ScanStart
<1>5. EntryShape'
  BY <1>3, <1>4 DEF TInv, EntryShape, Procs, Engine
<1>6. TicketHeld'
  BY <1>3, <1>4 DEF TInv, TicketHeld, ScanStart, Procs, Engine
<1> QED BY <1>2, <1>5, <1>6 DEF TInv

LEMMA BarStepKeepsTInv ==
  ASSUME TInv, BarStep PROVE TInv'
<1>1. UNCHANGED <<mode, killSwitch, trades, position, liveUp, ticketChain,
                 scanning, lost>>
  BY DEF BarStep, BarCheck, BarRecheck, BarDecide
<1>2. TypeOK'
  BY <1>1, BarStepEffect DEF TInv, TypeOK, MovesTo, Touches
<1>3. EntryShape' /\ TicketHeld'
  BY <1>1, BarStepEffect, TouchKeepsShape, TouchKeepsTicket DEF MovesTo
<1> QED BY <1>2, <1>3 DEF TInv

LEMMA ScanStepKeepsTInv ==
  ASSUME TInv, NEW s \in Symbols, ScanStep(s) PROVE TInv'
<1>1. UNCHANGED <<mode, killSwitch, trades, position, liveUp, ticketChain,
                 scanning, lost>>
  BY DEF ScanStep, ScanScore, ScanCheck, ScanDecide
<1>2. TypeOK'
  BY <1>1, ScanStepEffect DEF TInv, TypeOK, MovesTo, Touches
<1>3. EntryShape' /\ TicketHeld'
  BY <1>1, ScanStepEffect, TouchKeepsShape, TouchKeepsTicket DEF MovesTo
<1> QED BY <1>2, <1>3 DEF TInv

LEMMA ManualStepKeepsTInv ==
  ASSUME TInv, NEW r \in Requests, ManualCheck(r) \/ ManualReadKind(r)
  PROVE  TInv'
<1>1. UNCHANGED <<mode, killSwitch, trades, position, liveUp, ticketChain,
                 scanning, lost>>
  BY DEF ManualCheck, ManualReadKind
<1>2. TypeOK'
  BY <1>1, ManualStepEffect DEF TInv, TypeOK, MovesTo, Touches
<1>3. EntryShape' /\ TicketHeld'
  BY <1>1, ManualStepEffect, TouchKeepsShape, TouchKeepsTicket DEF MovesTo
<1> QED BY <1>2, <1>3 DEF TInv

LEMMA PassGatesKeepsTInv ==
  ASSUME TInv, NEW p \in Procs, PassGates(p) PROVE TInv'
<1>1. p \in Engine
  BY DEF TInv, EntryShape, PassGates
<1>2. \/ UNCHANGED ticketChain
      \/ ticketChain' = Append(ticketChain, p)
  BY DEF PassGates
<1>3. /\ ticketChain' \in Seq(Engine)
      /\ ticketChain # <<>> => /\ ticketChain' # <<>>
                               /\ Head(ticketChain') = Head(ticketChain)
  <2>1. ticketChain \in Seq(Engine) BY DEF TInv, TypeOK
  <2>2. CASE UNCHANGED ticketChain BY <2>1, <2>2
  <2>3. CASE ticketChain' = Append(ticketChain, p) BY <1>1, <2>1, <2>3
  <2> QED BY <1>2, <2>2, <2>3
<1>4. TypeOK'
  BY <1>3, PassGatesEffect DEF TInv, TypeOK, MovesTo, Touches, PassGates
<1>5. EntryShape'
  BY <1>1, PassGatesEffect, TouchKeepsShape DEF MovesTo
<1>6. TicketHeld'
  BY <1>3, PassGatesEffect DEF TInv, TicketHeld, MovesTo, Touches, Procs, Engine
<1> QED BY <1>4, <1>5, <1>6 DEF TInv

\* Whoever releases the ticket heads the chain, so nobody else is confirming.
LEMMA ReleaseKeepsTicket ==
  ASSUME TInv, NEW p \in Procs, Touches(p), HoldsTicket(p), ReleaseTicket(p),
         entry'[p].pc # "confirm"
  PROVE  ticketChain' \in Seq(Engine) /\ TicketHeld'
<1>1. CASE p \in Requests
  <2>1. UNCHANGED ticketChain BY <1>1 DEF ReleaseTicket
  <2> QED BY <2>1, TouchKeepsTicket DEF TInv, TypeOK
<1>2. CASE p \notin Requests
  <2>1. ticketChain # <<>> /\ Head(ticketChain) = p
    BY <1>2 DEF HoldsTicket
  <2>2. ticketChain' = Tail(ticketChain)
    BY <1>2 DEF ReleaseTicket
  <2>3. \A q \in Engine : entry'[q].pc # "confirm"
    BY <2>1 DEF TInv, TicketHeld, Touches, Procs, Engine
  <2>4. ticketChain' \in Seq(Engine)
    BY <2>1, <2>2 DEF TInv, TypeOK
  <2> QED BY <2>3, <2>4 DEF TicketHeld
<1> QED BY <1>1, <1>2

LEMMA PlaceOrderKeepsTInv ==
  ASSUME TInv, NEW p \in Procs, PlaceOrder(p) PROVE TInv'
<1>1. HoldsTicket(p) /\ entry[p].sym \in Symbols
  BY DEF PlaceOrder, TInv, EntryShape
<1>2. position' \in [Symbols -> (-MaxNet)..MaxNet] /\ lost' \subseteq Symbols
  BY <1>1 DEF PlaceOrder, TInv, TypeOK, SetPosition
<1>3. ticketChain' \in Seq(Engine) /\ TicketHeld'
  <2>1. CASE ReleaseTicket(p) /\ EndAttempt(p)
    <3>1. entry'[p].pc # "confirm"
      BY <2>1, EndAttemptEffect DEF TInv
    <3> QED BY <1>1, <2>1, <3>1, PlaceOrderEffect, ReleaseKeepsTicket DEF MovesTo
  <2>2. CASE UNCHANGED ticketChain
    BY <1>1, <2>2, PlaceOrderEffect, ProcessesAreDistinct
    DEF TInv, TypeOK, TicketHeld, MovesTo, Touches, HoldsTicket, Procs, Engine
  <2> QED BY <2>1, <2>2 DEF PlaceOrder
<1>4. TypeOK'
  BY <1>2, <1>3, PlaceOrderEffect DEF TInv, TypeOK, MovesTo, Touches, PlaceOrder
<1>5. EntryShape'
  BY PlaceOrderEffect, TouchKeepsShape DEF MovesTo
<1> QED BY <1>3, <1>4, <1>5 DEF TInv

LEMMA ConfirmFillKeepsTInv ==
  ASSUME TInv, NEW p \in Procs, ConfirmFill(p) PROVE TInv'
<1>1. HoldsTicket(p) /\ entry[p].sym \in Symbols
  BY DEF ConfirmFill, TInv, EntryShape, TicketHeld, HoldsTicket, Procs
<1>2. lost' \subseteq Symbols
  BY <1>1 DEF ConfirmFill, TInv, TypeOK, DropFill
<1>3. ticketChain' \in Seq(Engine) /\ TicketHeld'
  BY <1>1, ConfirmFillEffect, ReleaseKeepsTicket DEF ConfirmFill, MovesTo
<1>4. TypeOK'
  BY <1>2, <1>3, ConfirmFillEffect DEF TInv, TypeOK, MovesTo, Touches, ConfirmFill
<1>5. EntryShape'
  BY ConfirmFillEffect, TouchKeepsShape DEF MovesTo
<1> QED BY <1>3, <1>4, <1>5 DEF TInv

LEMMA NewTradeType ==
  ASSUME TypeOK, NEW p \in Procs, entry[p].sym \in Symbols, NEW id \in TradeIds
  PROVE  /\ NewTrade(p, id) \in Trade
         /\ NewTrade(p, id).by = p
         /\ NewTrade(p, id).symbol = entry[p].sym
         /\ NewTrade(p, id).side = entry[p].side
BY ConstantKinds
DEF TypeOK, NewTrade, Trade, Entry, BrokerKindForMode, Venue, Kinds

LEMMA RecordTradeKeepsTInv ==
  ASSUME TInv, NEW p \in Procs, RecordTrade(p) PROVE TInv'
<1>1. entry[p].sym \in Symbols
  BY DEF RecordTrade, TInv, EntryShape
<1>2. trades' \subseteq Trade /\ lost' \subseteq Symbols
  BY <1>1, NewTradeType DEF RecordTrade, FreeIds, TInv, TypeOK, DropFill
<1>3. TypeOK'
  BY <1>2, RecordTradeEffect DEF TInv, TypeOK, MovesTo, Touches, RecordTrade
<1>4. EntryShape' /\ TicketHeld'
  BY RecordTradeEffect, TouchKeepsShape, TouchKeepsTicket DEF MovesTo, RecordTrade
<1> QED BY <1>3, <1>4 DEF TInv

\* The steps that leave every entry and the ticket alone.
Surroundings ==
  \/ ScanDone \/ ClearKillSwitch
  \/ \E m \in OperatorModes : SetMode(m)
  \/ \E t \in trades : CloseTrade(t)
  \/ \E s \in Symbols : BrokerFlattens(s)

LEMMA SurroundingsKeepTInv ==
  ASSUME TInv, Surroundings PROVE TInv'
<1>1. UNCHANGED <<ticketChain, entry>>
  BY DEF Surroundings, ScanDone, ClearKillSwitch, SetMode, CloseTrade,
         BrokerFlattens
<1>2. TypeOK'
  <2>1. CASE ScanDone \/ ClearKillSwitch
    BY <2>1 DEF TInv, TypeOK, ScanDone, ClearKillSwitch
  <2>2. ASSUME NEW m \in OperatorModes, SetMode(m) PROVE TypeOK'
    BY <2>2, Bounds DEF TInv, TypeOK, SetMode
  <2>3. ASSUME NEW t \in trades, CloseTrade(t) PROVE TypeOK'
    <3>1. t.symbol \in Symbols BY DEF TInv, TypeOK, Trade
    <3>2. PositionAfterClose(t) \in (-MaxNet)..MaxNet
      BY <3>1, Bounds DEF TInv, TypeOK, PositionAfterClose
    <3> QED
      BY <2>3, <3>1, <3>2 DEF TInv, TypeOK, CloseTrade, SetPosition
  <2>4. ASSUME NEW s \in Symbols, BrokerFlattens(s) PROVE TypeOK'
    BY <2>4, Bounds DEF TInv, TypeOK, BrokerFlattens, SetPosition
  <2> QED BY <2>1, <2>2, <2>3, <2>4 DEF Surroundings
<1>3. EntryShape' /\ TicketHeld'
  BY <1>1 DEF TInv, EntryShape, TicketHeld
<1> QED BY <1>2, <1>3 DEF TInv

LEMMA RestartKeepsTInv ==
  ASSUME TInv, Restart PROVE TInv'
<1>1. TypeOK'
  <2>1. entry' \in [Procs -> Entry]
    BY IdleIsEntry DEF Restart
  <2>2. ticketChain' \in Seq(Engine)
    <3>1. <<>> \in Seq(Engine) OBVIOUS
    <3> QED BY <3>1 DEF Restart
  <2>3. lost' \subseteq Symbols
    BY DEF TInv, TypeOK, Restart
  <2>4. liveUp' \in BOOLEAN /\ scanning' \in BOOLEAN
    BY DEF Restart
  <2> QED BY <2>1, <2>2, <2>3, <2>4 DEF TInv, TypeOK, Restart
<1>2. EntryShape' /\ TicketHeld'
  BY IdleIsEntry DEF Restart, EntryShape, TicketHeld, Procs, Engine
<1> QED BY <1>1, <1>2 DEF TInv

LEMMA TInvNext ==
  ASSUME TInv, [Next]_vars PROVE TInv'
<1>1. CASE UNCHANGED vars
  BY <1>1 DEF vars, TInv, TypeOK, EntryShape, TicketHeld
<1>2. ASSUME NEW s \in Symbols, BarStart(s) \/ ScanStep(s) PROVE TInv'
  BY <1>2, BarStartKeepsTInv, ScanStepKeepsTInv
<1>3. CASE BarStep \/ ScanStart \/ Restart \/ Surroundings
  BY <1>3, BarStepKeepsTInv, ScanStartKeepsTInv, RestartKeepsTInv,
     SurroundingsKeepTInv
<1>4. ASSUME NEW r \in Requests,
             \/ \E s \in Symbols, side \in Sides : ManualStart(r, s, side)
             \/ ManualCheck(r) \/ ManualReadKind(r)
      PROVE  TInv'
  BY <1>4, ManualStartKeepsTInv, ManualStepKeepsTInv
<1>5. ASSUME NEW p \in Procs, Execute(p) PROVE TInv'
  BY <1>5, PassGatesKeepsTInv, PlaceOrderKeepsTInv, ConfirmFillKeepsTInv,
     RecordTradeKeepsTInv DEF Execute
<1> QED BY <1>1, <1>2, <1>3, <1>4, <1>5 DEF Next, Surroundings

\* Every variable keeps its type, and every process its shape.
THEOREM TypeCorrect == Spec => [](TypeOK /\ EntryShape /\ TicketHeld)
<1>1. Init => TInv BY TInvInit
<1>2. TInv /\ [Next]_vars => TInv' BY TInvNext
<1> QED BY <1>1, <1>2, PTL DEF Spec, TInv

\* Of the engine's processes at most one is between its click on the shared
\* ticket and its confirmation: each of them heads the chain.
THEOREM TicketIsExclusive == Spec => []OneEntryOnTheTicket
<1>1. TicketHeld => OneEntryOnTheTicket
  BY DEF TicketHeld, OneEntryOnTheTicket
<1> QED BY <1>1, TypeCorrect, PTL

-----------------------------------------------------------------------------
(* The kill switch.                                                        *)

\* While the kill switch is set, no bar and no manual order is under way.
\* The invariant is inductive: they start only while it is clear, and no step
\* sets it.
THEOREM KillSwitchRespected == Spec => []KillSwitchStopsEntries
<1>1. Init => KillSwitchStopsEntries
  BY IdleIsEntry DEF Init, KillSwitchStopsEntries, Procs, Engine
<1>2. TInv /\ KillSwitchStopsEntries /\ [Next]_vars => KillSwitchStopsEntries'
  <2> SUFFICES ASSUME TInv, KillSwitchStopsEntries, [Next]_vars, killSwitch',
                      NEW p \in {Bar} \cup Requests
               PROVE  entry'[p].pc = "idle"
    BY DEF KillSwitchStopsEntries
  <2>1. killSwitch
    BY DEF Next, vars, BarStart, BarStep, BarCheck, BarRecheck, BarDecide,
           ScanStart, ScanDone, ScanStep, ScanScore, ScanCheck, ScanDecide,
           ManualStart, ManualCheck, ManualReadKind, Execute, PassGates,
           PlaceOrder, ConfirmFill, RecordTrade, SetMode, ClearKillSwitch,
           CloseTrade, BrokerFlattens, Restart
  <2>2. entry[p].pc = "idle" /\ p \in Procs /\ p \notin Symbols
    BY <2>1, ProcessesAreDistinct DEF KillSwitchStopsEntries, Procs, Engine
  <2>3. ASSUME NEW q \in Procs, Execute(q) PROVE entry'[p].pc = "idle"
    BY <2>2, <2>3, ExecuteEffect DEF MovesTo, Touches
  <2>4. ASSUME NEW q \in Symbols, ScanStep(q) PROVE entry'[p].pc = "idle"
    BY <2>2, <2>4, ScanStepEffect DEF MovesTo, Touches
  <2>5. CASE Surroundings \/ Restart \/ ScanStart \/ UNCHANGED vars
    BY <2>2, <2>5, IdleIsEntry
    DEF Surroundings, ScanDone, ClearKillSwitch, SetMode, CloseTrade,
        BrokerFlattens, Restart, ScanStart, vars
  <2>6. CASE BarStep
    BY <2>2, <2>6, BarStepEffect DEF MovesTo, Touches
  <2>7. ASSUME NEW r \in Requests, ManualCheck(r) \/ ManualReadKind(r)
        PROVE  entry'[p].pc = "idle"
    BY <2>2, <2>7, ManualStepEffect DEF MovesTo, Touches
  <2>8. /\ \A s \in Symbols : ~BarStart(s)
        /\ \A r \in Requests, s \in Symbols, side \in Sides :
             ~ManualStart(r, s, side)
    BY <2>1 DEF BarStart, BarAllowed, ManualStart, ManualAllowed
  <2> QED
    BY <2>3, <2>4, <2>5, <2>6, <2>7, <2>8 DEF Next, Surroundings
<1> QED BY <1>1, <1>2, TypeCorrect, PTL DEF Spec, TInv

-----------------------------------------------------------------------------
(* The check of the trade table that every entry begins with.              *)

\* The stages between the check and the insert.
Past == {"recheck", "decide", "gates", "queued", "confirm", "kind", "create"}

\* Whoever is past its check still has no row of its own on its symbol.
OwnCheckHolds ==
  \A p \in Procs : entry[p].pc \in Past =>
    \A t \in trades : ~(t.by = p /\ t.symbol = entry[p].sym)

EInv == TInv /\ OwnCheckHolds /\ OneOpenTradePerProcess

\* A step of p inserts nothing, and brings p past its check only on a symbol
\* without an open row.
Checked(p) ==
  /\ Touches(p) /\ UNCHANGED trades
  /\ entry'[p].pc \in Past => entry[p].pc \in Past \/ ~HasOpen(entry[p].sym)

LEMMA CheckedKeepsEInv ==
  ASSUME EInv, TInv', NEW p \in Procs, Checked(p)
  PROVE  EInv'
<1>1. OneOpenTradePerProcess'
  BY DEF EInv, OneOpenTradePerProcess, Checked
<1>2. ASSUME NEW q \in Procs, entry'[q].pc \in Past, NEW t \in trades
      PROVE  ~(t.by = q /\ t.symbol = entry'[q].sym)
  <2>1. CASE q # p
    BY <1>2, <2>1 DEF EInv, OwnCheckHolds, Checked, Touches
  <2>2. CASE q = p
    <3>1. entry'[p].sym = entry[p].sym
      BY <1>2, <2>2 DEF Checked, Touches, Past
    <3> QED BY <1>2, <2>2, <3>1 DEF EInv, OwnCheckHolds, Checked, HasOpen
  <2> QED BY <2>1, <2>2
<1>3. OwnCheckHolds'
  BY <1>2 DEF OwnCheckHolds, Checked
<1> QED BY <1>1, <1>3 DEF EInv

LEMMA BarStepChecks ==
  ASSUME TInv, BarStep PROVE Checked(Bar)
<1>1. CASE BarCheck
  <2>1. CASE Finish(Bar)
    BY <1>1, <2>1, BarStepEffect, FinishEffect
    DEF Checked, MovesTo, Past, BarCheck, TInv
  <2>2. CASE ~HasOpen(entry[Bar].sym)
    BY <1>1, <2>2, BarStepEffect DEF Checked, MovesTo, BarCheck
  <2> QED BY <1>1, <2>1, <2>2 DEF BarCheck
<1>2. CASE BarRecheck \/ BarDecide
  BY <1>2, BarStepEffect DEF Checked, MovesTo, Past, BarRecheck, BarDecide
<1> QED BY <1>1, <1>2 DEF BarStep

LEMMA ScanStepChecks ==
  ASSUME TInv, NEW s \in Symbols, ScanStep(s) PROVE Checked(s)
<1>1. /\ s \in Procs /\ MovesTo(s, {"idle", "check", "decide", "gates"})
      /\ UNCHANGED trades
  BY ScanStepEffect DEF ScanStep, ScanScore, ScanCheck, ScanDecide
<1>2. CASE Finish(s)
  BY <1>1, <1>2, FinishEffect DEF Checked, MovesTo, Past, TInv
<1>3. CASE EndAttempt(s)
  BY <1>1, <1>3, EndAttemptEffect DEF Checked, MovesTo, Past, TInv
<1>4. CASE Goto(s, "check")
  <2>1. entry'[s].pc = "check"
    BY <1>1, <1>4, GotoEffect DEF TInv, Stages
  <2> QED BY <1>1, <2>1 DEF Checked, MovesTo, Past
<1>5. CASE ScanCheck(s) /\ ~HasOpen(s)
  <2>1. entry[s].sym = s
    BY <1>5 DEF ScanCheck, TInv, EntryShape
  <2> QED BY <1>1, <1>5, <2>1 DEF Checked, MovesTo
<1>6. CASE ScanDecide(s)
  BY <1>1, <1>6 DEF Checked, MovesTo, Past, ScanDecide
<1> QED BY <1>2, <1>3, <1>4, <1>5, <1>6 DEF ScanStep, ScanScore, ScanCheck

LEMMA ManualStepChecks ==
  ASSUME TInv, NEW r \in Requests, ManualCheck(r) \/ ManualReadKind(r)
  PROVE  Checked(r)
<1>1. /\ r \in Procs /\ MovesTo(r, {"idle", "queued", "kind", "create"})
      /\ UNCHANGED trades
  BY ManualStepEffect DEF ManualCheck, ManualReadKind
<1>2. CASE Finish(r)
  BY <1>1, <1>2, FinishEffect DEF Checked, MovesTo, Past, TInv
<1>3. CASE ManualCheck(r) /\ ~HasOpen(entry[r].sym)
  BY <1>1, <1>3 DEF Checked, MovesTo
<1>4. CASE ManualReadKind(r)
  BY <1>1, <1>4 DEF Checked, MovesTo, Past, ManualReadKind
<1> QED BY <1>2, <1>3, <1>4 DEF ManualCheck

LEMMA ExecuteChecks ==
  ASSUME TInv, NEW p \in Procs, Execute(p), UNCHANGED trades
  PROVE  Checked(p)
BY ExecuteEffect DEF Checked, MovesTo, Past

\* A step that begins an attempt leaves it before its check.
LEMMA BeginKeepsEInv ==
  ASSUME EInv, TInv', trades' \subseteq trades,
         \A q \in Procs : entry'[q].pc \in Past => entry'[q] = entry[q]
  PROVE  EInv'
BY DEF EInv, OneOpenTradePerProcess, OwnCheckHolds

\* The insert: the new row is the only one of its process on its symbol.
LEMMA RecordTradeKeepsEInv ==
  ASSUME EInv, TInv', NEW p \in Procs, RecordTrade(p) PROVE EInv'
<1>1. Touches(p) /\ entry'[p].pc \notin Past
  BY RecordTradeEffect DEF EInv, MovesTo, Past
<1>2. CASE UNCHANGED trades
  BY <1>1, <1>2, CheckedKeepsEInv DEF Checked
<1>3. ASSUME NEW id \in FreeIds(p), trades' = trades \cup {NewTrade(p, id)}
      PROVE  EInv'
  <2>1. NewTrade(p, id).by = p /\ NewTrade(p, id).symbol = entry[p].sym
    BY DEF NewTrade
  <2>2. \A t \in trades : ~(t.by = p /\ t.symbol = entry[p].sym)
    BY DEF EInv, OwnCheckHolds, RecordTrade, Past
  <2> HIDE DEF NewTrade
  <2>3. OneOpenTradePerProcess'
    BY <1>3, <2>1, <2>2 DEF EInv, OneOpenTradePerProcess
  <2>4. OwnCheckHolds'
    BY <1>1, <1>3, <2>1 DEF EInv, OwnCheckHolds, Touches
  <2> QED BY <2>3, <2>4 DEF EInv
<1> QED BY <1>2, <1>3 DEF RecordTrade

LEMMA EInvNext ==
  ASSUME EInv, TInv', [Next]_vars PROVE EInv'
<1> USE DEF EInv
<1>1. CASE UNCHANGED vars
  BY <1>1, BeginKeepsEInv DEF vars
<1>2. CASE Surroundings
  <2>1. entry' = entry /\ trades' \subseteq trades
    BY <1>2 DEF Surroundings, ScanDone, ClearKillSwitch, SetMode, CloseTrade,
                BrokerFlattens
  <2> QED BY <2>1, BeginKeepsEInv
<1>3. CASE Restart
  BY <1>3, IdleIsEntry, BeginKeepsEInv DEF Restart, Past
<1>4. CASE ScanStart
  <2>1. \A s \in Symbols : entry'[s].pc = "score"
    BY <1>4 DEF ScanStart, Idle, Procs, Engine
  <2> QED BY <1>4, <2>1, BeginKeepsEInv DEF ScanStart, Past
<1>5. ASSUME NEW s \in Symbols, BarStart(s) PROVE EInv'
  <2>1. entry'[Bar].pc = "check"
    BY <1>5 DEF BarStart, Idle, TInv, TypeOK, Procs, Engine
  <2>2. \A q \in Procs : q # Bar => entry'[q] = entry[q]
    BY <1>5 DEF BarStart, TInv, TypeOK
  <2> QED BY <1>5, <2>1, <2>2, BeginKeepsEInv DEF BarStart, Past
<1>6. ASSUME NEW r \in Requests, NEW s \in Symbols, NEW side \in Sides,
             ManualStart(r, s, side)
      PROVE  EInv'
  <2>1. entry'[r].pc = "check"
    BY <1>6 DEF ManualStart, Idle, TInv, TypeOK, Procs
  <2>2. \A q \in Procs : q # r => entry'[q] = entry[q]
    BY <1>6 DEF ManualStart, TInv, TypeOK
  <2> QED BY <1>6, <2>1, <2>2, BeginKeepsEInv DEF ManualStart, Past
<1>7. CASE BarStep
  BY <1>7, BarStepChecks, BarStepEffect, CheckedKeepsEInv
<1>8. ASSUME NEW s \in Symbols, ScanStep(s) PROVE EInv'
  BY <1>8, ScanStepChecks, ScanStepEffect, CheckedKeepsEInv
<1>9. ASSUME NEW r \in Requests, ManualCheck(r) \/ ManualReadKind(r)
      PROVE  EInv'
  BY <1>9, ManualStepChecks, ManualStepEffect, CheckedKeepsEInv
<1>10. ASSUME NEW p \in Procs, Execute(p) PROVE EInv'
  <2>1. CASE RecordTrade(p)
    BY <2>1, RecordTradeKeepsEInv
  <2>2. CASE UNCHANGED trades
    BY <1>10, <2>2, ExecuteChecks, CheckedKeepsEInv
  <2> QED
    BY <1>10, <2>1, <2>2 DEF Execute, PassGates, PlaceOrder, ConfirmFill
<1> QED
  BY <1>1, <1>2, <1>3, <1>4, <1>5, <1>6, <1>7, <1>8, <1>9, <1>10
  DEF Next, Surroundings

\* However the processes interleave, none of them opens two rows on one
\* symbol: nobody else inserts rows in its name, so what it saw of its own
\* rows at the check still holds at the insert.
THEOREM OneRowPerProcess == Spec => []OneOpenTradePerProcess
<1>1. Init => EInv
  BY TInvInit, IdleIsEntry
  DEF Init, EInv, OwnCheckHolds, OneOpenTradePerProcess, Past
<1>2. EInv /\ TInv' /\ [Next]_vars => EInv' BY EInvNext
<1>3. EInv => OneOpenTradePerProcess BY DEF EInv
<1>4. TypeOK /\ EntryShape /\ TicketHeld <=> TInv BY DEF TInv
<1> QED BY <1>1, <1>2, <1>3, <1>4, TypeCorrect, PTL DEF Spec

-----------------------------------------------------------------------------
(* Correlated symbols on the bar path.                                     *)

\* The bar path's own rows on correlated symbols agree with the side it has
\* decided on: it works on one symbol at a time, so none was added since.
BarSideHolds ==
  entry[Bar].pc \in {"gates", "queued", "confirm", "kind", "create"} =>
    \A t \in trades :
      t.by = Bar /\ {entry[Bar].sym, t.symbol} \in Correlated
        => t.side = entry[Bar].side

CInv == BarSideHolds /\ BarTradesNeverConflict

\* A step that adds no row of the bar path's and leaves its entry alone, or
\* before the decision, keeps both.
LEMMA OthersKeepCInv ==
  ASSUME CInv, \A t \in trades' : t.by = Bar => t \in trades,
         \/ entry'[Bar] = entry[Bar]
         \/ entry'[Bar].pc \in {"idle", "check", "recheck", "decide"}
  PROVE  CInv'
BY DEF CInv, BarSideHolds, BarTradesNeverConflict

LEMMA BarDecideKeepsCInv ==
  ASSUME TInv, CInv, BarDecide PROVE CInv'
<1>1. Bar \in Procs BY DEF Procs, Engine
<1>2. CASE Finish(Bar)
  BY <1>1, <1>2, FinishEffect, OthersKeepCInv DEF TInv, BarDecide
<1>3. ASSUME NEW side \in Sides, ~HasConflict(entry[Bar].sym, side),
             entry' = [entry EXCEPT ![Bar].pc = "gates", ![Bar].side = side]
      PROVE  CInv'
  <2>1. entry'[Bar].side = side /\ entry'[Bar].sym = entry[Bar].sym
    BY <1>1, <1>3 DEF TInv, TypeOK, Entry
  <2>2. \A t \in trades : {entry[Bar].sym, t.symbol} \in Correlated
                            => t.side = side
    <3> SUFFICES ASSUME NEW t \in trades,
                        {entry[Bar].sym, t.symbol} \in Correlated
                 PROVE  t.side = side
      OBVIOUS
    <3>1. t.side \in Sides BY DEF TInv, TypeOK, Trade
    <3>2. t.side # Opposite(side) BY <1>3 DEF HasConflict
    <3> QED BY <1>3, <3>1, <3>2 DEF Opposite, Sides
  <2> QED BY <2>1, <2>2 DEF CInv, BarSideHolds, BarTradesNeverConflict, BarDecide
<1> QED BY <1>2, <1>3 DEF BarDecide

LEMMA ExecuteKeepsCInv ==
  ASSUME TInv, CInv, NEW p \in Procs, Execute(p) PROVE CInv'
<1>0. Bar \in Procs BY DEF Procs, Engine
<1>1. CASE UNCHANGED trades
  <2>1. CASE p # Bar
    BY <1>0, <1>1, <2>1, ExecuteEffect, OthersKeepCInv DEF MovesTo, Touches
  <2>2. CASE p = Bar
    <3>1. /\ entry[Bar].pc \in {"gates", "queued", "confirm", "create"}
          /\ \/ entry'[Bar].pc \in {"idle", "check"}
             \/ /\ entry'[Bar].side = entry[Bar].side
                /\ entry'[Bar].sym = entry[Bar].sym
      BY <2>2, ExecuteEffect DEF MovesTo, Touches
    <3> QED BY <1>1, <3>1 DEF CInv, BarSideHolds, BarTradesNeverConflict
  <2> QED BY <2>1, <2>2
<1>2. ASSUME RecordTrade(p), NEW id \in FreeIds(p),
             trades' = trades \cup {NewTrade(p, id)}
      PROVE  CInv'
  <2>1. /\ NewTrade(p, id).by = p /\ NewTrade(p, id).side = entry[p].side
        /\ NewTrade(p, id).symbol = entry[p].sym
    BY DEF NewTrade
  <2> HIDE DEF NewTrade
  <2>2. CASE p # Bar
    BY <1>0, <1>2, <2>1, <2>2, RecordTradeEffect, OthersKeepCInv
    DEF MovesTo, Touches
  <2>3. CASE p = Bar
    <3>1. \A t \in trades :
            t.by = Bar /\ {entry[Bar].sym, t.symbol} \in Correlated
              => t.side = entry[Bar].side
      BY <1>2, <2>3 DEF CInv, BarSideHolds, RecordTrade
    <3>2. \A a, b : {a, b} = {b, a} OBVIOUS
    <3>3. BarTradesNeverConflict'
      BY <1>2, <2>1, <2>3, <3>1, <3>2 DEF CInv, BarTradesNeverConflict
    <3>4. BarSideHolds'
      BY <1>2, <2>3, RecordTradeEffect DEF MovesTo, BarSideHolds
    <3> QED BY <3>3, <3>4 DEF CInv
  <2> QED BY <2>2, <2>3
<1> QED
  BY <1>1, <1>2 DEF Execute, PassGates, PlaceOrder, ConfirmFill, RecordTrade

LEMMA CInvNext ==
  ASSUME TInv, CInv, [Next]_vars PROVE CInv'
<1>0. Bar \in Procs BY DEF Procs, Engine
<1>1. CASE UNCHANGED vars
  BY <1>1, OthersKeepCInv DEF vars
<1>2. CASE Surroundings
  <2>1. entry' = entry /\ trades' \subseteq trades
    BY <1>2 DEF Surroundings, ScanDone, ClearKillSwitch, SetMode, CloseTrade,
                BrokerFlattens
  <2> QED BY <2>1, OthersKeepCInv
<1>3. CASE Restart
  BY <1>0, <1>3, IdleIsEntry, OthersKeepCInv DEF Restart
<1>4. CASE ScanStart
  BY <1>0, <1>4, ProcessesAreDistinct, OthersKeepCInv DEF ScanStart
<1>5. ASSUME NEW s \in Symbols, BarStart(s) PROVE CInv'
  <2>1. entry'[Bar].pc = "check"
    BY <1>0, <1>5 DEF BarStart, Idle, TInv, TypeOK
  <2> QED BY <1>5, <2>1, OthersKeepCInv DEF BarStart
<1>6. ASSUME NEW r \in Requests, NEW s \in Symbols, NEW side \in Sides,
             ManualStart(r, s, side)
      PROVE  CInv'
  BY <1>0, <1>6, ProcessesAreDistinct, OthersKeepCInv DEF ManualStart, TInv, TypeOK
<1>7. CASE BarCheck \/ BarRecheck
  <2>1. entry'[Bar].pc \in {"idle", "recheck", "decide"}
    <3>1. "recheck" \in Stages /\ "decide" \in Stages BY DEF Stages
    <3> QED
      BY <1>0, <1>7, <3>1, FinishEffect, GotoEffect DEF TInv, BarCheck, BarRecheck
  <2> QED BY <1>7, <2>1, OthersKeepCInv DEF BarCheck, BarRecheck
<1>8. ASSUME NEW s \in Symbols, ScanStep(s) PROVE CInv'
  <2>1. entry'[Bar] = entry[Bar]
    BY <1>0, <1>8, ScanStepEffect, ProcessesAreDistinct DEF MovesTo, Touches
  <2> QED
    BY <1>8, <2>1, OthersKeepCInv DEF ScanStep, ScanScore, ScanCheck, ScanDecide
<1>9. ASSUME NEW r \in Requests, ManualCheck(r) \/ ManualReadKind(r)
      PROVE  CInv'
  <2>1. entry'[Bar] = entry[Bar]
    BY <1>0, <1>9, ManualStepEffect DEF MovesTo, Touches
  <2> QED BY <1>9, <2>1, OthersKeepCInv DEF ManualCheck, ManualReadKind
<1> QED
  BY <1>1, <1>2, <1>3, <1>4, <1>5, <1>6, <1>7, <1>8, <1>9, BarDecideKeepsCInv,
     ExecuteKeepsCInv
  DEF Next, Surroundings, BarStep

\* The bar path never holds correlated symbols in opposite directions, for any
\* number of symbols and any correlation among them.
THEOREM BarPathKeepsCorrelation == Spec => []BarTradesNeverConflict
<1>1. Init => CInv
  BY IdleIsEntry
  DEF Init, CInv, BarSideHolds, BarTradesNeverConflict, Procs, Engine
<1>2. TInv /\ CInv /\ [Next]_vars => CInv' BY CInvNext
<1>3. CInv => BarTradesNeverConflict BY DEF CInv
<1>4. TypeOK /\ EntryShape /\ TicketHeld <=> TInv BY DEF TInv
<1> QED BY <1>1, <1>2, <1>3, <1>4, TypeCorrect, PTL DEF Spec

-----------------------------------------------------------------------------
(* The broker a row names.                                                 *)

Ordered == {"queued", "confirm", "kind", "create"}

\* The live broker exists only where settings.brokerKind is "live", so an
\* engine order that went to it carries a mode that names it.
LiveOrdersMatch ==
  /\ liveUp => ConfiguredKind = "live"
  /\ \A p \in Engine :
       entry[p].pc \in Ordered /\ entry[p].mode = "live"
         => ConfiguredKind = "live"

KInv == LiveOrdersMatch /\ EngineRowsNameTheirBroker

LEMMA OthersKeepKInv ==
  ASSUME KInv, liveUp' = liveUp, trades' \subseteq trades,
         \A p \in Engine : entry'[p] = entry[p] \/ entry'[p].pc \notin Ordered
  PROVE  KInv'
BY DEF KInv, LiveOrdersMatch, EngineRowsNameTheirBroker

\* Only the gates let an order out, in the mode the process read.
LEMMA ExecuteKeepsKInv ==
  ASSUME TInv, KInv, NEW p \in Procs, Execute(p) PROVE KInv'
<1>1. /\ liveUp' = liveUp
      /\ \A q \in Procs : q # p => entry'[q] = entry[q]
      /\ p \in Engine /\ entry'[p].pc \in Ordered => entry'[p].mode = entry[p].mode
  BY ExecuteEffect
  DEF MovesTo, Touches, Execute, PassGates, PlaceOrder, ConfirmFill, RecordTrade,
      Ordered
<1>2. LiveOrdersMatch'
  <2>1. CASE PassGates(p)
    <3>1. \/ entry'[p].pc \notin Ordered
          \/ entry[p].mode = "live" => liveUp
      <4>1. CASE EndAttempt(p)
        BY <4>1, EndAttemptEffect DEF TInv, Ordered
      <4>2. CASE ~EndAttempt(p)
        BY <2>1, <4>2, FinishEffect DEF TInv, Ordered, PassGates
      <4> QED BY <4>1, <4>2
    <3> QED BY <1>1, <3>1 DEF KInv, LiveOrdersMatch, Engine, Procs
  <2>2. CASE ~PassGates(p)
    <3>1. entry'[p].pc \in Ordered => entry[p].pc \in Ordered
      BY <2>2, PlaceOrderEffect, ConfirmFillEffect, RecordTradeEffect
      DEF MovesTo, Execute, Ordered, PlaceOrder, ConfirmFill, RecordTrade
    <3> QED BY <1>1, <3>1 DEF KInv, LiveOrdersMatch, Engine, Procs
  <2> QED BY <2>1, <2>2
<1>3. CASE UNCHANGED trades
  BY <1>2, <1>3 DEF KInv, EngineRowsNameTheirBroker
<1>4. ASSUME RecordTrade(p), NEW id \in FreeIds(p),
             trades' = trades \cup {NewTrade(p, id)}
      PROVE  EngineRowsNameTheirBroker'
  <2>1. NewTrade(p, id).by \in Engine
          => NewTrade(p, id).kind = NewTrade(p, id).venue
    BY <1>4, ProcessesAreDistinct
    DEF NewTrade, Venue, BrokerKindForMode, RecordTrade, KInv, LiveOrdersMatch,
        Ordered, Engine
  <2> HIDE DEF NewTrade
  <2> QED BY <1>4, <2>1 DEF KInv, EngineRowsNameTheirBroker
<1> QED
  BY <1>2, <1>3, <1>4
  DEF KInv, Execute, PassGates, PlaceOrder, ConfirmFill, RecordTrade

LEMMA KInvNext ==
  ASSUME TInv, KInv, [Next]_vars PROVE KInv'
<1>0. \A p \in Engine : p \in Procs /\ p \notin Requests
  BY ProcessesAreDistinct DEF Procs, Engine
<1>1. CASE UNCHANGED vars
  BY <1>1, OthersKeepKInv DEF vars
<1>2. CASE Surroundings
  BY <1>2, OthersKeepKInv
  DEF Surroundings, ScanDone, ClearKillSwitch, SetMode, CloseTrade, BrokerFlattens
<1>3. CASE Restart
  BY <1>0, <1>3, IdleIsEntry
  DEF KInv, LiveOrdersMatch, EngineRowsNameTheirBroker, Restart, Ordered
<1>4. CASE ScanStart
  <2>1. \A p \in Engine : entry'[p] = entry[p] \/ entry'[p].pc = "score"
    BY <1>0, <1>4 DEF ScanStart, Idle
  <2> QED BY <1>4, <2>1, OthersKeepKInv DEF ScanStart, Ordered
<1>5. ASSUME NEW s \in Symbols, BarStart(s) PROVE KInv'
  <2>1. \A p \in Engine : entry'[p] = entry[p] \/ entry'[p].pc = "check"
    BY <1>0, <1>5 DEF BarStart, Idle, TInv, TypeOK
  <2> QED BY <1>5, <2>1, OthersKeepKInv DEF BarStart, Ordered
<1>6. ASSUME NEW r \in Requests, NEW s \in Symbols, NEW side \in Sides,
             ManualStart(r, s, side)
      PROVE  KInv'
  <2>1. \A p \in Engine : entry'[p] = entry[p]
    BY <1>0, <1>6 DEF ManualStart, TInv, TypeOK
  <2> QED BY <1>6, <2>1, OthersKeepKInv DEF ManualStart
<1>7. CASE BarStep
  <2>1. \A p \in Engine : entry'[p] = entry[p] \/ entry'[p].pc \notin Ordered
    BY <1>0, <1>7, BarStepEffect DEF MovesTo, Touches, Ordered
  <2> QED
    BY <1>7, <2>1, OthersKeepKInv DEF BarStep, BarCheck, BarRecheck, BarDecide
<1>8. ASSUME NEW s \in Symbols, ScanStep(s) PROVE KInv'
  <2>1. \A p \in Engine : entry'[p] = entry[p] \/ entry'[p].pc \notin Ordered
    BY <1>0, <1>8, ScanStepEffect DEF MovesTo, Touches, Ordered
  <2> QED
    BY <1>8, <2>1, OthersKeepKInv DEF ScanStep, ScanScore, ScanCheck, ScanDecide
<1>9. ASSUME NEW r \in Requests, ManualCheck(r) \/ ManualReadKind(r)
      PROVE  KInv'
  <2>1. \A p \in Engine : entry'[p] = entry[p]
    BY <1>0, <1>9, ManualStepEffect DEF MovesTo, Touches
  <2> QED BY <1>9, <2>1, OthersKeepKInv DEF ManualCheck, ManualReadKind
<1> QED
  BY <1>1, <1>2, <1>3, <1>4, <1>5, <1>6, <1>7, <1>8, <1>9, ExecuteKeepsKInv
  DEF Next, Surroundings

\* Whatever the mode is switched to while an entry is under way, the row the
\* engine inserts names the broker that has the position.
THEOREM RowsNameTheirBroker == Spec => []EngineRowsNameTheirBroker
<1>1. Init => KInv
  BY IdleIsEntry
  DEF Init, KInv, LiveOrdersMatch, EngineRowsNameTheirBroker, Ordered, Procs, Engine
<1>2. TInv /\ KInv /\ [Next]_vars => KInv' BY KInvNext
<1>3. KInv => EngineRowsNameTheirBroker BY DEF KInv
<1>4. TypeOK /\ EntryShape /\ TicketHeld <=> TInv BY DEF TInv
<1> QED BY <1>1, <1>2, <1>3, <1>4, TypeCorrect, PTL DEF Spec

=============================================================================
