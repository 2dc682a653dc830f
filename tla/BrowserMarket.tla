---------------------------- MODULE BrowserMarket ----------------------------
(***************************************************************************)
(* The quotes one browser shows: an engine that simulates the prices of coins,  *)
(* and the loop that polls the server for the symbols the mounted pages ask for, *)
(* a few at a time in rotation.  A quote or a candle is told apart by where its  *)
(* price comes from; prices, volumes and sessions are left out.                  *)
(***************************************************************************)
EXTENDS Naturals, FiniteSets, Sequences, SequencesExt

CONSTANTS
  Count,                 \* symbols, 1..Count in their order
  Coins,                 \* those the engine simulates
  Charted,               \* those whose chart is opened
  Pages, Wanted,         \* the pages, and the symbols of each
  Chunk,                 \* symbols asked for at once
  MaxMoves               \* pages mounted and left, tabs hidden, refreshes

Universe == 1..Count

VARIABLES
  sources,     \* what each quote's price is: "simulated", or a "provider"'s
  managed,     \* symbols a provider priced less than 90 seconds ago
  history,     \* the cached candles of each symbol: none, "simulated", a "provider"'s, or one "overdrawn"
  external,    \* the engine leaves the prices to the server
  ticking,     \* the timer of the simulation
  mounted,     \* pages that registered their symbols
  timer,       \* the interval of the polls
  asked,       \* the symbols of the poll under way, or none
  offset,      \* where the next poll begins
  suspended,   \* the server has no provider
  verified,    \* a live, delayed or snapshot quote has come
  hidden,      \* the tab is in the background
  moves

marketVars == <<sources, managed, history, external, ticking, mounted, timer, asked, offset, suspended, verified,
                hidden, moves>>
loopVars == <<timer, asked, offset, suspended>>

MarketTypeOK ==
    /\ sources \in [Universe -> {"simulated", "provider"}]
    /\ managed \subseteq Universe
    /\ history \in [Universe -> {"none", "simulated", "provider", "overdrawn"}]
    /\ external \in BOOLEAN /\ ticking \in BOOLEAN /\ timer \in BOOLEAN /\ suspended \in BOOLEAN
    /\ verified \in BOOLEAN /\ hidden \in BOOLEAN
    /\ mounted \subseteq Pages /\ asked \subseteq Universe
    /\ offset \in 0..Count /\ moves \in 0..MaxMoves

Registered(pages) == UNION {Wanted[p] : p \in pages}

\* The symbols of the next poll and where the one after begins: all of them, or a chunk of the ring.
Chosen(symbols) ==
    LET all == SetToSortSeq(symbols, <)
        n == Len(all)
        start == offset % n IN
    IF n <= Chunk THEN [symbols |-> symbols, next |-> offset]
    ELSE [symbols |-> {all[1 + ((start + i) % n)] : i \in 0..Chunk - 1}, next |-> (start + Chunk) % n]

\* A poll is asked for, unless one is under way or it may not be.
PollWith(pages, away, off) ==
    LET symbols == Registered(pages) IN
    IF off \/ away \/ asked # {} \/ symbols = {} THEN UNCHANGED <<asked, offset>>
    ELSE asked' = Chosen(symbols).symbols /\ offset' = Chosen(symbols).next

MarketInit ==
    /\ sources = [s \in Universe |-> "simulated"] /\ managed = {}
    /\ history = [s \in Universe |-> "none"]
    /\ external = FALSE /\ ticking = TRUE
    /\ mounted = {} /\ timer = FALSE /\ asked = {} /\ offset = 0
    /\ suspended = FALSE /\ verified = FALSE /\ hidden = FALSE /\ moves = 0

Moves == moves < MaxMoves /\ moves' = moves + 1

-----------------------------------------------------------------------------
(* The pages and the tab.                                                      *)

\* A page registers its symbols: the loop starts, and polls at once.
Mount(p) ==
    /\ p \notin mounted /\ Moves
    /\ mounted' = mounted \cup {p}
    /\ timer' = (timer \/ ~suspended)
    /\ PollWith(mounted', hidden, suspended)
    /\ UNCHANGED <<sources, managed, history, external, ticking, suspended, verified, hidden>>

\* A page leaves; the last one stops the loop.
Unmount(p) ==
    /\ p \in mounted /\ Moves
    /\ mounted' = mounted \ {p}
    /\ timer' = (timer /\ Registered(mounted') # {})
    /\ UNCHANGED <<sources, managed, history, external, ticking, asked, offset, suspended, verified, hidden>>

\* The tab is hidden or shown: the engine stops or starts, and a running loop polls.
VisibilityChanges ==
    /\ Moves
    /\ hidden' = ~hidden
    /\ ticking' = (hidden /\ (ticking \/ ~external))
    /\ IF timer THEN PollWith(mounted, hidden', suspended) ELSE UNCHANGED <<asked, offset>>
    /\ UNCHANGED <<sources, managed, history, external, mounted, timer, suspended, verified>>

\* The user checks the state of the system again: a suspended loop resumes.
Refresh ==
    /\ Moves
    /\ suspended' = FALSE /\ timer' = TRUE
    /\ PollWith(mounted, hidden, FALSE)
    /\ UNCHANGED <<sources, managed, history, external, ticking, mounted, verified, hidden>>

-----------------------------------------------------------------------------
(* The polls.                                                                  *)

\* The interval, or the browser that is online again.
PollQuotes ==
    /\ timer
    /\ PollWith(mounted, hidden, suspended)
    /\ UNCHANGED <<sources, managed, history, external, ticking, mounted, timer, suspended, verified, hidden, moves>>

\* Quotes are taken over: a simulated one of the server's never replaces a provider's.
applyExternalQuotes(remote, simulated) ==
    LET synced == remote \cup {s \in simulated : sources[s] = "simulated"} IN
    /\ sources' = [s \in Universe |-> IF s \in remote THEN "provider" ELSE sources[s]]
    /\ managed' = managed \cup remote
    /\ history' = [s \in Universe |-> IF s \in synced \ remote /\ history[s] = "provider" THEN "overdrawn" ELSE history[s]]

\* The engine yields to the server's prices, or takes the coins up again in a visible tab.
setExternalFeedActive(active) ==
    /\ external' = active
    /\ ticking' = (~active /\ (ticking \/ ~hidden))

\* Mutant: an answer without live quotes gives the coins back to the engine.
AnsweredForgetful(remote, live) ==
    LET proven == verified \/ live IN
    /\ asked # {} /\ remote \subseteq asked /\ (live => remote # {})
    /\ asked' = {} /\ verified' = proven
    /\ setExternalFeedActive(live)
    /\ applyExternalQuotes(remote, IF proven THEN {} ELSE asked \ remote)
    /\ UNCHANGED <<mounted, timer, offset, suspended, hidden, moves>>

\* An answer: provider quotes for some symbols, live or not, and simulated ones for the others.
Answered(remote, live) ==
    LET proven == verified \/ live IN
    /\ asked # {} /\ remote \subseteq asked /\ (live => remote # {})
    /\ asked' = {} /\ verified' = proven
    /\ IF live THEN setExternalFeedActive(TRUE)
       ELSE IF verified THEN UNCHANGED <<external, ticking>> ELSE setExternalFeedActive(FALSE)
    /\ applyExternalQuotes(remote, IF proven THEN {} ELSE asked \ remote)
    /\ UNCHANGED <<mounted, timer, offset, suspended, hidden, moves>>

\* The call fails; a server without providers suspends the loop.
PollFails(unconfigured) ==
    /\ asked # {} /\ asked' = {}
    /\ suspended' = (suspended \/ unconfigured) /\ timer' = (timer /\ ~unconfigured)
    /\ UNCHANGED <<sources, managed, history, external, ticking, mounted, offset, verified, hidden, moves>>

-----------------------------------------------------------------------------
(* The engine.                                                                 *)

\* 90 seconds have passed since a provider priced a symbol.
Expire(s) ==
    /\ s \in managed
    /\ managed' = managed \ {s}
    /\ UNCHANGED <<sources, history, external, ticking, mounted, timer, asked, offset, suspended, verified, hidden, moves>>

\* A tick moves some of the coins no provider manages, and the last bar of their candles.
runMockTick(selected) ==
    /\ ticking /\ ~external
    /\ selected # {} /\ selected \subseteq Coins \ managed
    /\ sources' = [s \in Universe |-> IF s \in selected THEN "simulated" ELSE sources[s]]
    /\ history' = [s \in Universe |-> IF s \in selected /\ history[s] = "provider" THEN "overdrawn" ELSE history[s]]
    /\ UNCHANGED <<managed, external, ticking, mounted, timer, asked, offset, suspended, verified, hidden, moves>>

\* A chart makes up the candles it does not find.
getHistory(s) ==
    /\ s \in Charted /\ history[s] = "none"
    /\ history' = [history EXCEPT ![s] = "simulated"]
    /\ UNCHANGED <<sources, managed, external, ticking, mounted, timer, asked, offset, suspended, verified, hidden, moves>>

\* The server's candles of a chart come, a provider's or simulated ones.
replaceExternalHistory(s, kind) ==
    /\ s \in Charted /\ history[s] # "none" /\ kind \in {"simulated", "provider"}
    /\ history' = [history EXCEPT ![s] = kind]
    /\ UNCHANGED <<sources, managed, external, ticking, mounted, timer, asked, offset, suspended, verified, hidden, moves>>

-----------------------------------------------------------------------------

MarketNext ==
    \/ \E p \in Pages : Mount(p) \/ Unmount(p)
    \/ VisibilityChanges \/ Refresh \/ PollQuotes
    \/ \E remote \in SUBSET asked, live \in BOOLEAN : Answered(remote, live)
    \/ \E unconfigured \in BOOLEAN : PollFails(unconfigured)
    \/ \E selected \in SUBSET Coins : runMockTick(selected)
    \/ \E s \in Universe : Expire(s) \/ getHistory(s) \/ \E kind \in {"simulated", "provider"} : replaceExternalHistory(s, kind)

\* The interval comes again, and every call ends: with an answer, or with an error.
MarketFairness ==
    /\ WF_marketVars(PollQuotes)
    /\ WF_marketVars(\E remote \in SUBSET asked, live \in BOOLEAN : Answered(remote, live))

MarketSpec == MarketInit /\ [][MarketNext]_marketVars /\ MarketFairness

-----------------------------------------------------------------------------

\* Once a provider's live, delayed or snapshot quote has come, no quote and no candle of a provider is
\* made up again: neither by the engine's ticks nor by simulated quotes of the server's.
VerifiedIsKept ==
    verified => \A s \in Universe : /\ sources[s] = "provider" => sources'[s] = "provider"
                                   /\ history'[s] = "overdrawn" => history[s] = "overdrawn"

NothingVerifiedIsMadeUp == [][VerifiedIsKept]_marketVars

\* While a tab is visible, its loop not suspended and its pages stay, every symbol of theirs is asked
\* for again and again, however many there are.
EverySymbolIsAsked ==
    \A s \in Universe : <>[](s \in Registered(mounted) /\ ~hidden /\ ~suspended) => []<>(s \in asked)

=============================================================================
