------------------------------ MODULE ChainLog ------------------------------
(***************************************************************************)
(* How the settings page learns which chains the proxy serves:             *)
(* fork/render.py prints one block per route at every start, and           *)
(* docker_chains of fork/settings_ui.py reads the container's log, 8192    *)
(* bytes at a time, until it believes the last block is complete.          *)
(*                                                                         *)
(* A line is a header, an entry of a chain or something else; a chunk ends *)
(* at any line, or inside one.                                             *)
(***************************************************************************)
EXTENDS Naturals, Sequences, SequencesExt

CONSTANTS
  ROUTES,     \* the routes in print order, a sequence without repetition
  Lengths,    \* how long a start's chains may be: functions on routes
  MaxRuns     \* starts of the proxy (bound)

Routes  == ToSet(ROUTES)
NoRoute == "none"

ASSUME RoutesAssumption ==
  ROUTES \in Seq(Routes) /\ ROUTES # <<>> /\ IsInjective(ROUTES) /\ NoRoute \notin Routes

ASSUME LengthsAssumption == Lengths \subseteq [Routes -> Nat]

ASSUME RunsAssumption == MaxRuns \in Nat \ {0}

VARIABLES
  run,     \* the number of the proxy's current start
  chain,   \* chain[route]: how many deployments this start has
  log,     \* every line the container has printed
  printed, \* how many of them this start has printed
  from,    \* the lines before this one are older than State.StartedAt
  reader,  \* proxy_status and docker_chains
  torn     \* history: whether some chunk so far ended inside a line

vars == <<run, chain, log, printed, from, reader, torn>>

Header(r)      == [kind |-> "header", route |-> r, n |-> 0, run |-> run]
EntryLine(r, n) == [kind |-> "entry", route |-> r, n |-> n, run |-> run]
OtherLine      == [kind |-> "other", route |-> NoRoute, n |-> 0, run |-> run]

Entries(r) == [n \in 1..chain[r] |-> EntryLine(r, n)]

\* print_chain
Block(r) == <<Header(r)>> \o Entries(r)

\* What this start prints: a block per route, then LiteLLM's own output.
Script == FlattenSeq([i \in DOMAIN ROUTES |-> Block(ROUTES[i])]) \o <<OtherLine>>

Listening == printed = Len(Script)

-----------------------------------------------------------------------------
(* parse_chains. *)

Unparsed == [active |-> NoRoute, seen |-> {}, chains |-> [r \in Routes |-> <<>>]]

\* Mutant: a route printed twice keeps both blocks.
ParseLineTwice(st, line) ==
  IF line.kind = "header"
  THEN [st EXCEPT !.active = line.route, !.seen = @ \union {line.route}]
  ELSE IF line.kind = "entry" /\ st.active # NoRoute
  THEN [st EXCEPT !.chains[st.active] = Append(@, line)]
  ELSE [st EXCEPT !.active = NoRoute]

\* Mutant: a route printed twice keeps its first block.
ParseLineOnce(st, line) ==
  IF line.kind = "header"
  THEN [st EXCEPT !.active = IF line.route \in st.seen THEN NoRoute ELSE line.route,
                  !.seen = @ \union {line.route}]
  ELSE IF line.kind = "entry" /\ st.active # NoRoute
  THEN [st EXCEPT !.chains[st.active] = Append(@, line)]
  ELSE [st EXCEPT !.active = NoRoute]

ParseLine(st, line) ==
  IF line.kind = "header"
  THEN [active |-> line.route, seen |-> st.seen \union {line.route},
        chains |-> [st.chains EXCEPT ![line.route] = <<>>]]
  ELSE IF line.kind = "entry" /\ st.active # NoRoute
  THEN [st EXCEPT !.chains[st.active] = Append(@, line)]
  ELSE [st EXCEPT !.active = NoRoute]

Parse(lines) ==
  LET st == FoldLeft(ParseLine, Unparsed, lines)
  IN  [seen |-> st.seen, chains |-> st.chains]

\* What a chunk may show of a line it cuts: a header or an entry that is not
\* recognised, or an entry whose model name is cut short.
Fragments(line) ==
  {[line EXCEPT !.kind = "other"]}
    \union {l \in {[line EXCEPT !.n = 0]} : line.kind = "entry"}

\* Mutant: the last line is not looked at.
CompleteAtOnce(lines) == Parse(lines).seen = Routes

\* "Complete once the last route's block is in and a line after it (LiteLLM's
\* own output) has arrived."
Complete(lines) ==
  /\ Parse(lines).seen = Routes
  /\ Last(lines).kind = "other"

-----------------------------------------------------------------------------

NoReport == [seen |-> {}, chains |-> [r \in Routes |-> <<>>]]

Init ==
  /\ run = 1
  /\ chain \in Lengths
  /\ log = <<>>
  /\ printed = 0
  /\ from = 0
  /\ reader = [pc |-> "poll", ready |-> FALSE, run |-> 0, exact |-> FALSE, since |-> 0,
               lines |-> <<>>, taken |-> 0, report |-> NoReport]
  /\ torn = FALSE

\* fork/render.py, then LiteLLM.
PrintLine ==
  /\ ~Listening
  /\ log' = Append(log, Script[printed + 1])
  /\ printed' = printed + 1
  /\ UNCHANGED <<run, chain, from, reader, torn>>

\* The container starts again, with the keys .env has by now.  StartedAt is cut
\* to the second, so lines of the previous start may count as this one's.
Restart ==
  /\ run < MaxRuns
  /\ run' = run + 1
  /\ chain' \in Lengths
  /\ printed' = 0
  /\ from' \in (Len(log) - printed)..Len(log)
  /\ UNCHANGED <<log, reader, torn>>

\* proxy_status: the last readiness poll.
Poll ==
  /\ reader.pc = "poll"
  /\ reader' = [reader EXCEPT !.pc = "since", !.ready = Listening, !.run = run]
  /\ UNCHANGED <<run, chain, log, printed, from, torn>>

\* Mutant: a margin of one line, from the log's first line on.
SinceEarlier ==
  /\ reader.pc = "since"
  /\ \E s \in {0, from} :
       reader' = [reader EXCEPT !.pc = "request", !.since = s - 1,
                                !.exact = s = Len(log) - printed]
  /\ UNCHANGED <<run, chain, log, printed, from, torn>>

\* Mutant: the whole log is asked for.
SinceTheBeginning ==
  /\ reader.pc = "since"
  /\ reader' = [reader EXCEPT !.pc = "request", !.since = 0,
                              !.exact = from = Len(log) - printed]
  /\ UNCHANGED <<run, chain, log, printed, from, torn>>

\* _started_at, which is 0 when the daemon does not answer 200.
Since ==
  /\ reader.pc = "since"
  /\ \E s \in {0, from} :
       reader' = [reader EXCEPT !.pc = "request", !.since = s,
                                !.exact = s = Len(log) - printed]
  /\ UNCHANGED <<run, chain, log, printed, from, torn>>

Answer(report) == reader' = [reader EXCEPT !.pc = "done", !.report = report]

\* GET /logs: the lines there are now.
Request ==
  /\ reader.pc = "request"
  /\ reader' = [reader EXCEPT !.pc = "read", !.run = IF @ = run THEN @ ELSE 0,
                              !.lines = SubSeq(log, reader.since + 1, Len(log))]
  /\ UNCHANGED <<run, chain, log, printed, from, torn>>

\* OSError, or a status other than 200: no chains.
RequestFails ==
  /\ reader.pc \in {"since", "request", "read"}
  /\ reader' = [reader EXCEPT !.pc = "failed"]
  /\ UNCHANGED <<run, chain, log, printed, from, torn>>

\* resp.read(8192), a few lines at least: up to the end of line `k`, or with a
\* part of the next one.
Take(k, rest) ==
  LET lines == SubSeq(reader.lines, 1, k) \o rest
  IN  IF lines # <<>> /\ Complete(lines)
      THEN Answer(Parse(lines))
      ELSE reader' = [reader EXCEPT !.taken = k]

ReadChunk ==
  /\ reader.pc = "read"
  /\ \E k \in (reader.taken + 1)..Len(reader.lines) :
       \/ Take(k, <<>>) /\ UNCHANGED torn
       \/ /\ k < Len(reader.lines)
          /\ \E f \in Fragments(reader.lines[k + 1]) : Take(k, <<f>>)
          /\ torn' = TRUE
  /\ UNCHANGED <<run, chain, log, printed, from>>

\* The end of the response: whatever there is.
EndOfLog ==
  /\ reader.pc = "read"
  /\ reader.taken = Len(reader.lines)
  /\ Answer(Parse(reader.lines))
  /\ UNCHANGED <<run, chain, log, printed, from, torn>>

Next ==
  \/ PrintLine \/ Restart
  \/ Poll \/ Since \/ Request \/ RequestFails \/ ReadChunk \/ EndOfLog

Spec == Init /\ [][Next]_vars

-----------------------------------------------------------------------------
(* Properties. *)

Lines == [kind : {"header", "entry", "other"}, route : Routes \union {NoRoute},
          n : Nat, run : 1..MaxRuns]

TypeOK ==
  /\ run \in 1..MaxRuns
  /\ chain \in Lengths
  /\ log \in Seq(Lines)
  /\ printed \in 0..Len(log)
  /\ from \in 0..Len(log)
  /\ reader \in [pc : {"poll", "since", "request", "read", "done", "failed"},
                 ready : BOOLEAN, run : 0..MaxRuns, exact : BOOLEAN, since : Nat,
                 lines : Seq(Lines), taken : Nat,
                 report : [seen : SUBSET Routes, chains : [Routes -> Seq(Lines)]]]
  /\ reader.taken <= Len(reader.lines)
  /\ torn \in BOOLEAN

\* The report is about the start that is still running, whose lines, and no
\* older ones, were asked for.
AboutThisStart == reader.pc = "done" /\ reader.run = run /\ reader.exact

\* "The chains printed at the container's current start": when the proxy was
\* seen ready, every route is reported with its whole chain, wherever the
\* chunks of the log end.
ReadyReportComplete ==
  AboutThisStart /\ reader.ready =>
    reader.report = [seen |-> Routes, chains |-> [r \in Routes |-> Entries(r)]]

\* It holds as long as no chunk ends inside a line: the early return of
\* docker_chains is sound at line ends, also in the middle of a block.
CompleteReport == ~torn => ReadyReportComplete

\* Ready or still booting, torn or not, the report is what some first part of
\* the start's output says: no deployment is invented, cut short, skipped or
\* moved, and a route is there only with all the routes before it.
ReportIsPrefix ==
  AboutThisStart => \E k \in 0..Len(Script) : reader.report = Parse(SubSeq(Script, 1, k))

\* "A route printed twice (two starts in the log) keeps its last block": also
\* when lines of older starts are in what was read, no chain is put together
\* from two starts.
NoMixedChain ==
  reader.pc = "done" =>
    \A r \in Routes :
      LET c == reader.report.chains[r]
      IN  \A i \in DOMAIN c : c[i].route = r /\ c[i].n = i /\ c[i].run = c[1].run

\* When two starts are read, for want of a `since` or because the proxy has
\* restarted since the poll, the newer one takes the routes over from the
\* front, as it prints them: no chain is from a newer start than the chain of
\* a route before it, whichever starts were cut short in the log.
NewerStartsFirst ==
  reader.pc = "done" =>
    \A i, j \in DOMAIN ROUTES :
      LET Chain(k) == reader.report.chains[ROUTES[k]]
      IN  i < j /\ Chain(i) # <<>> /\ Chain(j) # <<>> => Chain(i)[1].run >= Chain(j)[1].run

=============================================================================
