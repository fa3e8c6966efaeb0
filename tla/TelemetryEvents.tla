---------------------------- MODULE TelemetryEvents ----------------------------
(***************************************************************************)
(* The events emit-ci-phase and emit-cache-observation build: whose they   *)
(* say they are, and how they join into one trace.                         *)
(*                                                                         *)
(* An identifier is its hexadecimal digits, in capitals or not; those of a *)
(* digest are the tuple it is taken of, those a caller makes up <<word>>.  *)
(* The emitters share nothing but the job's environment, and what a caller *)
(* hands from one to another.  Fields that only have to be well formed are *)
(* left out.  "Defect" marks what is no part of the system.                *)
(***************************************************************************)
EXTENDS Integers, FiniteSets

CONSTANTS
    Job, Phase,
    RunOf,          \* RunOf[j]: the run and attempt job j belongs to
    Given,          \* identifiers a caller may make up
    Empty,           \* an input left empty
    MaxTime,        \* bound on times, in seconds
    MaxEvents       \* bound on events

VARIABLE events

Digest(of) == [digits |-> of, upper |-> FALSE]

\* The word null, a parent that is none.
Null == Digest(<<"null">>)

\* Defect: the case of a given identifier is kept.
AsGiven(value) == value

LowerCase(value) == Digest(value.digits)

\* optionalHex(value) || derived, of an input that holds a value or none.
Effective(input, derived) ==
    IF input = {} THEN derived ELSE LowerCase(CHOOSE value \in input : TRUE)

\* Defect: the attempt is no part of the trace.
TraceOfRun(j) == Digest(<<"trace", RunOf[j][1]>>)

DerivedTrace(j) == Digest(<<"trace", RunOf[j]>>)

\* Defect: the parent is the job's in its own run, whatever trace was given.
JobSpanOfRun(trace, j) == Digest(<<DerivedTrace(j), "job", j>>)

JobSpan(trace, j) == Digest(<<trace, "job", j>>)

PhaseSpan(trace, j, p) == Digest(<<trace, "job", j, "ci_phase", p>>)

\* Every observation of a job has one span.
CacheSpan(trace, j) == Digest(<<trace, "job", j, "cache_observation">>)

\* input.jobId || context.jobId
JobId(asked, context) == IF asked # Empty THEN asked ELSE context

\* durationMs: the one given, else the elapsed time.
Duration(given, elapsed) == IF given # Empty THEN given ELSE elapsed

Emit(event) == events' = events \cup {event}

Init == events = {}

-----------------------------------------------------------------------------
(* What a caller may hand over: nothing, an identifier of its own, or one that an *)
(* earlier event reported; in capitals or not.                                    *)

Optional(known) == {{}} \cup {{value} : value \in [digits : known, upper : BOOLEAN]}

Words == {<<word>> : word \in Given}

KnownTraces == Words \cup {e.trace.digits : e \in events}

KnownSpans ==
    Words \cup {e.span.digits : e \in events}
          \cup {e.parent.digits : e \in {f \in events : f.parent # Null}}

Digits(input) == {value.digits : value \in input}

NothingGiven == [trace |-> {}, span |-> {}, parent |-> {}]

-----------------------------------------------------------------------------
\* buildPhasePayload and buildCorrelation, where they do not throw; the sequence is
\* no part of any identifier.
EmitPhase(j, p) ==
    \E asked \in {j, Empty}, elapsed \in -1..MaxTime, duration \in (0..MaxTime) \cup {Empty} :
      /\ elapsed >= 0
      /\ Duration(duration, elapsed) - elapsed \in -1..1
      /\ \E traceId \in Optional(KnownTraces), spanId \in Optional(KnownSpans),
           parentSpanId \in Optional(KnownSpans) \cup {{Null}} :
           LET job == JobId(asked, j)
               trace == Effective(traceId, DerivedTrace(j))
           IN  Emit([kind |-> "ci_phase", job |-> job, of |-> RunOf[j], phase |-> p,
                     duration |-> Duration(duration, elapsed),
                     given |-> [trace |-> Digits(traceId), span |-> Digits(spanId),
                                parent |-> Digits(parentSpanId)],
                     trace |-> trace, span |-> Effective(spanId, PhaseSpan(trace, job, p)),
                     parent |-> Effective(parentSpanId, JobSpan(trace, job))])

\* buildCacheObservation: nothing is given.
EmitCache(j) ==
    \E asked \in {j, Empty}, class \in {"warm", "cold", "unknown"} :
        LET job == JobId(asked, j)
            trace == DerivedTrace(j)
        IN  Emit([kind |-> "cache_observation", job |-> job, of |-> RunOf[j],
                  phase |-> Empty, class |-> class,
                  hit |-> [warm |-> "true", cold |-> "false", unknown |-> "null"][class],
                  given |-> NothingGiven, trace |-> trace,
                  span |-> CacheSpan(trace, job),
                  parent |-> JobSpan(trace, job)])

Next ==
    /\ Cardinality(events) < MaxEvents
    /\ \E j \in Job : EmitCache(j) \/ \E p \in Phase : EmitPhase(j, p)

Spec == Init /\ [][Next]_events

-----------------------------------------------------------------------------
TypeOK ==
    /\ Cardinality(events) =< MaxEvents
    /\ \A e \in events : e.job \in Job /\ e.kind \in {"ci_phase", "cache_observation"}

\* Events built apart join without a word between their emitters, where a caller hands
\* nothing over: they share a trace exactly when they are of one run attempt, a parent
\* exactly when they are of one job in one trace, and a span exactly when they are of
\* one phase, or both observations, of one job there; and what is derived is never its
\* own parent.  Where an identifier that another event reported is handed over, in
\* whatever case, the event joins that one.
EventsJoin ==
    \A e, f \in events :
        /\ e.given.trace = {} /\ f.given.trace = {} => (e.trace = f.trace <=> e.of = f.of)
        /\ e.given.parent = {} /\ f.given.parent = {} =>
              (e.parent = f.parent <=> e.trace = f.trace /\ e.job = f.job)
        /\ e.given.span = {} /\ f.given.span = {} =>
              (e.span = f.span <=> /\ e.trace = f.trace /\ e.job = f.job
                                   /\ e.kind = f.kind /\ e.phase = f.phase)
        /\ e.given.span = {} /\ f.given.parent = {} => e.span # f.parent
        /\ f.trace.digits \in e.given.trace => e.trace = f.trace
        /\ f.span.digits \in e.given.span => e.span = f.span
        /\ f.span.digits \in e.given.parent => e.parent = f.span
=============================================================================
