----------------------------- MODULE EchoSample -----------------------------
(***************************************************************************)
(* A case of scripts/benchmark_echo.py: a warmup and the samples, each of  *)
(* which opens its connections one after the other and then runs one       *)
(* asyncio worker per connection until the deadline.  A worker gives way   *)
(* at an await and nowhere else; the counters and the window of round-trip *)
(* times are shared by the workers.                                        *)
(***************************************************************************)
EXTENDS Integers, Sequences, FiniteSets

CONSTANTS Connections,     \* how many connections a sample opens
          Repetitions,     \* samples after the warmup: 3 in the code
          MAX_RTT_SAMPLES, \* the size of the window: 4096 in the code
          Rtt,             \* round-trip times
          MaxOperations    \* bound: round trips that fit before the deadline

Worker == 1..Connections

VARIABLES
    number,     \* the sample under way: 0 is the warmup
    stage,      \* "connect" | "work" | "exit"
    conn,       \* of each worker: "closed" | "loop" | "waiting" | "done"
    owed,       \* echoes the server has yet to deliver on each connection
    expired,    \* the deadline of the sample has passed
    successes, errors, rtts,
    measured,   \* history: every round-trip time of the sample, in order
    samples,    \* operations and errors of the samples that have returned
    status      \* the exit status of the program, -1 before it exits

vars == <<number, stage, conn, owed, expired, successes, errors, rtts, measured,
          samples, status>>
counters == <<successes, errors, rtts, measured>>

AllClosed == [w \in Worker |-> "closed"]

Init ==
    /\ number = 0 /\ stage = "connect" /\ conn = AllClosed
    /\ owed = [w \in Worker |-> 0] /\ expired = FALSE
    /\ successes = 0 /\ errors = 0 /\ rtts = <<>> /\ measured = <<>>
    /\ samples = <<>> /\ status = -1

opened == {w \in Worker : conn[w] # "closed"}

----------------------------------------------------------------------------
(* sample: the connections *)

Connect ==
    /\ stage = "connect" /\ Cardinality(opened) < Connections
    /\ conn' = [conn EXCEPT ![Cardinality(opened) + 1] = "loop"]
    /\ stage' = IF Cardinality(opened) + 1 = Connections THEN "work" ELSE "connect"
    /\ UNCHANGED <<number, owed, expired, counters, samples, status>>

ConnectFailsOnly ==
    /\ stage = "connect" /\ Cardinality(opened) < Connections
    /\ stage' = "exit" /\ status' = 1
    /\ UNCHANGED <<number, conn, owed, expired, counters, samples>>

\* A connection fails or times out: connect closes its own socket, sample
\* those it has opened, and the exception ends the program.
ConnectFails ==
    /\ stage = "connect" /\ Cardinality(opened) < Connections
    /\ conn' = AllClosed
    /\ stage' = "exit" /\ status' = 1
    /\ UNCHANGED <<number, owed, expired, counters, samples>>

----------------------------------------------------------------------------
(* worker *)

Deadline ==
    /\ stage = "work" /\ ~expired
    /\ expired' = TRUE
    /\ UNCHANGED <<number, stage, conn, owed, counters, samples, status>>

\* From the head of the loop to the await: one request is written.
Request(w) ==
    /\ stage = "work" /\ conn[w] = "loop" /\ ~expired
    /\ successes < MaxOperations
    /\ conn' = [conn EXCEPT ![w] = "waiting"]
    /\ owed' = [owed EXCEPT ![w] = @ + 1]
    /\ UNCHANGED <<number, stage, expired, counters, samples, status>>

Finish(w) ==
    /\ stage = "work" /\ conn[w] = "loop" /\ expired
    /\ conn' = [conn EXCEPT ![w] = "done"]
    /\ UNCHANGED <<number, stage, owed, expired, counters, samples, status>>

WindowAt(n, rtt) ==
    IF Len(rtts) < MAX_RTT_SAMPLES THEN Append(rtts, rtt)
    ELSE [rtts EXCEPT ![(n % MAX_RTT_SAMPLES) + 1] = rtt]

\* The n-th round trip of the sample took rtt: the window once it is stored.
Window(n, rtt) ==
    IF Len(rtts) < MAX_RTT_SAMPLES THEN Append(rtts, rtt)
    ELSE [rtts EXCEPT ![((n - 1) % MAX_RTT_SAMPLES) + 1] = rtt]

\* The echo is there and is right; no await from here to the head of the loop.
\* The warmup keeps no round-trip times.
Echo(w) ==
    /\ stage = "work" /\ conn[w] = "waiting" /\ owed[w] > 0
    /\ successes' = successes + 1
    /\ \E rtt \in Rtt :
        /\ rtts' = IF number = 0 THEN rtts ELSE Window(successes', rtt)
        /\ measured' = Append(measured, rtt)
    /\ conn' = [conn EXCEPT ![w] = "loop"]
    /\ owed' = [owed EXCEPT ![w] = @ - 1]
    /\ UNCHANGED <<number, stage, expired, errors, samples, status>>

\* The echo is late, wrong or cut off: the worker breaks out of its loop.
Fails(w) ==
    /\ stage = "work" /\ conn[w] = "waiting"
    /\ errors' = errors + 1
    /\ conn' = [conn EXCEPT ![w] = "done"]
    /\ UNCHANGED <<number, stage, owed, expired, successes, rtts, measured, samples, status>>

----------------------------------------------------------------------------
(* run and main *)

Bad(sample) == sample.errors > 0 \/ sample.operations = 0

\* The warmup failed, or the last sample is in and decides the exit status.
Exit(result) ==
    \/ number = 0 /\ Bad(result)
    \/ number = Repetitions

ExitStatus(results) == IF \E i \in DOMAIN results : Bad(results[i]) THEN 1 ELSE 0

\* gather has returned: the connections are closed and the sample returns.
Return ==
    /\ stage = "work" /\ \A w \in Worker : conn[w] = "done"
    /\ conn' = AllClosed
    /\ owed' = [w \in Worker |-> 0]
    /\ samples' = Append(samples, [operations |-> successes, errors |-> errors])
    /\ IF Exit(samples'[number + 1])
       THEN /\ stage' = "exit" /\ status' = ExitStatus(samples')
            /\ UNCHANGED <<number, expired, counters>>
       ELSE /\ stage' = "connect" /\ number' = number + 1 /\ expired' = FALSE
            /\ successes' = 0 /\ errors' = 0 /\ rtts' = <<>> /\ measured' = <<>>
            /\ UNCHANGED status

Next ==
    \/ Connect \/ ConnectFails \/ Deadline \/ Return
    \/ \E w \in Worker : Request(w) \/ Finish(w) \/ Echo(w) \/ Fails(w)

Spec == Init /\ [][Next]_vars

----------------------------------------------------------------------------

\* The window of round-trip times holds those of the last MAX_RTT_SAMPLES
\* round trips of the sample, whichever workers completed them: the slot that
\* sample overwrites is the oldest one.
WindowIsLatest ==
    number > 0 =>
        /\ Len(rtts) = IF successes < MAX_RTT_SAMPLES THEN successes ELSE MAX_RTT_SAMPLES
        /\ \A i \in 1..successes : i > successes - MAX_RTT_SAMPLES =>
              rtts[((i - 1) % MAX_RTT_SAMPLES) + 1] = measured[i]

\* A worker never waits for an echo while an earlier one is outstanding: all
\* its requests carry the same bytes, so read_echo would take the late echo
\* for the answer and the round-trip time would be wrong.
NoStaleEcho == \A w \in Worker : owed[w] <= 1

\* However the program ends, no connection is left open.
NothingLeftOpen == stage = "exit" => opened = {}

\* Exit status 0 means that the warmup and every sample ran to their end, each
\* with at least one round trip and no error.
StatusIsHonest ==
    status = 0 =>
        /\ Len(samples) = Repetitions + 1
        /\ \A i \in DOMAIN samples : samples[i].errors = 0 /\ samples[i].operations > 0

\* What sample reports is measured: the window holds the latest round trips,
\* and each of them is the time of its own echo.
SampleIsRight == WindowIsLatest /\ NoStaleEcho

\* The benchmark client ends with its connections closed and earns its status.
EndsHonestly == NothingLeftOpen /\ StatusIsHonest
=============================================================================
