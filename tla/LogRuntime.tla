------------------------------- MODULE LogRuntime -------------------------------
(***************************************************************************)
(* What Roblox writes into the log of one client, and the label of its     *)
(* account: RobloxLogTailer reads the log a piece at a time,               *)
(* RobloxPlayerLogRuntime keeps the last events of every client, and the   *)
(* service applies those it has not seen (_poll_instance_logs) after it    *)
(* has reconciled the labels with the clients that run.  Scans are made by *)
(* the watcher thread and by every thread that waits for a launch, so two  *)
(* of them may be under way.                                               *)
(*                                                                         *)
(* A line stands for what the patterns make of it; lines no pattern fits   *)
(* are left out.  The monitor knows the account of the client from some    *)
(* moment on (ProcessMonitor models that).                                 *)
(***************************************************************************)
EXTENDS Integers, Sequences, SequencesExt

CONSTANTS
    Scanners,       \* threads that scan
    Kinds,          \* the kinds of line that this client writes
    MaxLines,       \* bound: lines of a file
    MaxFiles,       \* bound: files that take each other's place
    MaxScans,       \* bound: scans
    MaxRead,        \* max_read_bytes, in lines
    MaxEvents       \* max_events_per_poll

Up == {"join", "start"}
Down == {"disconnect", "stop", "return"}
LineKinds == {"join", "disconnect", "start", "pause", "leave", "stop", "return"}

ASSUME LogAssumption ==
    /\ Kinds \subseteq LineKinds /\ MaxRead \in Nat \ {0} /\ MaxEvents \in Nat \ {0}
    /\ MaxLines \in Nat /\ MaxFiles \in Nat \ {0} /\ MaxScans \in Nat

VARIABLES
    lines,          \* the file, as far as it is written
    file,           \* its fingerprint
    bound,          \* does the monitor know the account of this client?
    tail,           \* the tailer: its position and the data model it follows
    history,        \* the last events, each with the moment it was parsed
    parsed,         \* events parsed so far
    seenEvents,     \* _seen_log_event_keys
    gone,           \* is the client among _log_disconnected_pids?
    shown,          \* the label of the account
    scan,           \* [Scanners -> local variables of _scan_instances]
    scans,          \* scans begun
    clean           \* history: since the last telling line, no scan crossed another, no event was
                    \* dropped, none came before the account was known

logVars == <<lines, file, bound, tail, history, parsed, seenEvents, gone, shown, scan, scans, clean>>

NoTail == [file |-> 0, offset |-> 0, model |-> FALSE, paused |-> FALSE, stopped |-> FALSE]
NoScan == [pc |-> "idle", bound |-> FALSE, label |-> "none", todo |-> <<>>, keys |-> {}]

LogInit ==
    /\ lines = <<>> /\ file = 1 /\ bound \in BOOLEAN
    /\ tail = NoTail /\ history = <<>> /\ parsed = 0 /\ seenEvents = {}
    /\ gone = FALSE /\ shown \in {"launching", "in_game"}
    /\ scan = [t \in Scanners |-> NoScan] /\ scans = 0 /\ clean = FALSE

-----------------------------------------------------------------------------
(* The client *)

Quiet == \A t \in Scanners : scan[t].pc = "idle"

WriteLine(k) ==
    /\ Len(lines) < MaxLines
    /\ lines' = Append(lines, k)
    /\ clean' = (clean \/ (k \in {"join", "disconnect"} /\ bound /\ Quiet))
    /\ UNCHANGED <<file, bound, tail, history, parsed, seenEvents, gone, shown, scan, scans>>

ReplaceFile ==
    /\ file < MaxFiles
    /\ file' = file + 1 /\ lines' = <<>> /\ clean' = FALSE
    /\ UNCHANGED <<bound, tail, history, parsed, seenEvents, gone, shown, scan, scans>>

AccountKnown ==
    /\ ~ bound /\ bound' = TRUE
    /\ UNCHANGED <<lines, file, tail, history, parsed, seenEvents, gone, shown, scan, scans, clean>>

-----------------------------------------------------------------------------
(* _scan_instances *)

To(t, new) == scan' = [scan EXCEPT ![t] = new]

BeginScan(t) ==
    /\ scan[t].pc = "idle" /\ scans < MaxScans
    /\ scans' = scans + 1
    /\ To(t, [NoScan EXCEPT !.pc = "reconcile", !.bound = bound])
    /\ clean' = (clean /\ Quiet)
    /\ UNCHANGED <<lines, file, bound, tail, history, parsed, seenEvents, gone, shown>>

\* A client that is up is in a game, unless its log said that it no longer is.
Wanted == IF gone THEN "ready" ELSE "in_game"

\* _reconcile_account_runtime_statuses reads the label, and writes the one it should have.
Decide(t) ==
    /\ scan[t].pc = "reconcile"
    /\ \E complete \in BOOLEAN :
          To(t, [scan[t] EXCEPT
                    !.pc = IF complete THEN "read" ELSE "lost",
                    !.label = IF complete /\ scan[t].bound /\ shown # "ready" THEN Wanted ELSE "none"])
    /\ UNCHANGED <<lines, file, bound, tail, history, parsed, seenEvents, gone, shown, scans, clean>>

Relabel(t) ==
    /\ scan[t].label # "none"
    /\ shown' = scan[t].label
    /\ To(t, [scan[t] EXCEPT !.label = "none"])
    /\ UNCHANGED <<lines, file, bound, tail, history, parsed, seenEvents, gone, scans, clean>>

-----------------------------------------------------------------------------
(* RobloxPlayerLogRuntime.poll and RobloxLogTailer.poll *)

\* The event list of one poll: beyond the limit the newest are lost.
Adds(events, kind) ==
    IF Len(events) < MaxEvents THEN Append(events, kind)
    ELSE IF Contains(events, "events_dropped") THEN events
    ELSE Append(Front(events), "events_dropped")

\* The position is that of the file the tailer knows; a replaced or a shorter file is read anew.
Anew == tail.file # 0 /\ (tail.file # file \/ Len(lines) < tail.offset)
Start == IF Anew \/ tail.file = 0 THEN [NoTail EXCEPT !.file = file] ELSE tail

Follows(s, new, events, kind) == [tail |-> new, events |-> IF kind = "none" THEN events ELSE Adds(events, kind)]

\* _consume_line
Consume(s, k) ==
    LET t == s.tail
    IN  CASE k \in {"join", "disconnect"} -> Follows(s, t, s.events, k)
          [] k = "start" -> Follows(s, [t EXCEPT !.model = TRUE, !.paused = FALSE, !.stopped = FALSE], s.events, k)
          [] k = "pause" /\ t.model -> Follows(s, [t EXCEPT !.paused = TRUE], s.events, k)
          [] (k = "leave" /\ t.model) \/ (k = "stop" /\ t.paused) ->
                Follows(s, [t EXCEPT !.stopped = TRUE], s.events, "stop")
          [] k = "return" /\ (t.paused \/ t.stopped) ->
                Follows(s, [t EXCEPT !.model = FALSE, !.paused = FALSE, !.stopped = FALSE], s.events, k)
          [] OTHER -> s

\* What one poll reads, and the tailer and the events after it.
Piece == SubSeq(lines, Start.offset + 1, IF Start.offset + MaxRead < Len(lines) THEN Start.offset + MaxRead ELSE Len(lines))
Polled ==
    LET after == FoldLeft(Consume, [tail |-> Start, events |-> IF Anew THEN <<"rotated">> ELSE <<>>], Piece)
    IN  [after EXCEPT !.tail.offset = Start.offset + Len(Piece)]

\* The client has its log for sure: the piece is parsed, and the events are taken for the labels.
ReadLog(t) ==
    /\ scan[t].pc = "read" /\ scan[t].label = "none"
    /\ LET new == [i \in DOMAIN Polled.events |-> [kind |-> Polled.events[i], at |-> parsed + i]]
       IN  /\ tail' = Polled.tail
           /\ history' = history \o new
           /\ parsed' = parsed + Len(new)
           /\ clean' = (clean /\ ~ Contains(Polled.events, "events_dropped"))
           /\ To(t, [scan[t] EXCEPT !.pc = "apply", !.todo = history \o new])
    /\ UNCHANGED <<lines, file, bound, seenEvents, gone, shown, scans>>

\* An incomplete scan, or clients and logs that cannot be paired for sure: the tailers are dropped,
\* and a later poll reads the file from its start.
LoseLog(t) ==
    /\ scan[t].pc \in {"read", "lost"} /\ scan[t].label = "none"
    /\ tail' = NoTail
    /\ To(t, [scan[t] EXCEPT !.pc = "apply", !.todo = history])
    /\ UNCHANGED <<lines, file, bound, history, parsed, seenEvents, gone, shown, scans, clean>>

-----------------------------------------------------------------------------
(* _apply_log_runtime_account_states *)

\* An event that was seen in an earlier round, or has no account, changes nothing.
Skipped(t, e) == e.at \in seenEvents \/ ~ scan[t].bound

ApplyEvent(t) ==
    /\ scan[t].pc = "apply" /\ scan[t].todo # <<>>
    /\ LET e == Head(scan[t].todo)
       IN  /\ To(t, [scan[t] EXCEPT !.todo = Tail(scan[t].todo), !.keys = @ \cup {e.at}])
           /\ IF ~ Skipped(t, e) /\ e.kind \in Up \cup Down
              THEN /\ gone' = (e.kind \in Down)
                   /\ shown' = IF e.kind \in Down THEN "ready" ELSE "in_game"
              ELSE UNCHANGED <<gone, shown>>
           /\ clean' = (clean /\ scan[t].bound)
    /\ UNCHANGED <<lines, file, bound, tail, history, parsed, seenEvents, scans>>

EndScan(t) ==
    /\ scan[t].pc = "apply" /\ scan[t].todo = <<>>
    /\ seenEvents' = scan[t].keys
    /\ To(t, NoScan)
    /\ UNCHANGED <<lines, file, bound, tail, history, parsed, gone, shown, scans, clean>>

LogNext ==
    \/ \E k \in Kinds : WriteLine(k)
    \/ ReplaceFile \/ AccountKnown
    \/ \E t \in Scanners :
          \/ BeginScan(t) \/ Decide(t) \/ Relabel(t) \/ ReadLog(t) \/ LoseLog(t)
          \/ ApplyEvent(t) \/ EndScan(t)

-----------------------------------------------------------------------------
(* Properties *)

LogTypeOK ==
    /\ lines \in Seq(Kinds) /\ Len(lines) <= MaxLines /\ file \in 1..MaxFiles
    /\ {bound, gone, clean} \subseteq BOOLEAN /\ shown \in {"launching", "in_game", "ready"}
    /\ tail \in [file : 0..MaxFiles, offset : 0..MaxLines, model : BOOLEAN, paused : BOOLEAN, stopped : BOOLEAN]
    /\ parsed = Len(history) /\ seenEvents \subseteq 1..parsed /\ scans \in 0..MaxScans

\* The kind of event that the log ended with, of those that tell whether the client plays.
Verdict ==
    LET Hear(v, k) ==
            LET next == Consume([tail |-> v.tail, events |-> <<>>], k)
                tells == next.events # <<>> /\ next.events[1] \in Up \cup Down
            IN  [tail |-> next.tail, last |-> IF tells THEN next.events[1] ELSE v.last]
    IN  FoldLeft(Hear, [tail |-> NoTail, last |-> "none"], lines).last

\* A kicked client is not shown in a game, nor a playing one as ready: once the log is read to its
\* end and the scan is over, the label is what the log said last.  What scans that crossed, a
\* dropped event or an account that was known too late have spoilt is put right by the next line
\* that tells of a join or a disconnect; a log that was lost and read again changes nothing.
LabelFollowsLog ==
    clean /\ Quiet /\ tail.file = file /\ tail.offset = Len(lines) /\ scans > 0 =>
        LET verdict == Verdict IN
        /\ verdict \in Down => shown = "ready" /\ gone
        /\ verdict \in Up => shown = "in_game" /\ ~ gone
=============================================================================
