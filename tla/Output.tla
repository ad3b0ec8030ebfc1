------------------------------- MODULE Output -------------------------------
(***************************************************************************)
(* What one instance writes, on its way from the process to whoever reads  *)
(* the log: internal/process/output_pipe.go, the end of monitorInstance,   *)
(* internal/logger (ProcessWriter, MultilineBuffer, Redactor, JSONParser,  *)
(* LevelDetector, LogFilters, LogBuffer, LogBroadcaster) and the readers   *)
(* behind /api/v1/logs and /api/v1/logs/stream.                            *)
(*                                                                         *)
(* The copier of the pipe, the multiline timer and the monitor that        *)
(* flushes when the process has exited meet at a writer's mutex.  Whoever  *)
(* takes it decides at once which entries leave (todo); each of them is    *)
(* then processed and put in the ring and, after the ring's lock is        *)
(* released, sent to the subscribers, who come and go; the mutex is free   *)
(* again after the last one.                                               *)
(*                                                                         *)
(* Text is a sequence of tokens: newlines, and fragments of some kind.  A  *)
(* pattern is the set of kinds it matches.  A descendant of the process    *)
(* may hold the pipe open and write to it after the process has exited.    *)
(*                                                                         *)
(* Where the warm tier is available (snapshotStreams) a stream's pipe is   *)
(* not an outputPipe but a snapshot.Stream, whose write end cbox-init      *)
(* keeps: its copier never sees the end, and never flushes.                *)
(***************************************************************************)
EXTENDS Integers, Sequences, FiniteSets, SequencesExt, FiniteSetsExt

CONSTANTS
    StreamOrder,    \* stdout and stderr, each with a pipe and a writer
    Kinds,          \* kinds of text fragments
    Object,         \* the kinds that are JSON objects: kind -> (key -> value)
    Braced,         \* those of them that begin with a brace
    Reserved,       \* the keys cbox-init writes on every entry
    Configs,        \* logging configurations, all of whose patterns compile, each
                    \* with snapshotStreams and with bounds: what and how much
                    \* is written to each stream, and what clients follow ("",
                    \* that is all processes, "this" process or an "other")
    MaxPartial,     \* fragments beyond which a partial line is flushed (64KB)
    MaxStored,      \* fragments of an entry the ring keeps (8KB)
    RingSize,       \* entries a ring keeps (1000)
    ChannelSize     \* entries a subscriber's channel holds (256)

Streams == Range(StreamOrder)

(* The longest text of one stream.                                         *)
MaxTokens == Max(UNION {Range(cfg.bound.tokens) : cfg \in Configs})

Newline == "newline"
Levels  == <<"debug", "info", "warn", "error">>

ASSUME OutputAssumption ==
    /\ StreamOrder \in Seq(STRING) /\ IsInjective(StreamOrder)
    /\ IsFiniteSet(Kinds) /\ Newline \notin Kinds
    /\ DOMAIN Object \subseteq Kinds /\ Braced \subseteq DOMAIN Object
    /\ \A k \in DOMAIN Object : /\ IsFiniteSet(DOMAIN Object[k])
                               /\ DOMAIN Object[k] \subseteq [name : STRING, app : Nat]
    /\ MaxPartial \in Nat /\ MaxStored \in Nat
    /\ RingSize \in Nat \ {0} /\ ChannelSize \in Nat \ {0}
    /\ \A cfg \in Configs : /\ cfg.snapshot \in BOOLEAN
                            /\ cfg.bound.kinds \subseteq Kinds
                            /\ cfg.bound.tokens \in [Streams -> Nat]
                            /\ cfg.bound.clients \subseteq {"", "this", "other"}

VARIABLES
    config,     \* the components NewProcessWriter made from cfg.Logging, and
                \* whether the streams are kept for a checkpoint
    process,    \* running or exited
    helper,     \* a descendant that inherited the pipe's write end is alive
    written,    \* per stream, every token written so far (a history)
    pipe,       \* per stream, the tokens nobody has read yet
    copier,     \* per stream: copying, flushing, done
    monitor,    \* monitorInstance: where it is, and what it has flushed
    writer,     \* per stream, what the mutex guards
    holder,     \* who holds the mutex
    todo,       \* the entries the holder still has to process
    sending,    \* the entry in the ring that Broadcast has not seen yet
    fired,      \* flushOnTimeout goroutines waiting for the mutex
    ring,       \* per stream, the LogBuffer
    sub,        \* a subscriber: got is what its channel was given of each stream
    handled,    \* per stream, ids of the tokens processed (a history)
    added,      \* per stream, the entries given to the ring (a history)
    clock       \* the time stamp of the last entry

outputVars == <<config, process, helper, written, pipe, copier, monitor, writer, holder,
                todo, sending, fired, ring, sub, handled, added, clock>>

source == <<process, helper, written>>

(* monitor.at counts the steps of monitorInstance: 0 while it waits or     *)
(* drains, then the streams it flushes.                                    *)
Acted == Len(StreamOrder) + 2

Nobody == "nobody"
None   == [none |-> TRUE]

---------------------------------------------------------------------------
(* The stages of the pipeline.  A line is a sequence of fragments, an      *)
(* entry the fragments of its lines.                                       *)

(* The text of an entry is "" only if it is one blank line.                *)
IsEmptyText(lines, text) == lines <= 1 /\ text = <<>>

MatchString(pattern, text) == \E i \in DOMAIN text : text[i].kind \in pattern

NewMultilineBuffer(cfg) ==
    IF cfg = None THEN [enabled |-> FALSE, start |-> {}, maxLines |-> 0]
    ELSE [enabled  |-> TRUE,
          start    |-> cfg.pattern,
          maxLines |-> IF cfg.maxLines = 0 THEN 100 ELSE cfg.maxLines]

NewLogFilters(cfg, minLevel) ==
    [minLevel |-> IF minLevel = "" THEN "info" ELSE minLevel,
     exclude  |-> IF cfg = None THEN {} ELSE cfg.exclude,
     include  |-> IF cfg = None THEN {} ELSE cfg.include]

NewJSONParser(cfg) ==
    IF cfg = None THEN None
    ELSE [detectAuto    |-> cfg.detectAuto,
          mergeFields   |-> cfg.mergeFields,
          messageFields |-> IF ~cfg.extractMessage THEN <<>>
                            ELSE IF cfg.messageField = "" THEN <<"message", "msg">>
                            ELSE <<cfg.messageField>>,
          levelFields   |-> IF ~cfg.extractLevel THEN <<>>
                            ELSE IF cfg.levelField = "" THEN <<"level">>
                            ELSE <<cfg.levelField>>]

NewLevelDetector(cfg) ==
    IF cfg = None THEN None
    ELSE [patterns |-> cfg.patterns,
          default  |-> IF cfg.default = "" THEN "info" ELSE cfg.default]

NewProcessWriter(cfg) ==
    [redactor  |-> cfg.redaction,
     multiline |-> NewMultilineBuffer(cfg.multiline),
     json      |-> NewJSONParser(cfg.json),
     detector  |-> NewLevelDetector(cfg.detection),
     filters   |-> NewLogFilters(cfg.filters, cfg.minLevel),
     snapshot  |-> cfg.snapshot,
     bound     |-> cfg.bound]

(* Every pattern in turn, on what the ones before it left.                 *)
Mask(kind, p) == IF kind \in p.pattern THEN p.replacement ELSE kind

Redact(text) ==
    [i \in DOMAIN text |->
        [text[i] EXCEPT !.kind = FoldLeft(Mask, @, config.redactor)]]

(* The text is one JSON object, or null when the check for a brace is off. *)
IsJSON(text) ==
    /\ config.json # None
    /\ Len(text) = 1
    /\ text[1].kind \in DOMAIN Object
    /\ config.json.detectAuto => text[1].kind \in Braced

(* The keys of an object are a name and how many times it carries the      *)
(* prefix "app_".                                                          *)
Key(name) == [name |-> name, app |-> 0]

IsString(value) == value # "number"

Without(data, key) == [k \in DOMAIN data \ {key} |-> data[k]]

(* The first of the fields that holds a string, or None.                   *)
Lifted(data, fields) ==
    LET holds == {i \in DOMAIN fields : Key(fields[i]) \in DOMAIN data
                                        /\ IsString(data[Key(fields[i])])}
    IN  IF holds = {} THEN None ELSE Key(fields[Min(holds)])

attrKey(key, data) ==
    IF key.app # 0 \/ key.name \notin Reserved THEN key
    ELSE LET free(n) == [key EXCEPT !.app = n] \notin DOMAIN data
         IN  [key EXCEPT !.app = Min({n \in 1..(Cardinality(DOMAIN data) + 1) : free(n)})]

(* The key each field is emitted under, and the level the line states, if  *)
(* any.                                                                    *)
ToLogAttrs(data) ==
    LET unnamed == Without(data, Lifted(data, config.json.messageFields))
        level   == Lifted(unnamed, config.json.levelFields)
        rest    == Without(unnamed, level)
    IN  [stated |-> IF level # None /\ data[level] \in Range(Levels) THEN data[level] ELSE "",
         keys   |-> [k \in IF config.json.mergeFields THEN DOMAIN rest ELSE {} |-> attrKey(k, rest)]]

Rank(level) == CHOOSE i \in DOMAIN Levels : Levels[i] = level

(* The most severe level one of whose patterns matches.                    *)
Detect(text) ==
    LET found == {l \in DOMAIN config.detector.patterns : MatchString(config.detector.patterns[l], text)}
    IN  IF found = {} THEN config.detector.default
        ELSE CHOOSE l \in found : \A m \in found : Rank(m) <= Rank(l)

ShouldLog(text, level) ==
    /\ Rank(level) >= Rank(config.filters.minLevel)
    /\ ~ \E p \in config.filters.exclude : MatchString(p, text)
    /\ config.filters.include # {} => \E p \in config.filters.include : MatchString(p, text)

Parse(text) == IF IsJSON(text) THEN ToLogAttrs(Object[text[1].kind])
                               ELSE [stated |-> "", keys |-> <<>>]

(* The level the line states itself, before what its words suggest.        *)
LevelOf(text, stated) ==
    IF stated # "" THEN stated
    ELSE IF config.detector # None THEN Detect(text)
    ELSE "info"

---------------------------------------------------------------------------
(* MultilineBuffer and ProcessWriter, as functions of what the mutex       *)
(* guards.  timer is pw.flushTimer: nil, running or spent; loose counts    *)
(* running timers that pw.flushTimer no longer points to; out is what the  *)
(* call has decided to emit.                                               *)

EmptyWriter == [partial |-> <<>>, lines |-> 0, text |-> <<>>, aged |-> FALSE,
                timer |-> "nil", loose |-> 0, out |-> <<>>]

Emit(w, lines, text) ==
    IF IsEmptyText(lines, text) THEN w ELSE [w EXCEPT !.out = Append(@, text)]

(* MultilineBuffer.flush, and the entry handed on unless it is empty.      *)
flush(w) == Emit([w EXCEPT !.lines = 0, !.text = <<>>, !.aged = FALSE], w.lines, w.text)

Add(w, line) ==
    LET more == [w EXCEPT !.lines = @ + 1, !.text = @ \o line]
    IN  IF config.multiline.start = {} THEN Emit(w, 1, line)
        ELSE IF MatchString(config.multiline.start, line) /\ w.lines # 0
        THEN [flush(w) EXCEPT !.lines = 1, !.text = line]
        ELSE IF more.lines >= config.multiline.maxLines THEN flush(more)
        ELSE more

(* Mutant: a timer that has gone off counts as armed.                      *)
armFlushTimerLockedOnce(w) ==
    [w EXCEPT !.timer = IF w.lines = 0 THEN "nil" ELSE IF @ = "nil" THEN "running" ELSE @]

armFlushTimerLocked(w) == [w EXCEPT !.timer = IF w.lines = 0 THEN "nil" ELSE "running"]

processLine(w, line) ==
    IF config.multiline.enabled THEN armFlushTimerLocked(Add(w, line))
                                ELSE [w EXCEPT !.out = Append(@, line)]

(* The partial line leaves the buffer and is processed.                    *)
EndLine(w) == processLine([w EXCEPT !.partial = <<>>], w.partial)

Consume(w, token) ==
    IF token.kind = Newline THEN EndLine(w) ELSE [w EXCEPT !.partial = Append(@, token)]

(* Every line a newline ends is processed, the rest stays in the buffer.   *)
Lines(w, p) ==
    LET after[i \in 0..Len(p)] == IF i = 0 THEN w ELSE Consume(after[i - 1], p[i])
    IN  after[Len(p)]

(* Mutant: the oversized buffer is processed and not reset.                *)
WriteWithoutReset(w, p) ==
    LET fed   == Lines(w, p)
        timed == IF fed.aged /\ fed.lines # 0 THEN flush(fed) ELSE fed
    IN  IF Len(timed.partial) > MaxPartial THEN processLine(timed, timed.partial) ELSE timed

(* The lines; then the multiline timeout and the bound on the buffer are   *)
(* looked at.                                                              *)
Write(w, p) ==
    LET fed   == Lines(w, p)
        timed == IF fed.aged /\ fed.lines # 0 THEN flush(fed) ELSE fed
    IN  IF Len(timed.partial) > MaxPartial THEN EndLine(timed) ELSE timed

flushOnTimeout(w) ==
    IF w.lines = 0 THEN w
    ELSE [flush(w) EXCEPT !.timer = "nil", !.loose = @ + (IF w.timer = "running" THEN 1 ELSE 0)]

(* Mutant: the multiline buffer first, then the unfinished line.           *)
FlushMultilineFirst(w) ==
    LET done == flush(w)
    IN  [IF w.partial = <<>> THEN done ELSE EndLine(done) EXCEPT !.timer = "nil"]

Flush(w) ==
    LET ended == IF w.partial = <<>> THEN w ELSE EndLine(w)
    IN  [flush(ended) EXCEPT !.timer = "nil"]

---------------------------------------------------------------------------
(* LogBuffer, LogBroadcaster and the readers.                              *)

EmptyRing == [entries |-> [i \in 0..(RingSize - 1) |-> None], index |-> 0, full |-> FALSE]

(* The retained copy of an entry; the stream gets the whole one.           *)
Stored(e) == IF Len(e.text) <= MaxStored THEN e
             ELSE [e EXCEPT !.text = SubSeq(@, 1, MaxStored)]

AddToRing(r, e) ==
    [entries |-> [r.entries EXCEPT ![r.index] = Stored(e)],
     index   |-> (r.index + 1) % RingSize,
     full    |-> r.full \/ r.index + 1 >= RingSize]

Slice(r, from, to) == [i \in 1..(to - from) |-> r.entries[from + i - 1]]

GetAll(r) == IF ~r.full THEN Slice(r, 0, r.index)
             ELSE Slice(r, r.index, RingSize) \o Slice(r, 0, r.index)

GetRecent(r, limit) ==
    LET count == IF r.full THEN RingSize ELSE r.index
        n     == Min({Max({limit, 0}), count})
    IN  IF ~r.full \/ n <= r.index THEN Slice(r, r.index - n, r.index)
        ELSE Slice(r, RingSize - (n - r.index), RingSize) \o Slice(r, 0, r.index)

Ranked(entries, i) == {e \in entries : Cardinality({d \in entries : d.time >= e.time}) = i}
The(singleton)     == CHOOSE e \in singleton : TRUE

NewestFirst(entries) == [i \in 1..Cardinality(entries) |-> The(Ranked(entries, i))]

(* Supervisor.GetLogs: every writer's entries, newest first, and no more   *)
(* than limit of them when there is a limit.                               *)
GetLogs(limit) ==
    LET of(s) == Range(IF limit > 0 THEN GetRecent(ring[s], limit) ELSE GetAll(ring[s]))
        all   == NewestFirst(UNION {of(s) : s \in Streams})
    IN  IF limit > 0 /\ Len(all) > limit THEN SubSeq(all, 1, limit) ELSE all

(* queued counts the entries in the channel that the client has not read.  *)
NoSubscriber == [live |-> FALSE, filter |-> "", from |-> [s \in Streams |-> 0],
                 got |-> [s \in Streams |-> <<>>], queued |-> 0, lost |-> FALSE]

(* Mutant: subscribers get the copy the ring keeps.                        *)
BroadcastStored(e) ==
    IF ~sub.live \/ sub.filter \notin {"", "this"} THEN sub
    ELSE IF sub.queued < ChannelSize
    THEN [sub EXCEPT !.got[e.stream] = Append(@, Stored(e)), !.queued = @ + 1]
    ELSE [sub EXCEPT !.lost = TRUE]

(* Non-blocking: an entry that finds the channel full is dropped.          *)
Broadcast(e) ==
    IF ~sub.live \/ sub.filter \notin {"", "this"} THEN sub
    ELSE IF sub.queued < ChannelSize
    THEN [sub EXCEPT !.got[e.stream] = Append(@, e), !.queued = @ + 1]
    ELSE [sub EXCEPT !.lost = TRUE]

---------------------------------------------------------------------------
OutputInit ==
    /\ config \in {NewProcessWriter(cfg) : cfg \in Configs}
    /\ process = "running" /\ helper = FALSE
    /\ written = [s \in Streams |-> <<>>]
    /\ pipe = [s \in Streams |-> <<>>]
    /\ copier = [s \in Streams |-> "copying"]
    /\ monitor = [at |-> 0, timedOut |-> FALSE, flushed |-> [s \in Streams |-> -1]]
    /\ writer = [s \in Streams |-> EmptyWriter]
    /\ holder = [s \in Streams |-> Nobody]
    /\ todo = [s \in Streams |-> <<>>]
    /\ sending = [s \in Streams |-> None]
    /\ fired = [s \in Streams |-> 0]
    /\ ring = [s \in Streams |-> EmptyRing]
    /\ sub = NoSubscriber
    /\ handled = [s \in Streams |-> <<>>]
    /\ added = [s \in Streams |-> <<>>]
    /\ clock = 0

(* The process, or a descendant that holds the pipe, writes a token.       *)
WriteToken(s, k) ==
    /\ process = "running" \/ helper
    /\ Len(written[s]) < config.bound.tokens[s]
    /\ LET t == [id |-> Len(written[s]) + 1, kind |-> k]
       IN  /\ written' = [written EXCEPT ![s] = Append(@, t)]
           /\ pipe' = [pipe EXCEPT ![s] = Append(@, t)]
    /\ UNCHANGED <<config, process, helper, copier, monitor, writer, holder, todo, sending,
                   fired, ring, sub, handled, added, clock>>

Fork ==
    /\ process = "running" /\ ~helper
    /\ helper' = TRUE
    /\ UNCHANGED <<config, process, written, pipe, copier, monitor, writer, holder, todo,
                   sending, fired, ring, sub, handled, added, clock>>

ProcessExits ==
    /\ process = "running"
    /\ process' = "exited"
    /\ UNCHANGED <<config, helper, written, pipe, copier, monitor, writer, holder, todo,
                   sending, fired, ring, sub, handled, added, clock>>

HelperExit ==
    /\ helper
    /\ helper' = FALSE
    /\ UNCHANGED <<config, process, written, pipe, copier, monitor, writer, holder, todo,
                   sending, fired, ring, sub, handled, added, clock>>

(* Somebody takes the writer's mutex and leaves its state as w; without an *)
(* entry to process the mutex is free again at once.                       *)
Take(s, who, w) ==
    /\ holder[s] = Nobody
    /\ writer' = [writer EXCEPT ![s] = [w EXCEPT !.out = <<>>]]
    /\ todo' = [todo EXCEPT ![s] = w.out]
    /\ holder' = [holder EXCEPT ![s] = IF w.out = <<>> THEN Nobody ELSE who]

emission == <<config, sending, ring, sub, handled, added, clock>>

(* io.Copy: whatever a read returned goes to Write.                        *)
Copy(s, n) ==
    /\ copier[s] = "copying"
    /\ \E w \in {Write(writer[s], SubSeq(pipe[s], 1, n))} : Take(s, "copier", w)
    /\ pipe' = [pipe EXCEPT ![s] = SubSeq(@, n + 1, Len(@))]
    /\ UNCHANGED <<source, emission, copier, monitor, fired>>

(* Every holder of the write end is gone and the pipe is empty; of a       *)
(* snapshot.Stream cbox-init holds one itself.                             *)
CopyEnds(s) ==
    /\ ~config.snapshot
    /\ copier[s] = "copying" /\ holder[s] # "copier"
    /\ pipe[s] = <<>> /\ process = "exited" /\ ~helper
    /\ Take(s, "copier", Flush(writer[s]))
    /\ copier' = [copier EXCEPT ![s] = "flushing"]
    /\ UNCHANGED <<source, emission, pipe, monitor, fired>>

CopierDone(s) ==
    /\ copier[s] = "flushing" /\ holder[s] # "copier"
    /\ copier' = [copier EXCEPT ![s] = "done"]
    /\ UNCHANGED <<source, emission, pipe, monitor, writer, holder, todo, fired>>

(* The first line of the buffered entry is older than the timeout.         *)
Age(s) ==
    /\ writer[s].lines # 0 /\ ~writer[s].aged
    /\ writer' = [writer EXCEPT ![s].aged = TRUE]
    /\ UNCHANGED <<source, emission, pipe, copier, monitor, holder, todo, fired>>

(* A timer goes off: its goroutine queues for the mutex.                   *)
Fire(s) ==
    /\ \/ /\ writer[s].timer = "running"
          /\ writer' = [writer EXCEPT ![s].timer = "spent", ![s].aged = @ \/ writer[s].lines # 0]
       \/ /\ writer[s].loose > 0
          /\ writer' = [writer EXCEPT ![s].loose = @ - 1]
    /\ fired' = [fired EXCEPT ![s] = @ + 1]
    /\ UNCHANGED <<source, emission, pipe, copier, monitor, holder, todo>>

Timeout(s) ==
    /\ fired[s] > 0
    /\ Take(s, "timer", flushOnTimeout(writer[s]))
    /\ fired' = [fired EXCEPT ![s] = @ - 1]
    /\ UNCHANGED <<source, emission, pipe, copier, monitor>>

---------------------------------------------------------------------------
(* monitorInstance after cmd.Wait: drain, flush the writers, then act on   *)
(* the exit.  Without an outputPipe there is nothing to wait for.          *)
drainOutput ==
    /\ process = "exited" /\ monitor.at = 0
    /\ \E timedOut \in BOOLEAN :
          /\ IF config.snapshot THEN ~timedOut
             ELSE timedOut \/ \A s \in Streams : copier[s] = "done"
          /\ monitor' = [monitor EXCEPT !.at = 1, !.timedOut = timedOut]
    /\ UNCHANGED <<source, emission, pipe, copier, writer, holder, todo, fired>>

FlushAtExit ==
    /\ monitor.at \in DOMAIN StreamOrder
    /\ LET s == StreamOrder[monitor.at]
       IN  /\ monitor.at > 1 => holder[StreamOrder[monitor.at - 1]] # "monitor"
           /\ Take(s, "monitor", Flush(writer[s]))
           /\ monitor' = [monitor EXCEPT !.at = @ + 1,
                                         !.flushed[s] = Len(written[s]) - Len(pipe[s])]
    /\ UNCHANGED <<source, emission, pipe, copier, fired>>

ActOnExit ==
    /\ monitor.at = Len(StreamOrder) + 1
    /\ \A s \in Streams : holder[s] # "monitor"
    /\ monitor' = [monitor EXCEPT !.at = Acted]
    /\ UNCHANGED <<source, emission, pipe, copier, writer, holder, todo, fired>>

---------------------------------------------------------------------------
IdsOf(text) == [i \in DOMAIN text |-> text[i].id]

(* processEntry for the next entry, by whoever holds the mutex: redacted,  *)
(* parsed, given a level and, unless the filters drop it, logged and put   *)
(* in the ring; then Broadcast.                                            *)

Done(s) ==
    /\ todo' = [todo EXCEPT ![s] = Tail(@)]
    /\ holder' = IF Len(todo[s]) = 1 THEN [holder EXCEPT ![s] = Nobody] ELSE holder

Log(s, entry) ==
    /\ ring' = [ring EXCEPT ![s] = AddToRing(@, entry)]
    /\ added' = [added EXCEPT ![s] = Append(@, entry)]
    /\ sending' = [sending EXCEPT ![s] = entry]
    /\ clock' = entry.time

processEntry(s) ==
    /\ todo[s] # <<>> /\ sending[s] = None
    /\ \E text \in {Redact(Head(todo[s]))} :
       \E json \in {Parse(text)} : \E level \in {LevelOf(text, json.stated)} :
          /\ handled' = [handled EXCEPT ![s] = @ \o IdsOf(text)]
          /\ \/ /\ ShouldLog(text, level)
                /\ Log(s, [stream |-> s, text |-> text, level |-> level, keys |-> json.keys,
                           time |-> clock + 1])
                /\ UNCHANGED <<todo, holder>>
             \/ /\ ~ShouldLog(text, level)
                /\ Done(s)
                /\ UNCHANGED <<ring, added, sending, clock>>
    /\ UNCHANGED <<source, config, pipe, copier, monitor, writer, fired, sub>>

Deliver(s) ==
    /\ sending[s] # None
    /\ sub' = Broadcast(sending[s])
    /\ sending' = [sending EXCEPT ![s] = None]
    /\ Done(s)
    /\ UNCHANGED <<source, config, pipe, copier, monitor, writer, fired, ring, handled, added,
                   clock>>

---------------------------------------------------------------------------
(* /api/v1/logs/stream.                                                    *)

others == <<source, config, pipe, copier, monitor, writer, holder, todo, sending, fired,
            ring, handled, added, clock>>

Sent(s) == Len(added[s]) - (IF sending[s] = None THEN 0 ELSE 1)

Subscribe(filter) ==
    /\ ~sub.live
    /\ sub' = [sub EXCEPT !.live = TRUE, !.filter = filter, !.from = [s \in Streams |-> Sent(s)]]
    /\ UNCHANGED others

ClientReads ==
    /\ sub.live /\ sub.queued > 0
    /\ sub' = [sub EXCEPT !.queued = @ - 1]
    /\ UNCHANGED others

Unsubscribe ==
    /\ sub.live
    /\ sub' = NoSubscriber
    /\ UNCHANGED others

---------------------------------------------------------------------------
Environment ==
    \/ \E s \in Streams, k \in config.bound.kinds \cup {Newline} : WriteToken(s, k)
    \/ Fork \/ ProcessExits \/ HelperExit
    \/ \E filter \in config.bound.clients : Subscribe(filter)
    \/ ClientReads \/ Unsubscribe

(* What the goroutines and the timer of a stream do by themselves.         *)
Work(s) ==
    \/ processEntry(s) \/ Deliver(s)
    \/ Fire(s) \/ Timeout(s)
    \/ CopyEnds(s) \/ CopierDone(s)
    \/ \E n \in 1..Len(pipe[s]) : Copy(s, n)

ExitSteps == drainOutput \/ FlushAtExit \/ ActOnExit

OutputNext ==
    \/ Environment
    \/ \E s \in Streams : Work(s) \/ Age(s)
    \/ ExitSteps

OutputSpec == OutputInit /\ [][OutputNext]_outputVars

(* Goroutines run, timers go off and nobody keeps a mutex for ever: as     *)
(* long as a stream has work, some of it gets done.  The process, its      *)
(* descendants and the clients owe nothing.                                *)
OutputFairness == \A s \in Streams : WF_outputVars(Work(s))

FairOutputSpec == OutputSpec /\ OutputFairness

---------------------------------------------------------------------------
(* What the holder still has to process; its first entry may already be    *)
(* in the ring.                                                            *)
Unprocessed(s) == IF sending[s] = None THEN todo[s] ELSE Tail(todo[s])

(* What has been read and not processed, the next text first.              *)
Waiting(s) == Unprocessed(s) \o <<writer[s].text, writer[s].partial>>

(* How much of the stream the copier has read, and the text in it.         *)
Taken(s)   == Len(written[s]) - Len(pipe[s])
Text(s, n) == {id \in 1..n : written[s][id].kind # Newline}

Ids(text)     == Range(IdsOf(text))
AllIds(texts) == UNION {Ids(texts[i]) : i \in DOMAIN texts}

Below(S, T)     == \A a \in S, b \in T : a < b
Increasing(ids) == \A i, j \in DOMAIN ids : i < j => ids[i] < ids[j]

(* Nothing is twice in the texts, and all of it is in the order it was     *)
(* written.                                                                *)
InOrder(texts) ==
    /\ \A i \in DOMAIN texts : Increasing(IdsOf(texts[i]))
    /\ \A i, j \in DOMAIN texts : i < j => Below(Ids(texts[i]), Ids(texts[j]))

(* Whatever is written leaves the pipeline in the order it was written,    *)
(* once: what has been processed, what is about to be and what the         *)
(* multiline buffer and the partial line hold is, in that order, the text  *)
(* of what the copier has read, and the pipe holds the rest -- with the    *)
(* copier, stale timers and the monitor flushing in any order, lines cut   *)
(* anywhere and buffers overflowing (ProcessWriter.Write, Flush and        *)
(* flushOnTimeout).                                                        *)
Conservation ==
    \A s \in Streams :
        /\ Increasing(handled[s]) /\ InOrder(Waiting(s))
        /\ Below(Range(handled[s]), AllIds(Waiting(s)))
        /\ Range(handled[s]) \cup AllIds(Waiting(s)) = Text(s, Taken(s))
        /\ pipe[s] = SubSeq(written[s], Taken(s) + 1, Len(written[s]))

(* The last words of a process are in the log before its exit is acted on: *)
(* once monitorInstance goes on, nothing the copier had passed on before   *)
(* the flush is still buffered, whole or partial; and if there was a pipe  *)
(* to drain and that did not time out, all of it is out (monitorInstance,  *)
(* drainOutput, newOutputPipe and Flush).                                  *)
CrashOutputLogged ==
    monitor.at = Acted =>
        \A s \in Streams :
            /\ \A id \in Ids(writer[s].text) \cup Ids(writer[s].partial) : id > monitor.flushed[s]
            /\ ~monitor.timedOut /\ ~config.snapshot
                   => Range(handled[s]) = Text(s, Len(written[s]))

(* Not checked, and violated: "Let what it wrote before exiting reach its  *)
(* writers first" and "Without this flush that last output ... is silently *)
(* dropped" (supervisor.go:970, 979).  With snapshot streams nothing is    *)
(* drained: what the copier passes on after the flush is logged late and,  *)
(* if it is an unterminated line, never, since the stream has no end.      *)
LastWordsAlwaysLogged ==
    monitor.at = Acted /\ ~monitor.timedOut =>
        \A s \in Streams : Range(handled[s]) = Text(s, Len(written[s]))

(* /api/v1/logs returns the newest entries the instance's rings retain,    *)
(* newest first, for every limit, however often the rings have wrapped     *)
(* (LogBuffer.Add, GetAll and GetRecent, Supervisor.GetLogs).              *)
LogsAreNewest ==
    LET retained(s) == {Stored(added[s][i]) : i \in {j \in DOMAIN added[s] : j > Len(added[s]) - RingSize}}
        all == NewestFirst(UNION {retained(s) : s \in Streams})
    IN  \A limit \in 0..(2 * RingSize + 1) :
            GetLogs(limit) = SubSeq(all, 1, IF limit = 0 THEN Len(all) ELSE Min({limit, Len(all)}))

(* A subscriber sees what the rings see: of each stream it follows it gets *)
(* only entries added since it subscribed, whole, in their order and once, *)
(* all of them while its channel has never been full, and nothing of       *)
(* another process (Subscribe, LogBuffer.Add, Broadcast and unsubscribe).  *)
StreamIsComplete ==
    \A s \in Streams :
        LET got  == sub.got[s]
            owed == SubSeq(added[s], sub.from[s] + 1, Sent(s))
        IN  /\ \A i \in DOMAIN got : got[i] \in Range(owed)
            /\ \A i, j \in DOMAIN got : i < j => got[i].time < got[j].time
            /\ sub.live /\ ~sub.lost /\ sub.filter # "other" => got = owed
            /\ sub.filter = "other" => got = <<>>

(* An entry never carries a key twice: the attributes merged from a JSON   *)
(* line have distinct names, none of them one cbox-init writes itself,     *)
(* whatever the line calls its fields (ToLogAttrs and attrKey).            *)
KeysWrittenOnce ==
    \A s \in Streams : \A i \in DOMAIN added[s] :
        LET keys == added[s][i].keys
        IN  /\ IsInjective(keys)
            /\ \A k \in Range(keys) : ~(k.app = 0 /\ k.name \in Reserved)

(* What the API shows of the output can be relied on, by paging and by     *)
(* following it, and parsed.                                               *)
LogIsReadable == LogsAreNewest /\ StreamIsComplete /\ KeysWrittenOnce

(* A complete line reaches the log even if the process never writes again: *)
(* it is read, and if the multiline buffer holds it the timer brings it    *)
(* out (armFlushTimerLocked and flushOnTimeout).                           *)
LineIsLogged ==
    \A s \in Streams : \A id \in 1..MaxTokens :
        (\E j \in DOMAIN written[s] : j > id /\ written[s][j].kind = Newline
                                     /\ written[s][id].kind # Newline)
            ~> id \in Range(handled[s])

=============================================================================
