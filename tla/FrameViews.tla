----------------------------- MODULE FrameViews -----------------------------
(***************************************************************************)
(* What the Console shows and exports of the frames: the viewing pipeline  *)
(* (src/client/src/state/monitorFrameViewing.ts), the ingestion of a fast  *)
(* feed (frameIngestion.ts), the decoder data sets (the protocol package's *)
(* decoder.ts, hooks/useDecoderDatasets.ts), the exports                   *)
(* (monitorExport.ts, monitorExportComposition.ts, AppExperience.tsx) and  *)
(* the timeline of the diagnostics (monitorDiagnostics.ts,                 *)
(* monitorSessionHistory.ts, hooks/useDiagnostics.ts).                     *)
(*                                                                         *)
(* A frame is [id, bus, ts, finds], the newest first in a feed: "finds"    *)
(* are the texts its hexadecimal id or its data contain.                   *)
(***************************************************************************)
EXTENDS Integers, Sequences, SequencesExt, FiniteSets, FiniteSetsExt, Selections

CONSTANT MaxEvents      \* of the timeline (80)
ASSUME MaxEventsAssumption == MaxEvents \in Nat

-----------------------------------------------------------------------------
(* state/monitorFrameViewing.ts                                             *)

filterFrames(frames, busFilter, text) ==
  Where(frames, LAMBDA f : (busFilter = "all" \/ f.bus = busFilter) /\ (text = "" \/ text \in f.finds))

selectVisibleFramesFloored(frames, windowSize, sampleStep) ==    \* mutant: the last step is cut off
  LET windowed == SubSeq(frames, 1, Min({windowSize, Len(frames)}))
  IN IF sampleStep <= 1 THEN windowed
     ELSE [i \in 1..Len(windowed) \div sampleStep |-> windowed[(i - 1) * sampleStep + 1]]
\* The window first, then every sampleStep-th frame of it.
selectVisibleFrames(frames, windowSize, sampleStep) ==
  LET windowed == SubSeq(frames, 1, Min({windowSize, Len(frames)}))
  IN IF sampleStep <= 1 THEN windowed
     ELSE [i \in 1..(Len(windowed) + sampleStep - 1) \div sampleStep |-> windowed[(i - 1) * sampleStep + 1]]

applyFrameViewingPipeline(frames, view) ==
  selectVisibleFrames(filterFrames(frames, view.bus, view.text), view.windowSize, view.sampleStep)

-----------------------------------------------------------------------------
(* state/frameIngestion.ts                                                  *)

initialFrameIngestionState(maxBuffer) ==
  [buffer |-> <<>>, totalIngested |-> 0, totalEvicted |-> 0,
   config |-> [maxBuffer |-> maxBuffer, windowSize |-> 50, sampleStep |-> 1, paused |-> FALSE,
               bus |-> "all", text |-> ""]]

Clamped(x, hi) == Max({1, Min({hi, x})})

\* Frames are taken in while the feed is paused, too.
frameIngestionReducer(state, action) ==
  LET cap    == state.config.maxBuffer
      merged == action.frames \o state.buffer
  IN CASE action.type = "INGEST_FRAMES" ->
            [state EXCEPT !.buffer = SubSeq(merged, 1, Min({cap, Len(merged)})),
                          !.totalIngested = @ + Len(action.frames),
                          !.totalEvicted = @ + Max({0, Len(merged) - cap})]
       [] action.type = "SET_CONFIG" ->
            [state EXCEPT !.config.windowSize = Clamped(action.windowSize, 200),
                          !.config.sampleStep = Clamped(action.sampleStep, 20)]
       [] action.type = "CLEAR_BUFFER" -> [state EXCEPT !.buffer = <<>>]
       [] action.type = "PAUSE" -> [state EXCEPT !.config.paused = TRUE]
       [] action.type = "RESUME" -> [state EXCEPT !.config.paused = FALSE]

\* What is shown of it: nothing while paused.
selectIngestedFrames(state) ==
  IF state.config.paused THEN <<>> ELSE applyFrameViewingPipeline(state.buffer, state.config)

\* In the tenths of the capacity that are full.
selectIngestionStats(state) ==
  [bufferSize |-> Len(state.buffer), utilization |-> (10 * Len(state.buffer)) \div state.config.maxBuffer,
   totalIngested |-> state.totalIngested, totalEvicted |-> state.totalEvicted]

-----------------------------------------------------------------------------
(* decoder.ts and hooks/useDecoderDatasets.ts                               *)

\* A frame of a data set is [id, signals]; one without a number is left out, and a
\* data set without a frame is none.
NoId == -1
coerceLegacyDecoderDataset(frames) == Where(frames, LAMBDA f : f.id # NoId)
selectedDecoderDataset(sets, chosen) ==
  LET usable == {n \in DOMAIN sets : coerceLegacyDecoderDataset(sets[n]) # <<>>}
  IN CASE chosen \in usable -> coerceLegacyDecoderDataset(sets[chosen])
       [] chosen \notin usable /\ usable # {} -> coerceLegacyDecoderDataset(sets[Min(usable)])
       [] OTHER -> <<>>

\* Frames of one id keep the order of the data set.
buildDecoderIndex(dataset) ==
  [id \in {dataset[i].id : i \in DOMAIN dataset} |-> Where(dataset, LAMBDA f : f.id = id)]
describeDecodedFrame(index, id) == IF id \in DOMAIN index THEN index[id] ELSE <<>>

\* AppExperience.liveDecodedFeed, frameDecodedNameByKey
liveDecodedFeed(visible, index) ==
  LET known == Where(visible, LAMBDA f : describeDecodedFrame(index, f.id) # <<>>)
  IN [i \in DOMAIN known |->
        [frame |-> known[i],
         signalCount |-> FoldLeft(LAMBDA n, entry : n + Len(entry.signals), 0,
                                  describeDecodedFrame(index, known[i].id))]]

-----------------------------------------------------------------------------
(* The exports                                                              *)

buildExportRows(frames) == frames

\* The checksum runs over the rows without the bus's name and without a mark
\* between rows; a row begins with its time.
computeExportChecksum(rows) == FlattenSeq([i \in DOMAIN rows |-> <<rows[i].ts, rows[i].bus, rows[i].id, rows[i].finds>>])
verifyExportIntegrity(rows, checksum, count) == Len(rows) = count /\ computeExportChecksum(rows) = checksum

\* The newest frame of the feed is its first.
timeframe(feed) == IF feed = <<>> THEN <<>> ELSE <<Last(feed).ts, Head(feed).ts>>
buildExportProvenance(feed, visible, view) ==
  [filters |-> view, totalFrames |-> Len(feed), filteredFrames |-> Len(visible), timeframe |-> timeframe(feed)]

\* One line for each signal of each entry, one for an entry without signals and one
\* for a frame no entry describes.
DecodedLines(frame, index) ==
  LET entries == describeDecodedFrame(index, frame.id)
      lines(entry) == IF entry.signals = <<>> THEN <<<<frame.ts, "">>>>
                      ELSE [i \in DOMAIN entry.signals |-> <<frame.ts, entry.signals[i]>>]
  IN IF entries = <<>> THEN <<<<frame.ts, "">>>> ELSE FlattenSeq([i \in DOMAIN entries |-> lines(entries[i])])

visibleFrames(feed, view) == applyFrameViewingPipeline(feed, view)
Provenance(feed, view) == buildExportProvenance(feed, visibleFrames(feed, view), view)

exportVisibleFrames(feed, view) ==
  LET rows == buildExportRows(visibleFrames(feed, view))
  IN [rows |-> rows, checksum |-> computeExportChecksum(rows), provenance |-> Provenance(feed, view),
      ok |-> verifyExportIntegrity(rows, computeExportChecksum(rows), Len(rows))]

\* The raw session is the whole feed, whatever is shown of it.
exportRawSession(feed, view) == [rows |-> feed, provenance |-> Provenance(feed, view)]

Decoded(visible, index) ==
  [i \in DOMAIN visible |-> <<visible[i].ts, describeDecodedFrame(index, visible[i].id)>>]
exportDecodedSessionJson(feed, view, index) ==
  [rows |-> Decoded(visibleFrames(feed, view), index), provenance |-> Provenance(feed, view)]

exportDecodedSessionCsv(feed, view, index) ==
  LET visible == visibleFrames(feed, view)
  IN [rows |-> FlattenSeq([i \in DOMAIN visible |-> DecodedLines(visible[i], index)]),
      provenance |-> Provenance(feed, view)]

exportSessionPackage(feed, view, index) ==
  [raw |-> feed, decoded |-> Decoded(visibleFrames(feed, view), index), provenance |-> Provenance(feed, view)]

\* The data set as a DBC file: a byte for each signal, whatever the message's
\* eight bytes hold.
DbcSignals(frame) == [i \in DOMAIN frame.signals |-> [name |-> frame.signals[i], startBit |-> (i - 1) * 8, bits |-> 8]]
ExportedDbc(dataset) == [i \in DOMAIN dataset |-> [id |-> dataset[i].id, bytes |-> 8, signals |-> DbcSignals(dataset[i])]]

-----------------------------------------------------------------------------
(* The diagnostics                                                          *)

\* [ts, category, text, ok]; the messages of the board have no time of their own.
BoardEvents(messages, now) ==
  [i \in DOMAIN messages |->
     [ts |-> now - (i - 1), category |-> "board", text |-> messages[i].text, ok |-> messages[i].type # "error"]]
Newer(a, b) == a.ts > b.ts
buildDiagnosticsEvents(lifecycle, history, messages, snapshots, now) ==
  LET all == lifecycle \o history \o BoardEvents(messages, now) \o snapshots
      sorted == SortedBy(all, Newer)
  IN SubSeq(sorted, 1, Min({MaxEvents, Len(sorted)}))

filterDiagnosticsEvents(events, text, category) ==
  Where(events, LAMBDA e : (category = "all" \/ e.category = category) /\ (text = "" \/ e.text = text))

\* The archive is appended as it is.
visibleDiagnostics(built, archive, text, category) == filterDiagnosticsEvents(built \o archive, text, category)

\* state/monitorSessionHistory.ts
filterHistoryByCommand(history, matches) == Where(history, LAMBDA e : matches = {} \/ e.command \in matches)
getRecentHistory(history, count) == SubSeq(history, 1, Min({count, Len(history)}))
Oks(history) == Len(Where(history, LAMBDA e : e.ok))
\* In percent, rounded.
getHistorySuccessRate(history) ==
  IF history = <<>> THEN 0 ELSE (200 * Oks(history) + Len(history)) \div (2 * Len(history))
getHistoryStats(history) ==
  [total |-> Len(history), successful |-> Oks(history), failed |-> Len(history) - Oks(history),
   successRate |-> getHistorySuccessRate(history)]

-----------------------------------------------------------------------------
(* What must hold of them *)

\* The feeds, views and data sets of the bounded inputs.
Frame == [id : 1..2, bus : {"0", "1"}, ts : {0}, finds : {{}, {"x"}}]
Stamped(frames) == [i \in DOMAIN frames |-> [frames[i] EXCEPT !.ts = Len(frames) - i]]
Feeds == {Stamped(frames) : frames \in UNION {[1..n -> Frame] : n \in 0..3}}
Views == [bus : {"all", "1"}, text : {"", "x"}, windowSize : 1..2, sampleStep : 0..2]
Datasets == UNION {[1..n -> [id : {NoId, 1}, signals : {<<>>, <<"a">>, <<"a", "b">>}]] : n \in 0..2}

\* What is shown are the frames that pass the filter and whose rank among those that
\* pass is in the window and on a step: of each of the two pipelines, however the feed
\* came in and however often it was paused meanwhile, as long as it fits the buffer.
Wanted(f, view) == (view.bus = "all" \/ f.bus = view.bus) /\ (view.text = "" \/ view.text \in f.finds)
Rank(feed, i, view) == Cardinality({j \in 1..i - 1 : Wanted(feed[j], view)})
Shown(feed, view) ==
  AtPlaces(feed, {i \in DOMAIN feed :
    LET rank == Rank(feed, i, view)
    IN Wanted(feed[i], view) /\ rank < view.windowSize /\ (view.sampleStep > 1 => rank % view.sampleStep = 0)})

Ingested(state, frames) == frameIngestionReducer(state, [type |-> "INGEST_FRAMES", frames |-> frames])
Does(state, type) == frameIngestionReducer(state, [type |-> type])
TakenIn(feed, cut, pausedFirst, cap) ==
  LET empty == initialFrameIngestionState(cap)
      older == Ingested(IF pausedFirst THEN Does(empty, "PAUSE") ELSE empty, SubSeq(feed, cut + 1, Len(feed)))
  IN Ingested(IF pausedFirst THEN Does(older, "RESUME") ELSE older, SubSeq(feed, 1, cut))

IngestionAgrees(feed, view, cut, pausedFirst, cap) ==
  LET taken  == TakenIn(feed, cut, pausedFirst, cap)
      config == [taken.config EXCEPT !.bus = view.bus, !.text = view.text]
      viewed == frameIngestionReducer([taken EXCEPT !.config = config],
                  [type |-> "SET_CONFIG", windowSize |-> view.windowSize, sampleStep |-> view.sampleStep])
  IN /\ selectIngestedFrames(viewed) = Shown(SubSeq(feed, 1, Min({cap, Len(feed)})), view)
     /\ taken.totalIngested = selectIngestionStats(taken).bufferSize + taken.totalEvicted
PipelinesAgree ==
  \A feed \in Feeds, view \in Views :
    /\ applyFrameViewingPipeline(feed, view) = Shown(feed, view)
    /\ \A cut \in 0..Len(feed), pausedFirst \in BOOLEAN : IngestionAgrees(feed, view, cut, pausedFirst, 2)

\* Every visible frame is exported, in every format, and the frames of the feed in the
\* raw ones; a decoded line is a signal of a frame or a frame without one.  The package
\* says of the session what its parts, exported alone, say.
ExportAgrees(feed, view, dataset) ==
  LET index   == buildDecoderIndex(dataset)
      shown   == Shown(feed, view)
      csv     == exportVisibleFrames(feed, view)
      json    == exportDecodedSessionJson(feed, view, index)
      lines   == exportDecodedSessionCsv(feed, view, index).rows
      package == exportSessionPackage(feed, view, index)
  IN /\ csv.ok /\ Len(csv.rows) = Len(shown) /\ Len(json.rows) = Len(shown)
     /\ {lines[i][1] : i \in DOMAIN lines} = {shown[i].ts : i \in DOMAIN shown}
     /\ Cardinality({lines[i][1] : i \in {j \in DOMAIN lines : lines[j][2] # ""}})
          <= Len(liveDecodedFeed(shown, index))
     /\ package.raw = exportRawSession(feed, view).rows /\ package.decoded = json.rows
     /\ package.provenance.filteredFrames = Len(package.decoded)
     /\ feed # <<>> => timeframe(feed)[1] <= timeframe(feed)[2]
ExportsAgree ==
  \A feed \in Feeds, view \in [bus : {"all", "1"}, text : {""}, windowSize : {2}, sampleStep : {1}],
     sets \in {<<d>> : d \in Datasets} :
    ExportAgrees(feed, view, selectedDecoderDataset(sets, 1))

\* The timeline keeps its newest events, and filtering after the archive is appended
\* hides nothing that the category and the text ask for.
KeepsNewest(built, events) ==
  /\ \A e \in ToSet(events) \ ToSet(built) : \A b \in ToSet(built) : b.ts >= e.ts
  /\ \A i, j \in DOMAIN built : i < j => built[i].ts >= built[j].ts
StatsAgree(history) ==
  LET stats == getHistoryStats(history)
  IN /\ stats.successful + stats.failed = stats.total
     /\ stats.successRate \in 0..100 /\ (stats.successRate = 100 <=> stats.failed = 0)
TimelineAgrees ==
  \A times \in [1..3 -> 0..2], oks \in [1..3 -> BOOLEAN] :
    LET events == [i \in 1..3 |-> [ts |-> times[i], category |-> "command", text |-> "t", ok |-> oks[i]]]
        built  == buildDiagnosticsEvents(<<events[1]>>, <<events[2]>>, <<>>, <<events[3]>>, 0)
    IN /\ KeepsNewest(built, events)
       /\ visibleDiagnostics(built, events, "", "all") = built \o events
       /\ StatsAgree(events)
===============================================================================
