# Verification of can-tracer

can-tracer is a Qt program that reads CAN logs (`.asc`, `.trc`, `.blf`) and DBC
files, lists the messages of the log with their names and decoded signals, and
draws signals as charts. This directory holds TLA+ models of its components,
the TLC configurations that check them on small instances, and proofs checked
by TLAPS. Paths below are relative to `src/src/`.

    tlc -config LogLoader.cfg LogLoader        # a run
    tlapm LogLoaderProofs.tla                  # the proofs of a module

## 1. The system

The program has one GUI thread with an event loop, and Qt's thread pool. Each
load is a function run on the pool by `QtConcurrent::run`; its end reaches the
GUI thread as an event of a `QFutureWatcher`. Everything else happens in slots of
the GUI thread. What makes it concurrent all the same is that file dialogs
(`QFileDialog::getOpenFileName`), the signal dialog (`exec()`) and popups run
while other events are delivered: **the end of a load may arrive while a slot
that has read the old log or database is still waiting in a dialog, or while a
popup holds an index into it.**

| component | state | operations | hard part |
|---|---|---|---|
| log loading (`mainwindow.cpp`) | `logFuture`, `logWatcher`, `log`, path box, status bar | `openFile`, worker, `onLoadLogFile`, `onPointNotify`, destructor | loads overtake each other; cancel; a finished event of an old future; the dialog |
| DBC loading (`mainwindow.cpp`) | `dbcFuture`, `dbcWatcher`, `msgDb`, path box | `openDbcFile`, worker, `onLoadDbcFile` | overtaken loads run on; a cancelled dialog loads the empty list |
| signal plots (`mainwindow.cpp`, `signalplotlistmodel.cpp`, `signalselectdialog.cpp`) | `items`, `widgets`, charts, axis settings | menu, dialog, add, remove, nine axis buttons, reset by a new log | indexes that outlive the log or database they point into; parallel lists |
| log table and lists (`canlogmodel.cpp`, `customproxymodel.cpp`, `canmsgmodel.cpp`, `cansignalmodel.h`) | highlights, filters, the proxy's cached rows, selected message, colours | context menus, filter dialog, selection, colour editor, both load handlers | caches and row numbers of replaced data |
| signal decoding (`canmsg.cpp`) | – | `parseSignal` | widths, shifts, sign, bounds |
| signal graph and chart view (`canmsg.cpp`, `mainwindow.cpp`, `customqchartview.cpp`) | points, series, search range | `getSignalGraph`, thinning in `onAddSignal`, `startSearchIndex` | boundaries of the log and of the series; NaN |
| DBC parser (`dbcparser.cpp`) | state, message under construction, database | `parseStream` per line, `parse` per file | lines are given meaning by the state that earlier lines left, over several files |
| BLF parser (`blfparser.cpp`) | `remain`, `containerData`, messages | `parse`, `getObject`, `parseObject` | objects cut by containers; skipped and truncated containers; progress |
| text parsers (`logparser.cpp`) | line number, messages | `Parser::parse`, `TextDriver::parse`, `parseLine` of two drivers | rejected lines; limits |

Interactions: the loaders call a parser on a pool thread and, in the load
handlers, replace `log` or `msgDb`, to which the models of the views hold
references, and reset those models, the plots or both. `onAddSignal` decodes the
whole log by `getSignalGraph`, which calls `parseSignal`; the chart's mouse
handler reports to the status bar, which the log loader also writes. The table,
the lists, the plots and the dialogs share one window, of which one thing is open
at a time; `MainWindow` composes them.

What makes each component correct: the loaders end with what the path box names
and never show an overtaken load; lists that run in parallel stay parallel; what
is cached (filtered rows, selected message, highlights, charts) is that of the
data now loaded; indexes are only stale in the known windows; decoding agrees
with the bits; a line is drawn through the decoded values; parsers return what
the file says whatever the cuts, the rejected lines and the order.

Left aside: the painting delegates and the list of colour names
(`colorlisteditor.cpp`; only the opening, the commit and the cancellation of the
editor appear, in `LogView`), `main.cpp`, the `.ui` layout and headers of the
tables. They have no state of their own beyond what Qt does.

## 2. The modules

| module | models | reads as |
|---|---|---|
| `FutureWatcher` | QtConcurrent, QFuture and QFutureWatcher as the code uses them (external) | a job per `run()`, the pool, the event queue of one watcher |
| `LatestWins` | abstract specification of both loaders | request, publish, stop |
| `LogLoader`, `LogLoaderProofs` | `openFile`, `onLoadLogFile`, `onPointNotify`, `~MainWindow` | extends `FutureWatcher`; refines `LatestWins` |
| `DbcLoader`, `DbcProofs` | `openDbcFile`, `onLoadDbcFile`, `~MainWindow` | extends `FutureWatcher`; refines `LatestWins`; the proofs end with those of `DbcParser`, which a load runs |
| `SignalPlot`, `MCSignalPlot`, `SignalPlotProofs` | plotted list, menu, dialog, axis buttons | one action per slot |
| `LogView`, `MCLogView`, `LogViewProofs` | log table, proxy, message and signal lists | one action per slot |
| `MainWindow`, `MCMainWindow`, `MainWindowProofs` | the window as one system, with whole load handlers | two instances of `LatestWins`, `LogView` and `SignalPlot` over one log and one database |
| `SignalDecode`, `SignalDecodeProofs` | `parseSignal` | one step per turn of either loop |
| `SignalGraph` | `getSignalGraph` and the thinning | one step per message, one per point |
| `PointSearch` | `startSearchIndex` and the mouse movement that starts it | one step per turn |
| `Chart`, `MCChart`, `ChartProofs` | `SignalGraph` composed with `PointSearch` | the search runs on the series the first produced |
| `DbcParser`, `MCDbcParser` | `parseStream`, `parseFile`, `parse` | one action per state and kind of line |
| `LogReader` | abstract specification of reading a log | messages met, spoiled, read |
| `LogParser`, `MCLogParser`, `LogParserProofs` | `Parser::parse` and the choice of a parser | `TextLog` and `BlfStream` behind one extension; refines `LogReader` |
| `BlfStream` | `BlfParser::parse`, `getObject` and `parseObject` on a stream of objects | one step per call of `parseObject` |
| `TextLog` | `TextDriver::parse`, both drivers | one step per line |

How state and actions correspond to the code:

- *Slots are atomic up to a nested event loop.* `openFile` is `OpenFile` (up to
  the dialog) and `FileAccepted` or `FileRejected` (the rest); `onAddSignal` is
  `OnAddSignal` and `DialogDone`; a popup is the action that opens it and one
  action for each lambda. Between them, `ui` tells which loop is running, and the
  load handlers are enabled in all of them.
- *A job is its own result.* `log` in `LogLoader` is the number of the job whose
  result `MainWindow::log` holds; `SignalPlot` and `LogView` have a log and a
  database instead, and may be given any of a small set at any time.
- *The composition.* `MainWindow` has each loader as `LatestWins` promises it
  (which `LogLoader` and `DbcLoader` implement, so its threads need not be
  modelled again), and the actions of `LogView` and `SignalPlot` by INSTANCE. A
  load handler is one action: publish, the part of the views, the part of the
  plots, the status bar. The plots see the database without its colours. The
  variables `log` and `msgDb` are shared; the handlers of one part that leave them
  alone leave the other part alone.
- *Refinement mappings.* A loader's `pending` is that its newest job has not been
  shown and the window is up. For `LogReader`, a message is what `TextLog` counts
  as a line of that kind and `BlfStream` as a CAN object met by a container's end;
  it is spoiled if its length is none of a frame, or the `.blf` file has lost
  bytes (a container skipped, truncated, or cut in a padding).
- *Undefined behaviour* (`at()` out of range, a null driver, a copy beyond
  `CanLogMsg::data`, a shift too large) leads to a state of its own from which
  nothing follows; the reading of `log.end()->id` gives either answer.
- *History variables*, which no guard reads, are marked as such: `fresh`, `menu.clicked`,
  `stale`, `waited`, `skipped`, `paddingCut`, and `lines` of `DbcParser`.
- *Mutants.* Definitions commented "Mutant" are the changed forms of the
  definition below them with which the properties are tested; no specification
  uses them.

Abstractions by module: texts are members of small sets; a regular expression is
the set of the texts it matches (`LogView`); a DBC or log line is what the
patterns and number conversions make of it, including the first number that does
not convert (`DbcParser`, `TextLog`); a byte array is an interval of the stream
(`BlfStream`), which is exact as long as the carried-over bytes and the container
are adjacent – when they are not the model stops in `mixed` and a property says
when that may happen; `parseSignal` keeps its arithmetic, with widths as
parameters, and leaves out the final scaling in doubles (`SignalDecode`);
decoded values are numbers or NaN (`SignalGraph`).

## 3. The runs

Nine runs check thirty-eight properties that hold.

**`log_loader`** – four loads of two readable files and one that makes the parser
throw. Four jobs are one more than a running load, a cancelled one and a queued
one together. Checks: `ResultAvailable` (`result()` neither blocks nor reads a
cancelled future), `SettledShowsPath`, `LoadingIsHonest`, `EndsOnlyOnNamedFile`
(the exception that ends the program is never that of an overtaken load), the
refinement `ImplementsLatestWins`, and the liveness of the newest load,
`LoadCompletes`.

**`dbc_loader`** – the same with the empty list of a cancelled dialog among three
inputs. It shows that leaving overtaken loads alone is harmless: `setFuture`
detaches the watcher from them.

**`signal_plot`** – two databases and the empty one, differing in length and in
the signals of a message with the same position (one has none); an empty log and
two of different spans; two charts; every setting may go one step above its
default and down to its lower bound. Two charts suffice to tell the rows of the
two lists apart; three only repeat that. `UndefinedOnlyWhenStale` delimits the
crashes: only a load in the middle of the menu or dialog, an empty log, or a
message without signals leads to an index out of range. `AddsWhatIsShown` relates
the chart that the dialog adds to what its two boxes showed, and, if a database
was loaded in between, to the one message of that database whose signal it is.

**`log_view`** – logs of zero, one and three messages over two ids; a database
that defines an id twice; filters over two columns. Three rows of which a filter
hides the first are what it takes to confuse rows of the view with rows of the
log. `HighlightsUnderMouse`: a choice in the menu highlights, or clears, the very
message or id it was opened on and no other, unless a log arrived while the menu
was open. `ListsAreCurrent`: what the lists of messages and signals have on the screen
lies within the database now loaded, so that `at()` is never out of range.

**`main_window`** – two logs, one of them empty, and a database of two messages
next to the empty one; one chart, one filter, one colour; loads of either kind
requested, overtaken, published and thrown away in every order and in the middle
of every dialog. The bounds are those of an interplay: two different contents of
each kind are what it takes to notice one that is stale, and the parts have their
larger instances in their own runs. `ScreenIsOfTheFiles` says of all parts at once
that they are of the published files, which are those named once nothing is being
read; `WaitingIsSafe`, that who opens a menu while nothing is being read meets no
stale index. That the window's steps are steps of `LogView` and `SignalPlot` is how
it is built and is not checked.

**`signal_decode`** – bytes of two bits, an `int` of four, an accumulator of six,
payloads of three bytes, `dlc` up to four: the real proportions (8, 32, 64, 8)
scaled so that a signal can lie in one byte, cross one or two boundaries, fill an
`int`, and fill the accumulator, where the mask of the sign extension is a special
case. Every payload, start bit, length and sign.

**`chart`** – every ordered log of at most four messages over two ticks of time,
with or without the signal, values 0, 1 and NaN; then the mouse at every tick and
one beyond either end, several times. Four messages give up to six points, so that
every parity of the search range and points with equal x occur. `LabelsPointUnderMouse`
judges every position of the mouse: between the ends of the line the index is that
of a point, and an index that is that of a point is that of the right one. Beyond
the ends it may be that of none (section 5).

**`dbc_parser`** – every sequence of six lines in every split into files; two ids
and two names up to renaming. Six lines hold a message with two signals, its end,
a `VAL_` line and the end of the file, or an abandoned message followed by a whole one.

**`log_reader`** – every text file of at most four lines out of eight kinds of
line on either side of each limit; for `.blf`, four streams of three objects with
each size modulo 4, at most three top-level objects, cut at each boundary of
header fields, in the bodies and in and around the paddings. Any container may be
skipped, the last may be truncated by the end of the file, and so may the header
of an object. An object can so be spread over three containers. The refinement
`ImplementsLogReader` is the promise to the user: order, no repetition, nothing
missing that the file did not spoil; `ReadingEnds` is liveness.

Symmetry is used only in `dbc_parser`, where ids and names are only compared.
Deadlock is not checked in any run: functions return, the user may do nothing
for ever, a closed window or undefined behaviour ends the model.

### Fairness

- `LogLoader`, `DbcLoader`: weak fairness of the pool for each job (a thread
  takes queued jobs; parsing a file ends, which `ReadingEnds` of `LogParser`
  checks) and of the delivery of the finished event (the event loop, nested or
  not, keeps running). Nothing is assumed of the user: a dialog may stay open for
  ever and the load completes.
- `LogParser`, `Chart`: weak fairness of the function's own steps, which run
  without waiting, and of reaching the end of a finite file. The mouse need not
  move.
- The other specifications have no liveness property and no fairness.

## 4. What is proved

| module | theorem | property |
|---|---|---|
| `LogLoaderProofs` | `TypeCorrect` | `TypeOK`, proved only |
| | `ResultIsAvailable` | `ResultAvailable` |
| | `SettledIsCurrent` | `SettledShowsPath` |
| | `LoadingMessageIsHonest` | `LoadingIsHonest` |
| | `ExceptionIsOfNamedFile` | `EndsOnlyOnNamedFile` |
| | `LogLoaderImplementsLatestWins` | `ImplementsLatestWins` |
| `DbcProofs` | `DbcResultIsAvailable` | `ResultAvailable` |
| | `DbcLoaderImplementsLatestWins` | `ImplementsLatestWins` |
| | `ParserKeepsLineOrder` | `DbInLineOrder` |
| | `ParserReadsWellFormedFiles` | `WellFormedFilesAreRead` |
| `SignalPlotProofs` | `PlotRowsMatchCharts` | `RowsMatchCharts` |
| | `PlotChartsShowCurrentLog` | `ChartsShowCurrentLog` |
| | `PlotChartsFollowSettings` | `ChartsFollowSettings` |
| | `DialogAddsWhatIsShown` | `AddsWhatIsShown` |
| | `PlotUndefinedOnlyWhenStale` | `UndefinedOnlyWhenStale` |
| `LogViewProofs` | `ViewListsAreCurrent` | `ListsAreCurrent` |
| | `ViewColorIsShown` | `ColorIsShown` |
| | `ViewFilterIsCurrent` | `FilterIsCurrent` |
| | `ViewHighlightsAreOfThisLog` | `HighlightsAreOfThisLog` |
| | `ViewHighlightsUnderMouse` | `HighlightsUnderMouse` |
| | `ViewUndefinedOnlyWhenStale` | `UndefinedOnlyWhenStale` |
| `MainWindowProofs` | `WindowLabelIsOfThisLog` | `LabelIsOfThisLog` |
| | `WindowScreenIsOfTheFiles` | `ScreenIsOfTheFiles` |
| | `WindowWaitingIsSafe` | `WaitingIsSafe` |
| `SignalDecodeProofs` | `ParseSignalTypeOK` | `TypeOK`, proved only |
| | `ParseSignalStaysInFrame` | `ThrowsOnlyBeyondPayload` |
| | `ParseSignalReadsLittleEndian` | `LittleEndianExact` |
| | `ParseSignalReadsBigEndian` | `BigEndianExact` |
| `ChartProofs` | `GraphSpansLogIfPresent` | `SpansLogIfPresent` |
| | `GraphDataIsTheSignal` | `DataIsTheSignal` |
| | `GraphDrawnLineIsData` | `DrawnLineIsData` |
| | `ChartSearchIsSound` | `SearchIsSound` |
| | `ChartLabelsPointUnderMouse` | `LabelsPointUnderMouse` |
| | `ChartSearchHalvesTheRange` | each turn of the search, for `SearchTerminates` |
| `LogParserProofs` | `ParserNumbersHaveNoGaps` | `NumbersHaveNoGaps` |
| | `ParserMixesOnlyAfterLoss` | `MixedOnlyAfterLoss` |
| | `ParserImplementsLogReader` | `ImplementsLogReader` (refinement) |
| | `ParserGoesFurther` | each turn of the loop over a container, for `ReadingEnds` |

They hold for every value of the constants under the modules' assumptions:
`MaxJobsAssumption`, `NoInputAssumption`, `UnreadableAssumption`,
`NoFilesAssumption` (loaders), `MaxLinesAssumption` (DBC parser),
`DbsAssumption`, `LogsAssumption`, `SettingsAssumption` (plots),
`ViewAssumption` (views), `WindowAssumption` (the window: those of the plots and
the views, and that no file is the empty name), `WidthAssumption` (decoding: an `int` is no
wider than `raw`, and the whole payload fits into `raw`, as 32 and 8 * 8 do into 64),
`BoundAssumption` and `ValuesAssumption` (charts) and `ParserAssumption` (the
parsers: what a line has, that the objects of a stream lie one behind the other
with their paddings between them, and that each has at least its header).
Several of them say only what kind of thing a constant is.

*Loaders.* The inductive invariant `LoadInv`: the watcher is set to the newest
job, and no other job has an event in the queue (`NewestWatched`); jobs start in
the order of their numbers (`JobsInOrder`); the path box names the newest job's
file (`NewestNamed`); the newest job is not cancelled while the window exists, so
that when it has finished a result is stored (`NewestKept`); once its event is
handled it is the one on display (`FinishedIsShown`). `SettledShowsPath` alone is
not inductive: it says nothing of a load in progress, of which one has to know
that it is the one watched and that openFile's `cancel()` never hits it. The
refinement maps `FileAccepted` (and `FilesChosen`, a cancelled dialog included) to
`Request`, the slot of the watcher to `Publish` (or to `Stop`, if the exception
ends the program), `Close` to `Stop` and all else to stuttering. The lemmas on the
pool and the watcher come first in either module and do not depend on a loader.

*Plots.* `PlotInv` joins the three invariants with two that they need:
`TimeIsOfLog` (a chart exists only for a log that is not empty, and `time` is its
span: an empty log leaves `time` as it was, which is harmless because no chart is
left) and `DialogShowsMsgDb` (until something is loaded, the menu's row exists and
the dialog lists what `msgDb` has), from which the two action properties follow.
The lists are handled by lemmas on `RemoveAt` and `Append` of sequences without
repetition.

*Views.* `ViewInv` has three parts. `ListsInv`: the database is a sequence of
messages, the lists lie within it, equal ids have the colour of the first, and
the edited row exists; the lemmas say that `findMessage` returns the first
message of an id and that `setColor` changes nothing it depends on.
`FilterIsCurrent` is inductive by itself: no handler changes the log, the
database's ids or the filters without filtering again, and a colour does not
matter to a filter. That the rows in ascending order exist at all
(`AscendingFacts`) is proved from the rank of a number in a finite set.
`HighlightInv` adds to `HighlightsAreOfThisLog` that a menu that no load has
overtaken is on the row of the log that was under the mouse and offers the opposite
of what is highlighted there; from it the two action properties follow.

*Window.* `WindowInv`: the names on display are of files, the log is that of
the file published, every chart was drawn from it. What makes the composition work
are `PlotsKeepLog` and `ViewsKeepLog`: no handler of the one part changes what the
other part reads, with the exception of a colour, which the plots do not see
(`SetColorFacts`). `ScreenInv` adds that the database is that of the file but for
its colours, so that the table is the one the *file* gives; it carries
`NewestIsShown`, without which nothing is known of a screen on which a load has
just ended. `WaitInv`: at most one dialog, menu or popup is open, and if nothing
was being read when it was opened then nothing is read now, so that its row or
its choice still exists; `WaitingIsSafe` follows from both.

*Decoding.* `LoopInv` (the bits still to take lie in the frame) gives every read
of `parseSignal` its bound. For the value one has to know where a turn ends:
`Reached` says how many bits the first *i* turns take, `BitsTaken` that the loop is
there, that it has read only bytes of the payload, and that each piece is the bits
of one byte (`Piece`), and `RawIsValue` that `raw` is the value of the pieces put
together so far. The arithmetic is in lemmas without variables: quotient and
remainder are unique, one more bit of a number adds its power of two
(`LowBitsStep`), the bits within a byte add what the byte shows, shifted to its
place (`LittleEndianPiece`), and the value of *n* bits is below 2^*n*, so that
neither `raw` nor, below the width of `int`, the shifted piece wraps
(`LittleEndianTurn`, `BigEndianTurn`). That the piece of turn *i* belongs at bit
`bitsInByte * i` needs the signal to begin with a byte or to end within the first
(`LittleEndianPlace`): there the proof fails for other signals, as the code does.
`SignIsExtended` shows that the subtraction modulo 2^64, with the mask of either
case and read as `int64_t`, is two's complement up to the full width.

*DBC parser.* `ParserInv`: the messages of the database are in order, each wholly
before the next (`Precedes`), and nothing is from a line not yet read (`ReadBy`).
The property says nothing of the message under construction, and needs to: its
signals stand behind all messages of the database (`SignalsBehind`) *always*, also
those that an abandoned message left behind, while its `BO_` line does so only
from when it is read until the message is added (`LinesBefore`). `VAL_` lines
change no line number whatever they find (`ValuesKeepLines`). `DbcParser` is seen
beside `DbcLoader` there, hence the names `ParserInit`, `ParserNext`, `ParserSpec`.

`WellFormedFilesAreRead` speaks of the end of a file. `MeaningInv` says the same of
every prefix of the lines that is well-formed: the database, with the message under
construction behind it, is what those lines say (`IsMeantDb`), and that message is
the one whose block the last line is in (`IsLineOf`), or there is none
(`~InSomeBlock`). Without the last part a `BO_` or `VAL_` line might end a message
and be lost, and a `SG_` line might be skipped or go to the wrong message. What one
more line changes in the meaning of the lines before it is stated without the
parser: nothing, for a line in no block (`DbStaysMeant`), a message without signals
(`MessageBeginsMeant`), one signal of the last message (`SignalJoinsMeant`), or one
value of one signal (`ValuesAddedMeant`). For the last, `DescribesFound` shows that
the signal that `findMessage` and `findSignal` stop at is the one that the files
describe, because the messages and their signals are in the order of their lines.

*Charts.* `ChartInv` follows a signal from the log to the mouse. `DataOK` and
`SpanOK`: the points collected are in the order of time, and start and end where
the part of the log read so far does. `ValuesOK`: they are the rows of the signal
seen so far, in a sequence that grows with them. `SeriesOK`: up to the last point
drawn all points are on the line, and those passed since then have its value
(`LineUpTo`): that is what makes it right to leave a point out. `SearchOK`: what is
left of the range is left of the mouse, what is right of it is not, which needs
that a series is in order, a consequence of `DataOK`.

*Parsers.* `TextInv`: the counter has the number of the next message.
`StreamInv`: what `remain` carries ends where the next container begins, and,
while nothing was lost, what is parsed next begins with an object or is the end of
the stream. The second half is what the property needs to be inductive: from it
the first signature found is that of the object itself, so that bytes with a
header are never given up and the next turn starts behind the object's padding.
That objects do not overlap (`ObjectsApart`) is proved from a least
counterexample. `ReaderInv`, for the refinement, says in addition what has been
taken: of a text file every message read so far that is not spoiled (`LinesInv`);
of a `.blf` file only objects that end before the place where parsing resumes,
and, while nothing was lost, all of those (`ObjectsTaken`), and that what is
carried over holds no complete object (`CarriedIsIncomplete`), without which the
last message of a file might be left in `remain`. `LogReader` counts messages; the
mapping gives each its rank among those met, and the lemmas on ranks say that
meeting more messages behind the others changes no rank and that the ranks are
all the numbers up to how many there are. From them `ReadsOn` and `Finishes` state
a step of `LogReader` in terms of sets of messages, and each handler is shown to
be one of these or to change nothing.

Only model-checked is liveness (`LoadCompletes`, `SearchTerminates`,
`ReadingEnds`), since the prover has no rules for fairness. What the two loops need
besides fairness, a measure that each turn lowers, is proved of every reachable
state: `ChartSearchHalvesTheRange` (a turn that is not the last leaves at most
half of the range) and `ParserGoesFurther` (a turn that is not the last goes on
strictly behind the place it came from, and before the end of the container, also
where a cut file has sizes read as 0). They are stated of the actions, since
`[][A]_v` lets pass a turn that changes nothing, which is the fault to be
excluded. All invariants, action properties and refinements of the runs that hold
are proved.

Some definitions are written so that they can be reasoned about: the rows the
proxy shows are *the ascending sequence of* the accepted rows (`Ascending` in
`LogView`), the thinning takes one point per step, as the loop in `onAddSignal`
does, rather than a fold, and so does the loop that puts the pieces of a signal
together; the messages met are a set whose members have ranks (`LogParser`); what
a sequence of DBC lines means is a relation between them and a database
(`IsMeantDb`), not a filter of sequences; the three powers that a truncated size
is cut to are listed (`weight` in `BlfStream`); and the powers of two are a
recursive function (`Pow` in `SignalDecode`). Induction over data is not available
as a rule; where it is needed (runs of numbers, bits of a byte, ranks) the lemmas
argue with the least number for which the claim would fail (`LeastNumber`).

## 5. Where the code does not do what it says

Three disagreements have runs of their own, each of which has TLC find a
counterexample:

| run | property | code |
|---|---|---|
| `signal_plot_cancel` | `CancelAddsNothing` | `mainwindow.cpp:262` does not look at what `exec()` returns: *Cancel* adds the signal. |
| `signal_decode_unaligned` | `LittleEndianAnywhere` | `canmsg.cpp:49` advances the shift by eight for every piece, also for a first piece of fewer bits. |
| `blf_stream_padding` (`LogReaderPadding.cfg`) | `NoCutMatters` | `blfparser.cpp:111` computes a padding from the position in the bytes; cuts in a padding and in the next signature lose a message. |

Others were met while modelling. Their statements are at the end of the modules,
under "What the code does not meet"; naming one as INVARIANT or PROPERTY in the
`.cfg` of the module gives the counterexample (those of `TextLog` through a
definition `Text!...` in `MCLogParser`).

| module, statement | code |
|---|---|
| `LogView`, `SignalsAreShown` | `canlogmodel.cpp:102` compares the row number of a signal with the length of the log. |
| `LogView`, `SignalRowsHighlightedWithMessage` | `canlogmodel.cpp:110` looks the background of a signal row up under its own row number. |
| `LogView`, `HighlightsThisMessage` | `mainwindow.cpp:172` keeps an index of the log the menu was opened on. |
| `SignalPlot`, `AddsWhatIsNamed` | `mainwindow.cpp:264` applies the indexes of the dialog to the database that is loaded when it closes, whichever it named. |
| `SignalDecode`, `LittleEndianAnyLength` | `canmsg.cpp:48` shifts an `int`, which overflows from bit 31 on. |
| `SignalGraph`, `SameRange` | `canmsg.cpp:93` adds a single point for a signal that does not occur, and reads `log.end()->id`. |
| `Chart`, `IndexInSeries` | `customqchartview.cpp:30` compares with a counter that is 0 by then: an x right of the last point gives the index behind it, one at or left of the first gives -1. |
| `DbcParser`, `SignalsOfTheirMessage` | `dbcparser.cpp:121` leaves the signals of an abandoned message to the next one. |
| `DbcParser`, `EveryMessageIsRead` | `dbcparser.cpp:169` consumes the line that ends a message, also when it is a `BO_` line. |
| `TextLog`, `DirectionIsKept` | `canmsg.h:38` takes `compare()` for equality, which inverts the direction. |
| `TextLog`, `LongMessagesAreRefused` | `logparser.cpp:98` cuts the length to eight bits before it is checked. |

The properties that do hold next to these say how far the damage goes:
`ImplementsLogReader` (all cuts outside paddings are harmless, and no message is
returned twice or out of order), `LittleEndianExact` (aligned, or within one byte,
and shorter than an `int`), `DbInLineOrder` (no line is used twice even after a bad
number), `UndefinedOnlyWhenStale` in both view modules and `WaitingIsSafe`,
`AddsWhatIsShown` (a row is a signal of one message all the same),
`LabelsPointUnderMouse` (an index that is that of a point is that of the right
one, and between the ends of the line there is one).

## 6. What is not modelled

- Regular expressions and number formats; the numbers of a DBC line (a start bit
  is cut to eight bits at `dbcparser.cpp:119`); identifiers, times and data of
  text lines; the bytes and the unchecked `dlc` of a BLF frame; the dates of the
  BLF file header.
- Scaling and display of values in doubles, texts, fonts, colours, headers and
  layout; the painting delegates.
- `main()`, the `.ui` file, and the unit tests, which served as references.
- Memory and thread counts.

## 7. State

All components of section 1 but those of section 6 are modelled, and every
property of the passing runs that is not liveness is proved. What could be added:

1. The rest of the liveness proofs, with a prover that has rules for fairness.
2. The doubles: at which widths `ret * scale + offset` is exact, and what the
   label of a point rounds away.
3. The regular expressions, as automata, to say which lines of a file the
   classes of `DbcParser` and `TextLog` stand for.
