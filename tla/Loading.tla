------------------------------ MODULE Loading -------------------------------
(***************************************************************************)
(* From a file of bars to the frame a backtest runs on: CSVDataLoader      *)
(* (aqc/data/loaders/csv_loader.py) and DataCleaner                        *)
(* (aqc/data/preprocess/cleaner.py).  A row is its timestamp and a price   *)
(* that stands for its four; the price is given by its logarithm, or is    *)
(* missing, text that is no number, or not positive.                       *)
(***************************************************************************)
EXTENDS Integers, Sequences, FiniteSetsExt, SequencesExt, Selections

CONSTANTS
  Files,       \* the rows of the files there may be, in their order
  FillMethods, \* of "ffill", "bfill", "drop", "none"
  MinRows,     \* rows without which no outlier is looked for, 21
  ZWindow,     \* the window of the outliers' z-scores, 20
  MinPeriods,  \* returns without which there is no z-score, 5
  Thresholds   \* outlier_std_threshold: whole numbers, 0 for None

FileRows == [time : Int, price : Int]

ASSUME LoadingAssumption == Files \subseteq Seq(FileRows)

Missing == 10001
Text == 10002
NonPositive == 10003   \* a price that is 0 or less
IsPrice(p) == p < Missing

VARIABLES
  csv_file,    \* the file
  fill_method,
  frame,       \* the DataFrame
  load_step,   \* file, loaded, cleaned or raised
  options      \* the cleaner's constructor arguments

loadVars == <<csv_file, fill_method, frame, load_step, options>>

----------------------------------------------------------------------------
(* _handle_missing, in the order of the file.  Text is a value as well.    *)
FilledFrom(s, i, known, m) ==
  IF s[i].price # Missing \/ known = {} THEN s[i]
  ELSE [s[i] EXCEPT !.price = s[IF m = "ffill" THEN Max(known) ELSE Min(known)].price]

Known(s, i, m) ==
  {j \in DOMAIN s : s[j].price # Missing /\ IF m = "ffill" THEN j < i ELSE j > i}

HandleMissing(s, m) ==
  IF m \in {"ffill", "bfill"} THEN [i \in DOMAIN s |-> FilledFrom(s, i, Known(s, i, m), m)]
  ELSE IF m = "drop" THEN Select(s, {i \in DOMAIN s : s[i].price # Missing})
  ELSE s

CastNumeric(s) == [i \in DOMAIN s |-> IF s[i].price = Text THEN [s[i] EXCEPT !.price = Missing] ELSE s[i]]

(* _sort_index.  (pandas need not keep the order of equal timestamps; with *)
(* as few rows as here it does.)                                           *)
SortIndex(s) ==
  LET time == [i \in DOMAIN s |-> s[i].time] IN [k \in DOMAIN s |-> s[Ordered(time, k)]]

(* load: the log of what was loaded names its first and its last row, so   *)
(* that a file of which no row is left raises.                             *)
Loaded(df, m) ==
  /\ load_step = "file" /\ fill_method' = m
  /\ IF df = <<>> THEN load_step' = "raised" /\ UNCHANGED frame
     ELSE load_step' = "loaded" /\ frame' = df
  /\ UNCHANGED <<csv_file, options>>

(* (A slip that the checks must notice, no part of the specification:)     *)
LoadUnsorted(m) == Loaded(CastNumeric(HandleMissing(csv_file, m)), m)

LoadFile(m) == Loaded(SortIndex(CastNumeric(HandleMissing(csv_file, m))), m)

----------------------------------------------------------------------------
(* _drop_duplicates keeps the last row of a timestamp.                     *)
DropDuplicates(s) == Select(s, {i \in DOMAIN s : \A j \in DOMAIN s : s[j].time = s[i].time => j <= i})

DropNonPositive(s) == Select(s, {i \in DOMAIN s : IsPrice(s[i].price)})

(* _remove_outliers: the log returns, those there are in the window that   *)
(* ends at row i, and whether row i's is further from their mean than the  *)
(* threshold times their standard deviation (both sides squared).          *)
HasReturn(s, i) == i > 1 /\ IsPrice(s[i].price) /\ IsPrice(s[i - 1].price)
Return(s, i) == s[i].price - s[i - 1].price
WindowOf(s, i) == {j \in DOMAIN s : i - ZWindow < j /\ j <= i /\ HasReturn(s, j)}

IsOutlier(s, i, threshold) ==
  LET w == WindowOf(s, i)
      n == Cardinality(w)
      sum == MapThenSumSet(LAMBDA j : Return(s, j), w)
      squares == MapThenSumSet(LAMBDA j : Return(s, j) * Return(s, j), w)
      away == n * Return(s, i) - sum
  IN  /\ HasReturn(s, i) /\ n >= MinPeriods
      /\ away * away * (n - 1) > threshold * threshold * n * (n * squares - sum * sum)

RemoveOutliers(s, threshold) ==
  IF Len(s) < MinRows THEN s ELSE Select(s, {i \in DOMAIN s : ~IsOutlier(s, i, threshold)})

(* _fill_gaps: rows at the distance that is the most frequent, the least   *)
(* of them, from the first timestamp to the last, each with the price of   *)
(* the row at its time or else of the grid's row before.                   *)
Deltas(s) == [i \in 1..(Len(s) - 1) |-> s[i + 1].time - s[i].time]
Frequency(s, d) == Cardinality({i \in DOMAIN Deltas(s) : Deltas(s)[i] = d})
DominantFreq(s) ==
  LET ds == {Deltas(s)[i] : i \in DOMAIN Deltas(s)}
  IN  Min({d \in ds : \A e \in ds : Frequency(s, e) <= Frequency(s, d)})

GridTime(s, k) == s[1].time + (k - 1) * DominantFreq(s)
GridLength(s) == (s[Len(s)].time - s[1].time) \div DominantFreq(s) + 1
RowsUpTo(s, k) == {i \in DOMAIN s : \E l \in 1..k : s[i].time = GridTime(s, l)}

FillGaps(s) ==
  IF Len(s) < 2 THEN s
  ELSE [k \in 1..GridLength(s) |->
          [time |-> GridTime(s, k), price |-> s[Max(RowsUpTo(s, k))].price]]

HasDuplicates(s) == \E i, j \in DOMAIN s : i # j /\ s[i].time = s[j].time

(* clean, each of its steps by its option; a frame with duplicates cannot  *)
(* be reindexed.  (ffill would skip a price that is missing: FillGaps is   *)
(* used on a frame without any, or on a frame it leaves as it is.)         *)
Usual(o) ==
  LET unique == IF o.remove_duplicates THEN DropDuplicates(frame) ELSE frame
      positive == IF o.remove_non_positive THEN DropNonPositive(unique) ELSE unique
  IN  IF o.outlier_std_threshold = 0 THEN positive
      ELSE RemoveOutliers(positive, o.outlier_std_threshold)

Clean(o) ==
  /\ load_step = "loaded" /\ options' = o
  /\ IF o.fill_gaps /\ HasDuplicates(Usual(o))
     THEN load_step' = "raised" /\ UNCHANGED frame
     ELSE load_step' = "cleaned" /\ frame' = IF o.fill_gaps THEN FillGaps(Usual(o)) ELSE Usual(o)
  /\ UNCHANGED <<csv_file, fill_method>>

Options ==
  {o \in [remove_duplicates : BOOLEAN, remove_non_positive : BOOLEAN, fill_gaps : BOOLEAN,
          outlier_std_threshold : Thresholds] : o.fill_gaps => o.remove_non_positive}

----------------------------------------------------------------------------
LoadInit ==
  /\ csv_file \in Files /\ frame = <<>> /\ load_step = "file" /\ fill_method = "none"
  /\ options = [remove_duplicates |-> TRUE, remove_non_positive |-> TRUE, fill_gaps |-> FALSE,
                outlier_std_threshold |-> 5]

LoadNext ==
  \/ \E m \in FillMethods : LoadFile(m)
  \/ \E o \in Options : Clean(o)

LoadSpec == LoadInit /\ [][LoadNext]_loadVars

----------------------------------------------------------------------------
(* The backtest's clock is the index of the frame and its prices divide:   *)
(* after the two default steps of the cleaner, the timestamps are strictly *)
(* ascending and every price is one, whatever the file, the fill method    *)
(* and the other steps, also those that run after these two.               *)
FrameIsUsable ==
  load_step = "cleaned" /\ options.remove_duplicates /\ options.remove_non_positive =>
    /\ \A i \in 2..Len(frame) : frame[i - 1].time < frame[i].time
    /\ \A i \in DOMAIN frame : IsPrice(frame[i].price)

(* No bar shows a price that comes later: as long as the rows of the file  *)
(* are in the order of time and are not filled backwards, every price is   *)
(* one the file has for that time or an earlier one.  (The rows are filled *)
(* before they are sorted: in a file that has the latest row first, every  *)
(* missing price is filled with the next day's.)                           *)
Chronological == \A i \in 2..Len(csv_file) : csv_file[i - 1].time <= csv_file[i].time

NoFuturePrice ==
  Chronological /\ fill_method # "bfill" =>
    \A i \in DOMAIN frame :
      IsPrice(frame[i].price) =>
        \E j \in DOMAIN csv_file :
          csv_file[j].time <= frame[i].time /\ csv_file[j].price = frame[i].price

(* Both of the above: what load and clean return can be traded on.         *)
FrameIsSound == FrameIsUsable /\ NoFuturePrice
=============================================================================
