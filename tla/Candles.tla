------------------------------ MODULE Candles -------------------------------
(***************************************************************************)
(* Two computations over stored rows: candles of a range, loaded from the  *)
(* first table that has any and merged into buckets row by row, and the    *)
(* gaps of a range, the buckets without a row joined into ranges.          *)
(*                                                                         *)
(* Times are seconds since 1970.  A tick or a trade is a candle of one     *)
(* price; a row of prices or of a view is a candle already.  What is done  *)
(* in loops over rows for other databases is one statement on PostgreSQL   *)
(* with TimescaleDB: its buckets begin elsewhere, and of rows with the     *)
(* same time any may be the last.  A request that is refused, or whose     *)
(* statement fails, has no answer and changes nothing.                     *)
(***************************************************************************)
EXTENDS Integers, Sequences, FiniteSets, SequencesExt

CONSTANTS Contents,   (* what the tables and views can hold for a market: a set of
                         functions from Kinds to sequences of rows in time order *)
          Requests,   (* start, end, requested bucket, max_points and source, with the
                         database that answers *)
          Origin,     (* where TimescaleDB begins to count buckets: Monday, 2000-01-03 *)
          Day         (* seconds of a day *)

Views == {"ticks_1s", "ticks_3s", "ticks_5s", "ticks_7s"}
Kinds == Views \cup {"ticks", "market_trades", "prices", "none"}
Row   == [time : Int, open : Nat, high : Nat, low : Nat, close : Nat, volume : Nat, trades : Nat]

(* What the constants are assumed to be. *)
CandlesAssumption ==
    /\ \A c \in Contents : c \in [Kinds -> Seq(Row)] /\ c["none"] = <<>>
    /\ \A c \in Contents, k \in Kinds : \A i, j \in DOMAIN c[k] :
          i <= j => c[k][i].time <= c[k][j].time
    /\ \A q \in Requests : /\ q.start \in Int /\ q.end \in Int /\ q.start <= q.end
                           /\ q.size \in Nat \ {0} /\ q.max \in Nat \ {0}
                           /\ q.source \in (Kinds \ {"none"}) \cup {"auto"}
                           /\ q.database \in {"postgresql", "other"}
    /\ Origin \in Int /\ Day \in Nat \ {0}

VARIABLES tables,   (* the rows of the market *)
          request,  (* the request in progress, and how it is answered *)
          phase,    (* "idle", "merging", "candles", "joining" or "gaps" *)
          todo,     (* the rows to be merged, or the set of missing buckets to be joined *)
          answer    (* candles, each with the time of the row that closes it, or ranges *)

vars == <<tables, request, phase, todo, answer>>

Idle == [start |-> 0, end |-> 0, size |-> 1, max |-> 1, kind |-> "none", origin |-> 0,
         database |-> "other"]

(* The bucket of time t, of those counted from origin. *)
Bucket(t, size, origin) == origin + ((t - origin) \div size) * size

InRange(rows, from, to) == {i \in DOMAIN rows : from <= rows[i].time /\ rows[i].time <= to}

(* The rows of a range follow each other, being in the order of time. *)
Within(rows, from, to) ==
    LET found == InRange(rows, from, to)
    IN  IF found = {} THEN <<>> ELSE SubSeq(rows, Min(found), Max(found))

(* The first of the kinds with a row in the range. *)
FirstWith(kinds, c, from, to) ==
    LET found == {i \in DOMAIN kinds : InRange(c[kinds[i]], from, to) # {}}
    IN  IF found = {} THEN "none" ELSE kinds[Min(found)]

(* The request as it is answered: where the rows are, the bucket, and      *)
(* where the buckets are counted from.                                     *)
Accepted(q, size, kind, origin) ==
    [start |-> q.start, end |-> q.end, size |-> size, max |-> q.max, kind |-> kind,
     origin |-> origin, database |-> q.database]

(* time_bucket has an origin of its own, the loops over rows have 1970. *)
OriginOf(q) == IF q.database = "postgresql" THEN Origin ELSE 0
-----------------------------------------------------------------------------
(* load_candles_df *)

Span(q) == IF q.end > q.start THEN q.end - q.start ELSE 1

(* The requested bucket, or the one that keeps the points below the limit. *)
BucketSize(q) == IF Span(q) > q.max * q.size THEN (Span(q) + q.max - 1) \div q.max ELSE q.size

Loadable == <<"ticks", "market_trades", "prices">>

(* The source that is asked for; it loads nothing from views. *)
Source(c, q) ==
    IF q.source = "auto" THEN FirstWith(Loadable, c, q.start, q.end)
    ELSE IF q.source \in Views THEN "none" ELSE q.source

(* Prices are resampled by the timeframe whatever the limit of points,     *)
(* from the start of the day of the first row.                             *)
SizeFor(kind, q) == IF kind = "prices" THEN q.size ELSE BucketSize(q)
GridOf(kind, q, rows) ==
    IF kind = "prices" /\ rows # <<>> THEN Bucket(rows[1].time, Day, 0) ELSE OriginOf(q)

LoadCandles ==
    /\ phase = "idle"
    /\ \E c \in Contents, q \in Requests :
        LET kind == Source(c, q)
            rows == Within(c[kind], q.start, q.end)
        IN  /\ tables' = c
            /\ request' = Accepted(q, SizeFor(kind, q), kind, GridOf(kind, q, rows))
            /\ todo' = rows
            /\ phase' = "merging" /\ answer' = <<>>

(* Mutant: the close of a bucket stays that of its first row. *)
Closings_First(item, r) == {item.close}

(* The close after row r.  Of rows with the same time TimescaleDB keeps    *)
(* the one it met first, in an order of its own.                           *)
Closings(item, r) ==
    IF request.database = "postgresql" /\ request.kind # "prices" /\ r.time = item.until
    THEN {item.close, r.close} ELSE {r.close}

Opened(r, b) == [time |-> b, open |-> r.open, high |-> r.high, low |-> r.low, close |-> r.close,
                 volume |-> r.volume, trades |-> r.trades, until |-> r.time]

Merged(item, r, close) ==
    [item EXCEPT !.high = Max({@, r.high}), !.low = Min({@, r.low}), !.close = close,
                 !.volume = @ + r.volume, !.trades = @ + r.trades, !.until = r.time]

(* The rows come in the order of time, so a row belongs to the last bucket *)
(* or opens the next.                                                      *)
MergeRow ==
    /\ phase = "merging" /\ todo # <<>>
    /\ LET r == Head(todo)
           b == Bucket(r.time, request.size, request.origin)
           n == Len(answer)
       IN  IF n > 0 /\ answer[n].time = b
           THEN \E close \in Closings(answer[n], r) :
                   answer' = [answer EXCEPT ![n] = Merged(@, r, close)]
           ELSE answer' = Append(answer, Opened(r, b))
    /\ todo' = Tail(todo)
    /\ UNCHANGED <<tables, request, phase>>

CandlesReady ==
    /\ phase = "merging" /\ todo = <<>> /\ phase' = "candles"
    /\ UNCHANGED <<tables, request, todo, answer>>
-----------------------------------------------------------------------------
(* detect_gaps_data *)

AlignedStart(q) == Bucket(q.start, q.size, 0)
AlignedEnd(q)   == Bucket(q.end, q.size, 0)
TotalBuckets(q) == (AlignedEnd(q) - AlignedStart(q)) \div q.size + 1
BucketsOf(q)    == {AlignedStart(q) + q.size * i : i \in 0..(TotalBuckets(q) - 1)}

(* The views are there on PostgreSQL only, and are tried by their names. *)
Searched(q) ==
    IF q.database = "postgresql"
    THEN <<"ticks", "ticks_1s", "ticks_3s", "ticks_5s", "ticks_7s", "market_trades">>
    ELSE <<"ticks", "market_trades">>

GapSource(c, q) ==
    IF q.source = "auto" THEN FirstWith(Searched(q), c, AlignedStart(q), AlignedEnd(q)) ELSE q.source

(* The rows that are counted: up to the start of the last bucket. *)
Counted(rows, q) == InRange(rows, AlignedStart(q), AlignedEnd(q))

(* The buckets of the request, aligned to 1970, that meet none of the      *)
(* buckets that the rows are counted in.                                   *)
Missing(rows, q) ==
    {b \in BucketsOf(q) : \A i \in Counted(rows, q) : Bucket(rows[i].time, q.size, q.origin) # b}

DetectGaps ==
    /\ phase = "idle"
    /\ \E c \in Contents, q \in Requests :
        LET kind == GapSource(c, q)
            next == Accepted(q, q.size, kind, OriginOf(q))
        IN  /\ TotalBuckets(q) <= q.max /\ q.source # "prices"
            /\ q.source \in Views => q.database = "postgresql"
            /\ tables' = c /\ request' = next
            /\ todo' = Missing(c[kind], next)
            /\ phase' = "joining" /\ answer' = <<>>

(* Mutant: any later bucket continues the range. *)
Continues_Always(range, b) == b >= range.end

(* Whether missing bucket b continues the last range: its end is exclusive. *)
Continues(range, b) == b = range.end

(* _coalesce_gap_ranges: one bucket after the other, sorted. *)
JoinBucket ==
    /\ phase = "joining"
    /\ \E b \in todo :
        LET n == Len(answer)
        IN  /\ \A later \in todo : b <= later
            /\ answer' = IF n > 0 /\ Continues(answer[n], b)
                         THEN [answer EXCEPT ![n].end = b + request.size, ![n].buckets = @ + 1]
                         ELSE Append(answer, [start |-> b, end |-> b + request.size, buckets |-> 1])
            /\ todo' = todo \ {b}
    /\ UNCHANGED <<tables, request, phase>>

GapsReady ==
    /\ phase = "joining" /\ todo = {} /\ phase' = "gaps"
    /\ UNCHANGED <<tables, request, todo, answer>>

Respond ==
    /\ phase \in {"candles", "gaps"}
    /\ phase' = "idle" /\ request' = Idle /\ answer' = <<>> /\ todo' = <<>>
    /\ tables' = [k \in Kinds |-> <<>>]

Init == /\ tables = [k \in Kinds |-> <<>>] /\ request = Idle
        /\ phase = "idle" /\ todo = <<>> /\ answer = <<>>

Next == LoadCandles \/ MergeRow \/ CandlesReady \/ DetectGaps \/ JoinBucket \/ GapsReady \/ Respond

Spec == Init /\ [][Next]_vars
-----------------------------------------------------------------------------
GapRange == [start : Int, end : Int, buckets : Nat]
Candle   == [time : Int, open : Nat, high : Nat, low : Nat, close : Nat, volume : Nat,
             trades : Nat, until : Int]

(* Every variable has its type. *)
TypeOK ==
    /\ tables \in [Kinds -> Seq(Row)]
    /\ request \in [start : Int, end : Int, size : Nat \ {0}, max : Nat, kind : Kinds, origin : Int,
                    database : {"postgresql", "other"}]
    /\ phase \in {"idle", "merging", "candles", "joining", "gaps"}
    /\ todo \in (IF phase \in {"joining", "gaps"} THEN SUBSET Int ELSE Seq(Row))
    /\ answer \in (IF phase \in {"joining", "gaps"} THEN Seq(GapRange) ELSE Seq(Candle))

RowAt(i) == tables[request.kind][i]

RowsInRange == InRange(tables[request.kind], request.start, request.end)

RowsOfBucket(b) == {i \in RowsInRange : Bucket(RowAt(i).time, request.size, request.origin) = b}

(* Candles: one for each bucket with a row in the range, in the order of   *)
(* time, opened by a row that is first in time and closed by one that is   *)
(* last, with the extremes and the sums of all its rows; and, from ticks   *)
(* or trades, at most one more than max_points however long the range is.  *)
CandlesExact ==
    phase = "candles" =>
        /\ {answer[n].time : n \in DOMAIN answer}
              = {Bucket(RowAt(i).time, request.size, request.origin) : i \in RowsInRange}
        /\ \A m, n \in DOMAIN answer : m < n => answer[m].time < answer[n].time
        /\ \A n \in DOMAIN answer :
              LET rows == RowsOfBucket(answer[n].time)
              IN  /\ \E i \in rows : /\ answer[n].open = RowAt(i).open
                                     /\ \A j \in rows : RowAt(i).time <= RowAt(j).time
                  /\ \E i \in rows : /\ answer[n].close = RowAt(i).close
                                     /\ \A j \in rows : RowAt(j).time <= RowAt(i).time
                  /\ answer[n].high = Max({RowAt(i).high : i \in rows})
                  /\ answer[n].low = Min({RowAt(i).low : i \in rows})
                  /\ answer[n].volume = SumFunctionOnSet([i \in rows |-> RowAt(i).volume], rows)
        /\ request.kind # "prices" => Len(answer) <= request.max + 1

(* Buckets that are counted from 1970 and from origin are the same ones. *)
GridsMeet(q) == q.origin % q.size = 0

(* Gaps: the ranges begin at buckets of the request, are apart from each   *)
(* other by a bucket at least and in the order of time, count what they    *)
(* hold, and together hold exactly the buckets in which no row is counted. *)
(* A row is counted up to the first second of the last bucket, and when    *)
(* the bucket of the request is one of the source's: a size for which that *)
(* is never so has every bucket reported.                                  *)
GapsExact ==
    phase = "gaps" =>
        /\ \A n \in DOMAIN answer :
              /\ answer[n].start \in BucketsOf(request)
              /\ answer[n].end = answer[n].start + answer[n].buckets * request.size
              /\ n > 1 => answer[n].start > answer[n - 1].end
        /\ \A b \in BucketsOf(request) :
              (\E n \in DOMAIN answer : answer[n].start <= b /\ b < answer[n].end) <=>
              ~(/\ GridsMeet(request)
                /\ \E i \in DOMAIN tables[request.kind] :
                      /\ b <= RowAt(i).time /\ RowAt(i).time < b + request.size
                      /\ RowAt(i).time <= AlignedEnd(request))

(* What the program says of a gap, and does not keep: "no data recorded in *)
(* the bucket".  (get_market_gaps)                                         *)
GapsAreEmpty ==
    phase = "gaps" =>
        \A n \in DOMAIN answer, i \in DOMAIN tables[request.kind] :
            ~(answer[n].start <= RowAt(i).time /\ RowAt(i).time < answer[n].end)
=============================================================================
