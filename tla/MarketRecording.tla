---------------------------- MODULE MarketRecording ----------------------------
(***************************************************************************)
(* The recorded prices: src/scripts/collect_kis_market_snapshot.py asks    *)
(* the broker for the minutes before each checkpoint of a few days,        *)
(* src/app/services/market_snapshot_schema.py makes a matrix of them, one  *)
(* observation for each company and checkpoint, and                        *)
(* src/app/services/market_snapshot_store.py looks one up.                 *)
(*                                                                         *)
(* A moment is a day and a time, 0930 on day 2 being 20930.  A row of the  *)
(* broker:  at, price, open, high, low.                                    *)
(***************************************************************************)
EXTENDS NewsCollection

CONSTANTS
  CheckpointDays, CheckpointTimes,   \* CHECKPOINT_DATES, CHECKPOINT_TIMES: sequences
  TradingDays,                       \* TRADING_DATES
  PreviousDay,                       \* PREVIOUS_TRADING_DATE
  FallbackDay,                       \* the Friday whose last bar the weekend keeps
  PercentUnit                        \* a percent, in units of its last digit: 10 ^ 8

ASSUME MarketAssumption ==
  /\ PercentUnit \in Nat \ {0}
  /\ \A day \in TradingDays : PreviousDay[day] < day
  /\ FallbackDay \in TradingDays \cap ToSet(CheckpointDays)
  /\ \A i, j \in DOMAIN CheckpointDays : i < j => CheckpointDays[i] < CheckpointDays[j]
  /\ \A i, j \in DOMAIN CheckpointTimes : i < j => CheckpointTimes[i] < CheckpointTimes[j]
  /\ CheckpointDays \in Seq(Nat) /\ CheckpointTimes \in Seq(0 .. 2359) /\ TradingDays \subseteq Nat
  /\ \A day \in ToSet(CheckpointDays) \ TradingDays :
       FallbackDay < day /\ \A d \in TradingDays : d <= day => d <= FallbackDay

At(day, time) == day * 10000 + time
DayOf(moment) == moment \div 10000
TimeOf(moment) == moment % 10000

LastTime == CheckpointTimes[Len(CheckpointTimes)]
Checkpoints == {At(day, time) : day \in ToSet(CheckpointDays), time \in ToSet(CheckpointTimes)}

-----------------------------------------------------------------------------
(* The bars *)

\* parse_kis_minute_rows
RowSound(row) ==
  /\ row.low > 0 /\ row.price > 0 /\ row.open > 0
  /\ \A p \in {row.open, row.price} : row.low <= p /\ p <= row.high

Bars(rows) ==
  IF /\ rows # Invalid
     /\ IsInjective(SeqMap(LAMBDA row : row.at, rows))
     /\ \A i \in DOMAIN rows : RowSound(rows[i])
    THEN ToSet(rows) ELSE Invalid

\* select_latest_bar
LatestBar(bars, asOf) ==
  LET eligible == {bar \in bars : bar.at <= asOf} IN
  IF eligible = {} THEN Invalid
  ELSE CHOOSE bar \in eligible : \A other \in eligible : other.at <= bar.at

\* The last bar of that day up to then, as collect_market_snapshot asks for it.
Observed(feed, s, day, time, market) ==
  LET bars == Bars(feed[<<s, day, time, market>>])
      bar == LatestBar(bars, At(day, time)) IN
  IF bars = Invalid THEN Invalid
  ELSE IF bar = Invalid THEN Invalid
  ELSE IF DayOf(bar.at) # day THEN Invalid ELSE bar

-----------------------------------------------------------------------------
(* The records *)

\* quantize, which rounds to the nearest, and to the even one of two.
Rounded(n, d) ==
  LET q == n \div d
      twice == 2 * (n % d) IN
  IF twice < d \/ (twice = d /\ q % 2 = 0) THEN q ELSE q + 1

\* _market_session
Session(moment) ==
  LET time == TimeOf(moment) IN
  IF DayOf(moment) \notin TradingDays THEN "closed"
  ELSE IF time <= 850 THEN "pre_market"
  ELSE IF time <= 1520 THEN "regular"
  ELSE IF time <= 2000 THEN "after_market" ELSE "after_close"

\* build_snapshot_record
Record(s, asOf, bar, prior) ==
  IF bar.at > asOf \/ prior <= 0 THEN Invalid
  ELSE [security |-> s, checkpoint |-> asOf, day |-> DayOf(bar.at), at |-> bar.at,
        price |-> bar.price, previous |-> prior, change |-> bar.price - prior,
        percent |-> Rounded((bar.price - prior) * PercentUnit, prior),
        session |-> Session(asOf),
        status |-> IF DayOf(asOf) \in TradingDays /\ TimeOf(asOf) < 2000
                     THEN "open" ELSE "closed"]

\* _validate_snapshot_record, which does not look at the session again
RecordSound(r) ==
  /\ r.security \in ToSet(Securities) /\ r.checkpoint \in Checkpoints
  /\ r.at <= r.checkpoint /\ r.day = DayOf(r.at)
  /\ r.price > 0 /\ r.previous > 0
  /\ r.change = r.price - r.previous
  /\ r.percent = Rounded(r.change * PercentUnit, r.previous)
  /\ r.status \in {"open", "closed", "no_trade_yet", "no_data"}
  /\ r.session \in {"pre_market", "regular", "after_market", "after_close", "closed"}

Key(r) == <<r.security, r.checkpoint>>

\* build_snapshot_payload: each company and checkpoint once.  Sorted by both, the
\* records are a function of them.
Matrix(records) ==
  LET keys == {Key(records[i]) : i \in DOMAIN records} IN
  IF /\ \A i \in DOMAIN records : RecordSound(records[i])
     /\ Len(records) = Len(Securities) * Cardinality(Checkpoints)
     /\ Cardinality(keys) = Len(records)
    THEN [snapshots |-> [key \in keys |-> records[CHOOSE i \in DOMAIN records : Key(records[i]) = key]],
          sha256 |-> {records[i] : i \in DOMAIN records}]
    ELSE Invalid

\* validate_snapshot_payload
MatrixSound(payload) ==
  LET keys == DOMAIN payload.snapshots IN
  /\ keys = ToSet(Securities) \X Checkpoints
  /\ \A key \in keys : RecordSound(payload.snapshots[key]) /\ Key(payload.snapshots[key]) = key
  /\ payload.sha256 = {payload.snapshots[key] : key \in keys}

-----------------------------------------------------------------------------
(* Collection: collect_market_snapshot *)

\* A trading day asks for its own bars; a day without trade keeps the last bar of
\* the Friday before it, with that Friday's previous close.
BarFor(feed, s, day, time) ==
  IF day \in TradingDays THEN Observed(feed, s, day, time, "UN")
  ELSE Observed(feed, s, FallbackDay, LastTime, "UN")

\* Wrong: on a day without trade, the close of the last day of trade.
PriorBarOfLastDay(feed, s, day) ==
  LET previous == IF day \in TradingDays THEN PreviousDay[day] ELSE FallbackDay IN
  Observed(feed, s, previous, 1530, "J")

PriorBar(feed, s, day) ==
  LET trading == IF day \in TradingDays THEN day ELSE FallbackDay IN
  Observed(feed, s, PreviousDay[trading], 1530, "J")

Recorded(feed, s, day, time) ==
  LET bar == BarFor(feed, s, day, time)
      prior == PriorBar(feed, s, day) IN
  IF bar = Invalid \/ prior = Invalid THEN Invalid
  ELSE Record(s, At(day, time), bar, prior.price)

\* One company after the other, day by day; nothing is kept if one is missing.
CollectMarket(feed) ==
  LET ofDay(s, day) == SeqMap(LAMBDA time : Recorded(feed, s, day, time), CheckpointTimes)
      ofCompany(s) == Flat(SeqMap(LAMBDA day : ofDay(s, day), CheckpointDays))
      records == Flat(SeqMap(ofCompany, Securities)) IN
  IF \E i \in DOMAIN records : records[i] = Invalid THEN Invalid
  ELSE LET payload == Matrix(records) IN
       IF payload = Invalid THEN Invalid ELSE IF MatrixSound(payload) THEN payload ELSE Invalid

\* RecordedMarketSnapshotStore.get
Quoted(payload, s, asOf) ==
  IF <<s, asOf>> \in DOMAIN payload.snapshots THEN payload.snapshots[<<s, asOf>>] ELSE Invalid
=============================================================================
