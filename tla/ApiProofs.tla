------------------------------ MODULE ApiProofs ------------------------------
(***************************************************************************)
(* Theorems about the parts of the API, for every value of the constants.  *)
(***************************************************************************)
EXTENDS Api, RateLimitProofs, SequenceTheorems

-----------------------------------------------------------------------------
(***************************************************************************)
(* Billing periods, for any lengths of the months, any anchor, any number  *)
(* of requests and any number of days: they tile the calendar, and money   *)
(* is granted once for each.                                               *)
(***************************************************************************)
\* A date of the calendar.
Valid(d) == d \in Date /\ d.day <= Length(d.month)

NotAfter(d, e) == ~Before(e, d)

-----------------------------------------------------------------------------
\* Every month, before the first and after the last included, has a length.
LEMMA MonthsHaveLengths ==
  ASSUME NEW m \in Int
  PROVE  Length(m) \in 28..LongestMonth
<1>1. Len(MonthDays) \in Nat \ {0}
  BY BillingPeriodAssumption
<1>2. (m % Len(MonthDays)) + 1 \in 1..Len(MonthDays)
  BY <1>1
<1>3. \A i \in 1..Len(MonthDays) : MonthDays[i] \in 28..LongestMonth
  BY BillingPeriodAssumption, ElementOfSeq
<1>4. QED
  BY <1>2, <1>3 DEF Length

\* The anchor's day is one of every month, late enough or clamped.
LEMMA StartIsValid ==
  ASSUME NEW m \in Int, NEW a \in Day
  PROVE  Valid(StartOf(m, a)) /\ StartOf(m, a).month = m
BY MonthsHaveLengths DEF Valid, StartOf, Lesser, Date, Day, LongestMonth

\* The month a period starts in, that of the date or the one before.
LEMMA StartMonth ==
  ASSUME NEW a \in Day, NEW d, Valid(d)
  PROVE  \E m \in {d.month, d.month - 1} :
           m \in Int /\ StartFor(a, d) = StartOf(m, a) /\ ResetFor(a, d) = StartOf(m + 1, a)
<1>1. d.month \in Int
  BY DEF Valid, Date
<1>2. CASE Before(d, StartOf(d.month, a))
  BY <1>1, <1>2, StartIsValid DEF StartFor, ResetFor
<1>3. CASE ~Before(d, StartOf(d.month, a))
  BY <1>1, <1>3, StartIsValid DEF StartFor, ResetFor
<1>4. QED
  BY <1>2, <1>3

\* Every date lies in its own period.
LEMMA OwnPeriod ==
  ASSUME NEW a \in Day, NEW d, Valid(d)
  PROVE  NotAfter(StartFor(a, d), d) /\ Before(d, ResetFor(a, d))
<1>1. d.month \in Int /\ d.day \in Int
  BY DEF Valid, Date, Day
<1>2. /\ Valid(StartOf(d.month, a)) /\ StartOf(d.month, a).month = d.month
      /\ Valid(StartOf(d.month - 1, a)) /\ StartOf(d.month - 1, a).month = d.month - 1
      /\ Valid(StartOf(d.month + 1, a)) /\ StartOf(d.month + 1, a).month = d.month + 1
  BY <1>1, StartIsValid
<1>3. CASE Before(d, StartOf(d.month, a))
  <2>1. StartFor(a, d) = StartOf(d.month - 1, a) /\ ResetFor(a, d) = StartOf(d.month - 1 + 1, a)
    BY <1>2, <1>3 DEF StartFor, ResetFor
  <2>2. d.month - 1 + 1 = d.month
    BY <1>1
  <2>3. QED
    BY <1>1, <1>2, <1>3, <2>1, <2>2 DEF NotAfter, Before
<1>4. CASE ~Before(d, StartOf(d.month, a))
  <2>1. StartFor(a, d) = StartOf(d.month, a) /\ ResetFor(a, d) = StartOf(d.month + 1, a)
    BY <1>2, <1>4 DEF StartFor, ResetFor
  <2>2. QED
    BY <1>1, <1>2, <1>4, <2>1 DEF NotAfter, Before
<1>5. QED
  BY <1>3, <1>4

\* Dates from a date to its period's reset are of the same period.
LEMMA SamePeriod ==
  ASSUME NEW a \in Day, NEW d, NEW t, Valid(d), Valid(t),
         NotAfter(d, t), Before(t, ResetFor(a, d))
  PROVE  StartFor(a, t) = StartFor(a, d) /\ ResetFor(a, t) = ResetFor(a, d)
<1>1. PICK m \in {d.month, d.month - 1} :
        m \in Int /\ StartFor(a, d) = StartOf(m, a) /\ ResetFor(a, d) = StartOf(m + 1, a)
  BY StartMonth
<1>2. /\ Valid(StartOf(m, a)) /\ StartOf(m, a).month = m
      /\ Valid(StartOf(m + 1, a)) /\ StartOf(m + 1, a).month = m + 1
  BY <1>1, StartIsValid
<1>3. NotAfter(StartOf(m, a), d)
  BY <1>1, OwnPeriod
<1>4. /\ d.month \in Int /\ d.day \in Int /\ t.month \in Int /\ t.day \in Int
      /\ StartOf(m, a).day \in Int /\ StartOf(m + 1, a).day \in Int
  BY <1>2 DEF Valid, Date, Day
<1>5. t.month \in {m, m + 1}
  BY <1>1, <1>2, <1>3, <1>4 DEF Before, NotAfter
<1>6. CASE t.month = m
  <2>1. ~Before(t, StartOf(m, a))
    BY <1>2, <1>3, <1>4, <1>6 DEF Before, NotAfter
  <2>2. StartFor(a, t) = StartOf(m, a)
    BY <2>1, <1>6 DEF StartFor
  <2>3. QED
    BY <2>2, <1>1 DEF ResetFor
<1>7. CASE t.month = m + 1
  <2>1. Before(t, StartOf(t.month, a)) /\ t.month - 1 = m
    BY <1>1, <1>7
  <2>2. StartFor(a, t) = StartOf(m, a)
    BY <2>1 DEF StartFor
  <2>3. QED
    BY <2>2, <1>1 DEF ResetFor
<1>8. QED
  BY <1>5, <1>6, <1>7

\* The day after is the next date of the calendar: none lies between.
LEMMA TomorrowIsNext ==
  ASSUME NEW d, Valid(d)
  PROVE  /\ Valid(Tomorrow(d)) /\ Before(d, Tomorrow(d))
         /\ \A e : Valid(e) /\ Before(d, e) => NotAfter(Tomorrow(d), e)
<1>1. d.month \in Int /\ d.day \in Day /\ d = [month |-> d.month, day |-> d.day]
  BY DEF Valid, Date
<1>2. Length(d.month) \in 28..LongestMonth /\ Length(d.month + 1) \in 28..LongestMonth
  BY <1>1, MonthsHaveLengths
<1>3. CASE d.day < Length(d.month)
  <2>1. Tomorrow(d) = [month |-> d.month, day |-> d.day + 1]
    BY <1>1, <1>3 DEF Tomorrow
  <2>2. QED
    BY <1>1, <1>2, <1>3, <2>1 DEF Valid, Date, Day, Before, NotAfter, LongestMonth
<1>4. CASE ~(d.day < Length(d.month))
  <2>1. Tomorrow(d) = [month |-> d.month + 1, day |-> 1]
    BY <1>4 DEF Tomorrow
  <2>2. d.day = Length(d.month)
    BY <1>1, <1>2, <1>4 DEF Valid, Day, LongestMonth
  <2>3. Valid(Tomorrow(d)) /\ Before(d, Tomorrow(d))
    BY <1>1, <1>2, <2>1 DEF Valid, Date, Day, Before, LongestMonth
  <2>4. ASSUME NEW e, Valid(e), Before(d, e) PROVE NotAfter(Tomorrow(d), e)
    <3>1. e.month \in Int /\ e.day \in Day /\ e.day <= Length(e.month)
      BY <2>4 DEF Valid, Date
    <3>2. QED
      BY <1>1, <2>1, <2>2, <2>4, <3>1 DEF Before, NotAfter, Day, LongestMonth
  <2>5. QED
    BY <2>3, <2>4
<1>5. QED
  BY <1>3, <1>4

\* The next day is of the same period, or starts the next one.
LEMMA NextDayTiles ==
  ASSUME NEW a \in Day, NEW d, Valid(d)
  PROVE  \/ StartFor(a, Tomorrow(d)) = StartFor(a, d)
         \/ StartFor(a, Tomorrow(d)) = Tomorrow(d) /\ Tomorrow(d) = ResetFor(a, d)
<1> DEFINE t == Tomorrow(d)
<1>1. Valid(t) /\ NotAfter(d, t)
  BY TomorrowIsNext DEF NotAfter, Before, Valid, Date, Day
<1>2. CASE Before(t, ResetFor(a, d))
  BY <1>1, <1>2, SamePeriod
<1>3. CASE ~Before(t, ResetFor(a, d))
  <2>1. PICK m \in {d.month, d.month - 1} : m \in Int /\ ResetFor(a, d) = StartOf(m + 1, a)
    BY StartMonth
  <2>2. PICK r : r = ResetFor(a, d)
    OBVIOUS
  <2>3. Valid(r) /\ r = StartOf(m + 1, a) /\ r.month = m + 1
    BY <2>1, <2>2, StartIsValid
  <2>4. Before(d, r)
    BY <2>2, OwnPeriod
  <2>5. NotAfter(t, r)
    BY <2>3, <2>4, TomorrowIsNext
  <2>6. t = r
    <3>1. t.month = r.month /\ t.day = r.day
      BY <1>1, <1>3, <2>2, <2>3, <2>5 DEF NotAfter, Before, Valid, Date, Day, LongestMonth
    <3>2. QED
      BY <1>1, <2>3, <3>1 DEF Valid, Date
  <2>7. StartFor(a, r) = r
    <3>1. ~Before(r, r)
      BY <2>3 DEF Before, Valid, Date, Day
    <3>2. QED
      BY <2>3, <3>1 DEF StartFor
  <2>8. QED
    BY <2>2, <2>6, <2>7
<1>4. QED
  BY <1>2, <1>3

-----------------------------------------------------------------------------
(* The rows.                                                               *)

CalendarRow ==
  [key |-> [calendar |-> FirstMonth], reset |-> [month |-> FirstMonth + 1, day |-> 1]]
RowFor(d) == [key |-> StartFor(anchor, d), reset |-> ResetFor(anchor, d)]

\* A row is the one the migration left or was made for a date that has come; a request
\* that is about to insert one read its date when the migration's row did not run.
PeriodInv ==
  /\ anchor \in Day /\ Valid(today)
  /\ DOMAIN charger = Chargers
  /\ \A p \in periods :
       p = CalendarRow \/ \E d : Valid(d) /\ NotAfter(d, today) /\ p = RowFor(d)
  /\ \A c \in Chargers : charger[c] # NotInserting =>
       /\ Valid(charger[c]) /\ NotAfter(charger[c], today)
       /\ CalendarRow \in periods => ~Before(charger[c], CalendarRow.reset)
  /\ \A p \in periods : p # CalendarRow /\ CalendarRow \in periods =>
       ~Before(today, CalendarRow.reset)

\* The migration's calendar row resets on a day of the calendar.
LEMMA CalendarRowResets ==
  CalendarRow.reset.month \in Int /\ CalendarRow.reset.day \in Int
BY BillingPeriodAssumption DEF CalendarRow

\* The account starts with at most the migration's row.
LEMMA PeriodInvInit == PeriodInit => PeriodInv
<1> SUFFICES ASSUME PeriodInit PROVE PeriodInv
  OBVIOUS
<1>1. Valid(today)
  BY MonthsHaveLengths, BillingPeriodAssumption DEF PeriodInit, Valid, Date, Day, LongestMonth
<1>2. \A p \in periods : p = CalendarRow
  BY DEF PeriodInit, CalendarRow
<1>3. \A c \in Chargers : charger[c] = NotInserting
  BY DEF PeriodInit
<1>4. anchor \in Day /\ DOMAIN charger = Chargers
  BY BillingPeriodAssumption DEF PeriodInit
<1>5. QED
  BY <1>1, <1>2, <1>3, <1>4 DEF PeriodInv

\* A look writes no row; it notes a date on which none runs.
LEMMA LookKeeps ==
  ASSUME PeriodInv, NEW c \in Chargers, LookForPeriod(c)
  PROVE  PeriodInv'
<1>1. /\ charger'[c] = today /\ DOMAIN charger' = Chargers
      /\ \A b \in Chargers \ {c} : charger'[b] = charger[b]
      /\ UNCHANGED <<anchor, today, periods>>
  BY DEF LookForPeriod, PeriodInv
<1>2. NotAfter(today, today)
  BY DEF PeriodInv, NotAfter, Before, Valid, Date, Day
<1>3. CalendarRow \in periods => ~Before(today, CalendarRow.reset)
  BY DEF LookForPeriod, Running
<1>4. ASSUME NEW b \in Chargers, charger'[b] # NotInserting
      PROVE  /\ Valid(charger'[b]) /\ NotAfter(charger'[b], today)
             /\ CalendarRow \in periods => ~Before(charger'[b], CalendarRow.reset)
  BY <1>1, <1>2, <1>3, <1>4 DEF PeriodInv
<1>5. QED
  BY <1>1, <1>4 DEF PeriodInv, CalendarRow, RowFor, Valid

\* A row is inserted for the date that was read, today or yesterday, under its own key.
LEMMA InsertKeeps ==
  ASSUME PeriodInv, NEW c \in Chargers, InsertPeriod(c)
  PROVE  PeriodInv'
<1> DEFINE d == charger[c]
<1>1. /\ Valid(d) /\ NotAfter(d, today)
      /\ CalendarRow \in periods => ~Before(d, CalendarRow.reset)
  BY DEF PeriodInv, InsertPeriod
<1>2. /\ periods' \subseteq periods \cup {RowFor(d)} /\ periods \subseteq periods'
      /\ UNCHANGED <<anchor, today>>
  BY DEF InsertPeriod, RowFor
<1>3. RowFor(d) # CalendarRow
  <2>1. StartFor(anchor, d) \in Date
    <3>1. PICK m \in {d.month, d.month - 1} : m \in Int /\ StartFor(anchor, d) = StartOf(m, anchor)
      BY <1>1, StartMonth DEF PeriodInv
    <3>2. QED
      BY <3>1, StartIsValid DEF PeriodInv, Valid
  <2>2. "month" \in DOMAIN StartFor(anchor, d) /\ "month" \notin DOMAIN [calendar |-> FirstMonth]
    BY <2>1 DEF Date
  <2>3. StartFor(anchor, d) # [calendar |-> FirstMonth]
    BY <2>2
  <2>4. QED
    BY <2>3 DEF RowFor, CalendarRow
<1>4. CalendarRow \in periods' => CalendarRow \in periods
  BY <1>2, <1>3
<1>5. \A p \in periods' :
        p = CalendarRow \/ \E e : Valid(e) /\ NotAfter(e, today) /\ p = RowFor(e)
  BY <1>1, <1>2 DEF PeriodInv
<1>6. ASSUME NEW b \in Chargers, charger'[b] # NotInserting
      PROVE  /\ Valid(charger'[b]) /\ NotAfter(charger'[b], today)
             /\ CalendarRow \in periods' => ~Before(charger'[b], CalendarRow.reset)
  <2>1. charger'[b] = charger[b]
    BY <1>6 DEF InsertPeriod, PeriodInv
  <2>2. QED
    BY <1>4, <1>6, <2>1 DEF PeriodInv
<1>7. CalendarRow \in periods' => ~Before(today, CalendarRow.reset) \/ periods' = {CalendarRow}
  <2>1. CalendarRow \in periods => ~Before(today, CalendarRow.reset)
    BY <1>1, CalendarRowResets DEF PeriodInv, NotAfter, Before, Valid, Date, Day
  <2>2. QED
    BY <1>4, <2>1
<1>8. DOMAIN charger' = Chargers
  BY DEF InsertPeriod, PeriodInv
<1>9. QED
  BY <1>2, <1>5, <1>6, <1>7, <1>8 DEF PeriodInv, CalendarRow, RowFor, Valid

\* A midnight changes no row, and no request outlasts two.
LEMMA NextDayKeeps ==
  ASSUME PeriodInv, NextDay
  PROVE  PeriodInv'
<1>1. /\ Valid(today') /\ Before(today, today')
      /\ UNCHANGED <<anchor, periods, charger>>
  BY TomorrowIsNext DEF NextDay, PeriodInv
<1>2. ASSUME NEW e, Valid(e), NotAfter(e, today)
      PROVE  NotAfter(e, today')
  BY <1>1, <1>2 DEF PeriodInv, NotAfter, Before, Valid, Date, Day
<1>3. ASSUME ~Before(today, CalendarRow.reset)
      PROVE  ~Before(today', CalendarRow.reset)
  BY <1>1, <1>3, CalendarRowResets DEF PeriodInv, Before, Valid, Date, Day
<1>4. \A p \in periods :
        p = CalendarRow \/ \E e : Valid(e) /\ NotAfter(e, today') /\ p = RowFor(e)
  BY <1>2 DEF PeriodInv
<1>5. QED
  BY <1>1, <1>2, <1>3, <1>4 DEF PeriodInv, CalendarRow, RowFor, Valid

\* Every step keeps the inductive invariant.
LEMMA PeriodInvStep == PeriodInv /\ [PeriodNext]_periodVars => PeriodInv'
<1> SUFFICES ASSUME PeriodInv, [PeriodNext]_periodVars PROVE PeriodInv'
  OBVIOUS
<1>1. CASE UNCHANGED periodVars
  BY <1>1 DEF periodVars, PeriodInv, CalendarRow, RowFor, Valid
<1>2. QED
  BY <1>1, LookKeeps, InsertKeeps, NextDayKeeps DEF PeriodNext

\* Every row is the migration's calendar row or the row of the anchor for a date that has come;
\* a request about to insert read such a date too, and rows other than the calendar row exist
\* only once that one has reset (ensure_usage_period).
THEOREM PeriodInvariant == PeriodSpec => []PeriodInv
BY PeriodInvInit, PeriodInvStep, PTL DEF PeriodSpec

\* Money is granted once for a period: two rows that run are the same row.
LEMMA RunningRowsAgree ==
  ASSUME PeriodInv, NEW p \in Running(today), NEW q \in Running(today)
  PROVE  p = q
<1>1. p \in periods /\ q \in periods /\ Before(today, p.reset) /\ Before(today, q.reset)
  BY DEF Running
<1>2. CASE p = CalendarRow \/ q = CalendarRow
  BY <1>1, <1>2 DEF PeriodInv
<1>3. CASE p # CalendarRow /\ q # CalendarRow
  <2>1. ASSUME NEW r \in {p, q}
        PROVE  r = RowFor(today)
    <3>1. PICK d : Valid(d) /\ NotAfter(d, today) /\ r = RowFor(d)
      BY <1>1, <1>3 DEF PeriodInv
    <3>2. Before(today, ResetFor(anchor, d))
      BY <1>1, <3>1 DEF RowFor
    <3>3. QED
      BY <3>1, <3>2, SamePeriod DEF PeriodInv, RowFor
  <2>2. QED
    BY <2>1
<1>4. QED
  BY <1>2, <1>3

\* The period's money is granted once, at midnights, on clamped anniversaries, after the
\* migration's row and when requests race (ensure_usage_period).
THEOREM OnePeriodRuns == PeriodSpec => []OneRunningPeriod
<1>1. PeriodInv => OneRunningPeriod
  <2> SUFFICES ASSUME PeriodInv PROVE Cardinality(Running(today)) <= 1
    BY DEF OneRunningPeriod
  <2>1. CASE Running(today) = {}
    BY <2>1, FS_EmptySet
  <2>2. CASE Running(today) # {}
    <3>1. PICK p : p \in Running(today)
      BY <2>2
    <3>2. Running(today) = {p}
      BY <3>1, RunningRowsAgree
    <3>3. Cardinality({p}) = 1
      BY FS_Singleton
    <3>4. QED
      BY <3>2, <3>3
  <2>3. QED
    BY <2>1, <2>2
<1>2. QED
  BY <1>1, PeriodInvariant, PTL

\* Periods leave no gap and no overlap (subscription_period).
THEOREM PeriodsLeaveNoGap == PeriodSpec => PeriodsTile
<1>1. PeriodInv /\ [PeriodNext]_periodVars =>
        [\/ StartFor(anchor', today') = StartFor(anchor, today)
         \/ StartFor(anchor', today') = today' /\ today' = ResetFor(anchor, today)]_periodVars
  <2> SUFFICES ASSUME PeriodInv, PeriodNext
               PROVE  \/ StartFor(anchor', today') = StartFor(anchor, today)
                      \/ StartFor(anchor', today') = today' /\ today' = ResetFor(anchor, today)
    OBVIOUS
  <2>1. CASE UNCHANGED <<anchor, today>>
    BY <2>1
  <2>2. CASE NextDay
    BY <2>2, NextDayTiles DEF NextDay, PeriodInv
  <2>3. QED
    BY <2>1, <2>2 DEF PeriodNext, LookForPeriod, InsertPeriod
<1>2. QED
  BY <1>1, PeriodInvariant, PTL DEF PeriodSpec, PeriodsTile

-----------------------------------------------------------------------------
(***************************************************************************)
(* Writes: whatever requests race, success means stored, and ratings take  *)
(* effect one after the other, for any requests and threads.               *)
(***************************************************************************)
\* What thread p serves: nothing, or one request, whose row it updates only if that is a
\* rating and looks for again only if not; it remembers the row its target has.
Serving(p) ==
  /\ DOMAIN writer[p] = {"pc", "ask", "seen"}
  /\ \/ writer[p].pc = "idle" /\ writer[p].ask = {}
     \/ /\ writer[p].pc # "idle"
        /\ \E w \in Writes : writer[p].ask = {w}
        /\ writer[p].pc = "update" => Ask(p).kind = "rating"
        /\ writer[p].pc = "again" => Ask(p).kind # "rating"
        /\ Here(p) \in writer[p].seen

WritesInv ==
  /\ DOMAIN rows = Targets
  /\ DOMAIN writer = Writers
  /\ \A p \in Writers : Serving(p)
  /\ told \subseteq {w \in Writes : w.kind # "rating"}
  /\ AnswersTrue

-----------------------------------------------------------------------------
\* A thread at work serves the request it was asked.
LEMMA AskIsTheRequest ==
  ASSUME NEW p \in Writers, Serving(p), writer[p].pc # "idle"
  PROVE  /\ Ask(p) \in Writes /\ writer[p].ask = {Ask(p)}
         /\ At(p) = Target(Ask(p)) /\ At(p) \in Targets
         /\ Here(p) = rows[At(p)] /\ Here(p) \in writer[p].seen
BY DEF Serving, Ask, At, Here, Targets

\* A rating's row is in a table of its own.
LEMMA RatingsApart ==
  ASSUME NEW v \in Writes, NEW w \in Writes, Target(v) = Target(w)
  PROVE  v.kind = "rating" <=> w.kind = "rating"
BY DEF Target

\* A row has content.
LEMMA RowsAreRows == \A w \in Writes : Row(w) # NoRow
BY DEF Row, NoRow

\* What a request is told is added to what was told, if it is no rating.
LEMMA ToldIsTheRequest ==
  ASSUME NEW p \in Writers, Serving(p), writer[p].pc # "idle"
  PROVE  Told(p) = told \cup {w \in {Ask(p)} : w.kind # "rating"}
BY AskIsTheRequest DEF Told

\* Nobody is served at first.
LEMMA WritesInvInit == WritesInit => WritesInv
BY DEF WritesInit, WritesInv, Serving, NotWriting, AnswersTrue

\* A thread that is not touched goes on serving while rows stay.
LEMMA OthersServe ==
  ASSUME NEW p \in Writers, Serving(p), writer'[p] = writer[p], rows' = rows
  PROVE  Serving(p)'
BY DEF Serving, Ask, Here, At

\* A thread that has finished serves nothing.
LEMMA FinishedServes ==
  ASSUME NEW p \in Writers, writer'[p] = NotWriting
  PROVE  Serving(p)'
BY DEF Serving, NotWriting

-----------------------------------------------------------------------------
\* Steps that store nothing.

\* A step of one thread that leaves the rows, after which it serves or has finished.
LEMMA ReadingKeeps ==
  ASSUME WritesInv, NEW p \in Writers,
         rows' = rows, DOMAIN writer' = Writers, Serving(p)',
         \A q \in Writers \ {p} : writer'[q] = writer[q],
         told' \subseteq told \cup {w \in Writes : w.kind # "rating" /\ rows[Target(w)] = Row(w)}
  PROVE  WritesInv'
<1>1. \A q \in Writers : Serving(q)'
  BY OthersServe DEF WritesInv
<1>2. told' \subseteq {w \in Writes : w.kind # "rating"}
  BY DEF WritesInv
<1>3. AnswersTrue'
  BY DEF WritesInv, AnswersTrue
<1>4. QED
  BY <1>1, <1>2, <1>3 DEF WritesInv

\* Going on to another step keeps what a thread serves.
LEMMA GoingOnServes ==
  ASSUME NEW p \in Writers, Serving(p), writer[p].pc # "idle", DOMAIN writer = Writers,
         NEW pc, pc # "idle", pc = "update" => Ask(p).kind = "rating",
         pc = "again" => Ask(p).kind # "rating",
         GoOn(p, pc), rows' = rows
  PROVE  Serving(p)'
<1>1. writer'[p] = [writer[p] EXCEPT !.pc = pc]
  BY DEF GoOn
<1>2. /\ DOMAIN writer'[p] = {"pc", "ask", "seen"}
      /\ writer'[p].pc = pc /\ writer'[p].ask = writer[p].ask /\ writer'[p].seen = writer[p].seen
  BY <1>1 DEF Serving
<1>3. QED
  BY <1>2 DEF Serving, Ask, Here, At

\* What a step that does not store does to the thread it is of: it goes on, is refused, or
\* answers a request whose content its target has.
LEMMA EndsKeep ==
  ASSUME WritesInv, NEW p \in Writers, writer[p].pc # "idle", rows' = rows,
         \/ GoOn(p, "insert") \/ GoOn(p, "look")
         \/ Ask(p).kind = "rating" /\ GoOn(p, "update")
         \/ Ask(p).kind # "rating" /\ GoOn(p, "again")
         \/ Refuse(p)
         \/ (Ask(p).kind # "rating" => Here(p) = Row(Ask(p))) /\ Answer(p)
  PROVE  WritesInv'
<1>1. Serving(p) /\ DOMAIN writer = Writers
  BY DEF WritesInv
<1>2. CASE \/ GoOn(p, "insert") \/ GoOn(p, "look")
           \/ Ask(p).kind = "rating" /\ GoOn(p, "update")
           \/ Ask(p).kind # "rating" /\ GoOn(p, "again")
  <2>1. PICK pc : /\ pc # "idle" /\ GoOn(p, pc)
                  /\ pc = "update" => Ask(p).kind = "rating"
                  /\ pc = "again" => Ask(p).kind # "rating"
    BY <1>2
  <2>2. Serving(p)'
    BY <1>1, <2>1, GoingOnServes
  <2>3. QED
    BY <1>1, <2>1, <2>2, ReadingKeeps DEF GoOn
<1>3. CASE Refuse(p)
  BY <1>1, <1>3, FinishedServes, ReadingKeeps DEF Refuse
<1>4. CASE (Ask(p).kind # "rating" => Here(p) = Row(Ask(p))) /\ Answer(p)
  <2>1. Serving(p)'
    BY <1>1, <1>4, FinishedServes DEF Answer
  <2>2. told' \subseteq told \cup {w \in Writes : w.kind # "rating" /\ rows[Target(w)] = Row(w)}
    BY <1>1, <1>4, ToldIsTheRequest, AskIsTheRequest DEF Answer
  <2>3. QED
    BY <1>1, <1>4, <2>1, <2>2, ReadingKeeps DEF Answer
<1>5. QED
  BY <1>2, <1>3, <1>4

\* A request that arrives is served.
LEMMA ArriveKeeps == ASSUME WritesInv, NEW p \in Writers, Arrive(p) PROVE WritesInv'
<1>1. PICK w \in Writes :
        writer' = [writer EXCEPT ![p] =
          [pc |-> IF w.kind = "message" THEN "insert" ELSE "look", ask |-> {w},
           seen |-> {rows[Target(w)]}]]
  BY DEF Arrive
<1>2. Serving(p)'
  <2>1. /\ DOMAIN writer'[p] = {"pc", "ask", "seen"}
        /\ writer'[p].pc \in {"insert", "look"}
        /\ writer'[p].ask = {w} /\ writer'[p].seen = {rows[Target(w)]}
    BY <1>1 DEF WritesInv
  <2>2. Ask(p)' = w
    BY <2>1 DEF Ask
  <2>3. Here(p)' \in writer'[p].seen
    BY <2>1, <2>2 DEF Here, At, Arrive
  <2>4. QED
    BY <2>1, <2>3 DEF Serving
<1>3. QED
  BY <1>1, <1>2, ReadingKeeps DEF Arrive, WritesInv

\* Completing a task touches none of this.
LEMMA CompleteKeeps == ASSUME WritesInv, CompleteTask PROVE WritesInv'
BY DEF CompleteTask, WritesInv, Serving, AnswersTrue, Ask, Here, At

-----------------------------------------------------------------------------
\* Steps that store: an insert where there is no row, an update of a rating.

\* Storing a thread's own request, where there is no row or a rating's, keeps every answer.
LEMMA StoringKeeps ==
  ASSUME WritesInv, NEW p \in Writers, writer[p].pc # "idle",
         Here(p) = NoRow \/ Ask(p).kind = "rating",
         Store(At(p), Row(Ask(p))), told' = Told(p),
         writer' = [SeenAlso(At(p), Row(Ask(p))) EXCEPT ![p] = NotWriting]
  PROVE  WritesInv'
<1>1. /\ Serving(p) /\ Ask(p) \in Writes /\ At(p) \in Targets /\ At(p) = Target(Ask(p))
      /\ Here(p) = rows[At(p)]
  BY AskIsTheRequest DEF WritesInv
<1>2. /\ DOMAIN rows' = Targets /\ rows'[At(p)] = Row(Ask(p))
      /\ \A t \in Targets \ {At(p)} : rows'[t] = rows[t]
  BY <1>1 DEF WritesInv, Store
<1>3. DOMAIN writer' = Writers /\ writer'[p] = NotWriting
  BY DEF SeenAlso
<1>4. ASSUME NEW q \in Writers
      PROVE  Serving(q)'
  <2>1. CASE q = p
    BY <1>3, <2>1, FinishedServes
  <2>2. CASE q # p /\ writer[q].pc = "idle"
    <3>1. writer'[q] = writer[q]
      BY <2>2 DEF SeenAlso
    <3>2. QED
      BY <2>2, <3>1 DEF WritesInv, Serving
  <2>3. CASE q # p /\ writer[q].pc # "idle"
    <3>1. Serving(q) /\ At(q) \in Targets /\ Here(q) = rows[At(q)] /\ Here(q) \in writer[q].seen
      BY <2>3, AskIsTheRequest DEF WritesInv
    <3>2. writer'[q] = IF At(q) = At(p) THEN [writer[q] EXCEPT !.seen = @ \cup {Row(Ask(p))}]
                       ELSE writer[q]
      BY <2>3 DEF SeenAlso
    <3>3. /\ DOMAIN writer'[q] = {"pc", "ask", "seen"}
          /\ writer'[q].pc = writer[q].pc /\ writer'[q].ask = writer[q].ask
          /\ writer'[q].seen = IF At(q) = At(p) THEN writer[q].seen \cup {Row(Ask(p))}
                               ELSE writer[q].seen
      BY <3>1, <3>2 DEF Serving
    <3>4. Ask(q)' = Ask(q) /\ At(q)' = At(q)
      BY <3>3 DEF Ask, At
    <3>5. Here(q)' \in writer'[q].seen
      BY <1>2, <3>1, <3>3, <3>4 DEF Here
    <3>6. QED
      BY <2>3, <3>1, <3>3, <3>4, <3>5 DEF Serving
  <2>4. QED
    BY <2>1, <2>2, <2>3
<1>5. told' = told \cup {w \in {Ask(p)} : w.kind # "rating"}
  BY <1>1, ToldIsTheRequest
<1>6. AnswersTrue'
  <2>1. ASSUME NEW w \in told PROVE rows'[Target(w)] = Row(w)
    <3>1. w \in Writes /\ w.kind # "rating" /\ rows[Target(w)] = Row(w) /\ Target(w) \in Targets
      BY DEF WritesInv, AnswersTrue, Targets
    <3>2. Target(w) # At(p)
      BY <1>1, <3>1, RatingsApart, RowsAreRows
    <3>3. QED
      BY <1>2, <3>1, <3>2
  <2>2. QED
    BY <1>1, <1>2, <1>5, <2>1 DEF AnswersTrue
<1>7. QED
  BY <1>1, <1>2, <1>3, <1>4, <1>5, <1>6 DEF WritesInv

-----------------------------------------------------------------------------
\* Any step of a thread keeps the invariant.
LEMMA ThreadKeeps ==
  ASSUME WritesInv, NEW p \in Writers,
         \/ Arrive(p) \/ LookForRow(p) \/ LookForRating(p) \/ Insert(p)
         \/ LoseInsert(p) \/ RecoverTask(p) \/ UpdateRating(p)
  PROVE  WritesInv'
<1>1. CASE Arrive(p)
  BY <1>1, ArriveKeeps
<1>2. CASE LookForRow(p)
  BY <1>2, EndsKeep DEF LookForRow
<1>3. CASE LookForRating(p)
  BY <1>3, EndsKeep DEF LookForRating
<1>4. CASE Insert(p)
  BY <1>4, StoringKeeps DEF Insert
<1>5. CASE LoseInsert(p)
  <2>1. /\ LoserGoesTo(Ask(p)) \in {"again", "look", "error"}
        /\ LoserGoesTo(Ask(p)) = "again" => Ask(p).kind # "rating"
    BY DEF LoserGoesTo
  <2>2. \/ Refuse(p)
        \/ GoOn(p, "look")
        \/ Ask(p).kind # "rating" /\ GoOn(p, "again")
    <3>1. CASE LoserGoesTo(Ask(p)) = "error"
      BY <1>5, <3>1 DEF LoseInsert
    <3>2. CASE LoserGoesTo(Ask(p)) = "look"
      BY <1>5, <3>2 DEF LoseInsert
    <3>3. CASE LoserGoesTo(Ask(p)) = "again"
      BY <1>5, <2>1, <3>3 DEF LoseInsert
    <3>4. QED
      BY <2>1, <3>1, <3>2, <3>3
  <2>3. writer[p].pc # "idle" /\ rows' = rows
    BY <1>5 DEF LoseInsert
  <2>4. QED
    BY <2>2, <2>3, EndsKeep
<1>6. CASE RecoverTask(p)
  BY <1>6, EndsKeep DEF RecoverTask, Recovers
<1>7. CASE UpdateRating(p)
  <2>1. Serving(p) /\ writer[p].pc = "update"
    BY <1>7 DEF WritesInv, UpdateRating
  <2>2. Ask(p).kind = "rating"
    BY <2>1 DEF Serving
  <2>3. QED
    BY <1>7, <2>1, <2>2, StoringKeeps DEF UpdateRating
<1>8. QED
  BY <1>1, <1>2, <1>3, <1>4, <1>5, <1>6, <1>7

\* So does every step.
LEMMA WritesInvStep == WritesInv /\ [WritesNext]_writeVars => WritesInv'
<1> SUFFICES ASSUME WritesInv, [WritesNext]_writeVars PROVE WritesInv'
  OBVIOUS
<1>1. CASE UNCHANGED writeVars
  BY <1>1 DEF writeVars, WritesInv, Serving, AnswersTrue, Ask, Here, At
<1>2. CASE CompleteTask
  BY <1>2, CompleteKeeps
<1>3. CASE \E p \in Writers :
             \/ Arrive(p) \/ LookForRow(p) \/ LookForRating(p) \/ Insert(p)
             \/ LoseInsert(p) \/ RecoverTask(p) \/ UpdateRating(p)
  BY <1>3, ThreadKeeps
<1>4. QED
  BY <1>1, <1>2, <1>3 DEF WritesNext

\* Threads serve the request they were asked, and every success is stored (all writes).
THEOREM WritesInvariant == WritesSpec => []WritesInv
BY WritesInvInit, WritesInvStep, PTL DEF WritesSpec

\* A request that was told success finds its content under its key for good, whoever it
\* raced (create_task, create_reminder, accept_internal_event, _apply_intent).
THEOREM SuccessIsStored == WritesSpec => []AnswersTrue
<1>1. WritesInv => AnswersTrue
  BY DEF WritesInv
<1>2. QED
  BY <1>1, WritesInvariant, PTL

\* A thread that ends a rating's request has seen the reply so rated, or rated it.
LEMMA RatingEnds ==
  ASSUME WritesInv, NEW p \in Writers, NEW w \in writer[p].ask, w.kind = "rating",
         writer'[p] = NotWriting, [WritesNext]_writeVars
  PROVE  Row(w) \in writer[p].seen \cup {rows'[Target(w)]}
<1>1. /\ Serving(p) /\ writer[p].pc # "idle" /\ w = Ask(p)
      /\ At(p) = Target(w) /\ At(p) \in Targets
      /\ Here(p) = rows[At(p)] /\ Here(p) \in writer[p].seen
  <2>1. Serving(p)
    BY DEF WritesInv
  <2>2. writer[p].pc # "idle"
    BY <2>1 DEF Serving
  <2>3. QED
    BY <2>1, <2>2, AskIsTheRequest
<1>2. writer[p] # NotWriting
  BY <1>1 DEF NotWriting
<1>3. CASE UNCHANGED writeVars \/ CompleteTask
  BY <1>2, <1>3 DEF writeVars, CompleteTask
<1>4. ASSUME NEW q \in Writers \ {p},
             \/ Arrive(q) \/ LookForRow(q) \/ LookForRating(q) \/ Insert(q)
             \/ LoseInsert(q) \/ RecoverTask(q) \/ UpdateRating(q)
      PROVE  FALSE
  <2>1. writer'[p].pc # "idle"
    <3>1. CASE writer'[p] = writer[p]
      BY <1>1, <3>1
    <3>2. CASE Insert(q) \/ UpdateRating(q)
      <4>1. writer'[p] = IF At(p) = At(q) THEN [writer[p] EXCEPT !.seen = @ \cup {Row(Ask(q))}]
                         ELSE writer[p]
        BY <1>1, <1>4, <3>2 DEF Insert, UpdateRating, SeenAlso
      <4>2. QED
        BY <1>1, <4>1 DEF Serving
    <3>3. QED
      BY <1>4, <3>1, <3>2
      DEF WritesInv, Arrive, LookForRow, LookForRating, LoseInsert, RecoverTask, GoOn, Refuse, Answer
  <2>2. QED
    BY <2>1 DEF NotWriting
<1>5. ASSUME \/ Arrive(p) \/ LookForRow(p) \/ LookForRating(p) \/ Insert(p)
             \/ LoseInsert(p) \/ RecoverTask(p) \/ UpdateRating(p)
      PROVE  Row(w) \in writer[p].seen \cup {rows'[Target(w)]}
  <2>1. CASE LookForRating(p) /\ Here(p) = Row(w)
    BY <1>1, <2>1
  <2>2. CASE Insert(p) \/ UpdateRating(p)
    BY <1>1, <2>2 DEF Insert, UpdateRating, Store, WritesInv
  <2>3. ASSUME NEW pc, pc # "idle", GoOn(p, pc) PROVE FALSE
    <3>1. writer'[p].pc = pc
      BY <1>1, <2>3 DEF GoOn, WritesInv, Serving
    <3>2. QED
      BY <2>3, <3>1 DEF NotWriting
  <2>4. CASE LookForRating(p) /\ Here(p) # Row(w)
    BY <1>1, <2>3, <2>4 DEF LookForRating
  <2>5. CASE LoseInsert(p)
    BY <1>1, <2>3, <2>5 DEF LoseInsert, LoserGoesTo
  <2>6. CASE Arrive(p) \/ LookForRow(p) \/ RecoverTask(p)
    BY <1>1, <2>6 DEF Arrive, LookForRow, RecoverTask, Serving
  <2>7. QED
    BY <1>5, <2>1, <2>2, <2>4, <2>5, <2>6
<1>6. QED
  BY <1>3, <1>4, <1>5 DEF WritesNext

\* Ratings take effect one after the other: an answered rating was the reply's rating at
\* some moment of its request (rate_reply).
THEOREM RatingsSerial == WritesSpec => RatingsTakeEffect
<1>1. WritesInv /\ [WritesNext]_writeVars =>
        [\A p \in Writers : \A w \in writer[p].ask :
           (w.kind = "rating" /\ writer'[p] = NotWriting) =>
             Row(w) \in writer[p].seen \cup {rows'[Target(w)]}]_writeVars
  BY RatingEnds
<1>2. QED
  BY <1>1, WritesInvariant, PTL DEF WritesSpec, RatingsTakeEffect

-----------------------------------------------------------------------------
(***************************************************************************)
(* Identity.  A subject has one user at most, and everyone who was let in  *)
(* was let in as a user on record; a thread that seeds a role has read no  *)
(* account that is not there.                                              *)
(***************************************************************************)
IdentityInv ==
  /\ IdentityTypeOK
  /\ \A u, v \in users : u.subject = v.subject /\ u.subject # Nobody => u = v
  /\ \A u \in users : u.account \in accounts
  /\ \A a \in accounts : \E u \in users : u.account = a
  /\ \A g \in given : \E u \in users : u.subject = g.subject /\ u.id = g.user
  /\ \A d \in Doors : /\ door[d].account \subseteq accounts
                      /\ door[d].pc = "provision" => door[d].subject # Nobody

LEMMA IdentityInvInit == IdentityInit => IdentityInv
<1> SUFFICES ASSUME IdentityInit PROVE IdentityInv
  OBVIOUS
<1>1. IdentityTypeOK
  BY IdentityAssumption DEF IdentityInit, IdentityTypeOK, Closed, Roles
<1>2. QED
  BY <1>1 DEF IdentityInit, IdentityInv, Closed

\* A door that closes, or opens on an account that is there, keeps its type.
LEMMA DoorTypes ==
  ASSUME IdentityInv, NEW d \in Doors,
         NEW e \in [pc : {"free", "provision", "seed"}, subject : Subjects \cup {Nobody},
                     role : Roles, account : {{}} \cup {{a} : a \in accounts}],
         e.pc = "provision" => e.subject # Nobody
  PROVE  LET after == [door EXCEPT ![d] = e] IN
         /\ after \in [Doors -> [pc : {"free", "provision", "seed"},
                                 subject : Subjects \cup {Nobody},
                                 role : Roles, account : {{}} \cup {{a} : a \in 1 .. MaxIds}]]
         /\ \A b \in Doors : /\ after[b].account \subseteq accounts
                             /\ after[b].pc = "provision" => after[b].subject # Nobody
<1>1. e.account \in {{}} \cup {{a} : a \in 1 .. MaxIds} /\ e.account \subseteq accounts
  BY DEF IdentityInv, IdentityTypeOK
<1>2. QED
  BY <1>1 DEF IdentityInv, IdentityTypeOK

\* A user who is let in is on record.
LEMMA LetInKeeps ==
  ASSUME IdentityInv, NEW s \in Subjects, NEW u \in User, u.subject = s, LetIn(s, u)
  PROVE  /\ given' \subseteq [subject : Subjects, user : 1 .. MaxIds]
         /\ \A g \in given' : \/ \E v \in users : v.subject = g.subject /\ v.id = g.user
                              \/ g.subject = u.subject /\ g.user = u.id
  BY DEF LetIn, IdentityInv, IdentityTypeOK, User

\* A new user, of a subject that has none or of no subject, in an account.
LEMMA NewUserKeeps ==
  ASSUME IdentityInv, lastId < MaxIds, NEW u \in User, u.subject # Nobody => Of(u.subject) = {},
         accounts' = accounts \cup {u.account}, users' = users \cup {u}, lastId' = lastId + 1
  PROVE  /\ accounts' \subseteq 1 .. MaxIds /\ users' \subseteq User /\ lastId' \in 0 .. MaxIds
         /\ \A v, w \in users' : v.subject = w.subject /\ v.subject # Nobody => v = w
         /\ \A v \in users' : v.account \in accounts'
         /\ \A a \in accounts' : \E v \in users' : v.account = a
<1>1. accounts' \subseteq 1 .. MaxIds /\ users' \subseteq User /\ lastId' \in 0 .. MaxIds
  <2>1. u.account \in 1 .. MaxIds
    BY DEF User
  <2>2. lastId' \in 0 .. MaxIds
    BY IdentityAssumption DEF IdentityInv, IdentityTypeOK
  <2>3. QED
    BY <2>1, <2>2 DEF IdentityInv, IdentityTypeOK
<1>2. \A v, w \in users' : v.subject = w.subject /\ v.subject # Nobody => v = w
  BY DEF IdentityInv, Of
<1>3. QED
  BY <1>1, <1>2 DEF IdentityInv

LEMMA IdentityInvStep == IdentityInv /\ [IdentityNext]_identityVars => IdentityInv'
<1> SUFFICES ASSUME IdentityInv, [IdentityNext]_identityVars PROVE IdentityInv'
  OBVIOUS
<1> DEFINE DoorType == [Doors -> [pc : {"free", "provision", "seed"},
                                  subject : Subjects \cup {Nobody},
                                  role : Roles, account : {{}} \cup {{a} : a \in 1 .. MaxIds}]]
           Fine == /\ door' \in DoorType
                   /\ \A b \in Doors : /\ door'[b].account \subseteq accounts
                                       /\ door'[b].pc = "provision" => door'[b].subject # Nobody
<1>0. "customer" \in Roles /\ \A d \in Doors : door[d].subject \in Subjects \cup {Nobody}
                                             /\ door[d].role \in Roles
  BY DEF IdentityInv, IdentityTypeOK, Roles
<1>1. ASSUME NEW d \in Doors, Close(d)
      PROVE  Fine
  <2>1. /\ Closed \in [pc : {"free", "provision", "seed"}, subject : Subjects \cup {Nobody},
                        role : Roles, account : {{}} \cup {{a} : a \in accounts}]
        /\ Closed.pc # "provision"
    BY <1>0 DEF Closed
  <2>2. QED
    BY <1>1, <2>1, DoorTypes DEF Close
<1>2. ASSUME UNCHANGED <<accounts, users, lastId>>, Fine,
             given' \subseteq [subject : Subjects, user : 1 .. MaxIds],
             \A g \in given' : \E v \in users : v.subject = g.subject /\ v.id = g.user
      PROVE  IdentityInv'
  BY <1>2 DEF IdentityInv, IdentityTypeOK
<1>3. ASSUME UNCHANGED door
      PROVE  Fine
  BY <1>3 DEF IdentityInv, IdentityTypeOK
<1>4. ASSUME NEW d \in Doors, SeeSubject(d) PROVE IdentityInv'
  <2>1. PICK s \in Subjects :
          /\ \/ /\ \E u \in Of(s) : LetIn(s, u)
                /\ UNCHANGED door
             \/ /\ door' = [door EXCEPT ![d] = [Closed EXCEPT !.pc = "provision", !.subject = s]]
                /\ UNCHANGED given
          /\ UNCHANGED <<accounts, users, lastId>>
    BY <1>4 DEF SeeSubject
  <2>2. CASE UNCHANGED door /\ \E u \in Of(s) : LetIn(s, u)
    <3>1. PICK u \in Of(s) : LetIn(s, u)
      BY <2>2
    <3>2. u \in users /\ u \in User /\ u.subject = s
      BY <3>1 DEF Of, IdentityInv, IdentityTypeOK
    <3>3. QED
      BY <1>2, <1>3, <2>1, <2>2, <3>1, <3>2, LetInKeeps
  <2>3. CASE /\ door' = [door EXCEPT ![d] = [Closed EXCEPT !.pc = "provision", !.subject = s]]
             /\ UNCHANGED given
    <3>1. s # Nobody
      BY IdentityAssumption
    <3> DEFINE e == [Closed EXCEPT !.pc = "provision", !.subject = s]
    <3>2. /\ e \in [pc : {"free", "provision", "seed"}, subject : Subjects \cup {Nobody},
                     role : Roles, account : {{}} \cup {{a} : a \in accounts}]
          /\ e.subject # Nobody
      BY <1>0, <3>1 DEF Closed
    <3> HIDE DEF e
    <3>3. Fine
      BY <2>3, <3>2, DoorTypes DEF e
    <3>4. QED
      BY <1>2, <2>1, <2>3, <3>3 DEF IdentityInv, IdentityTypeOK
  <2>4. QED
    BY <2>1, <2>2, <2>3
<1>5. ASSUME NEW d \in Doors, Provision(d) PROVE IdentityInv'
  <2> DEFINE s == door[d].subject
             u == [id |-> lastId + 1, account |-> lastId + 1, subject |-> s, role |-> "customer"]
  <2>1. s \in Subjects /\ Of(s) = {} /\ lastId < MaxIds
    BY <1>0, <1>5 DEF Provision, IdentityInv
  <2>2. u \in User /\ u.subject = s
    BY <1>0, <2>1, IdentityAssumption DEF User, IdentityInv, IdentityTypeOK
  <2>3. /\ accounts' = accounts \cup {u.account} /\ users' = users \cup {u}
        /\ LetIn(s, u) /\ lastId' = lastId + 1 /\ Close(d)
    BY <1>5 DEF Provision
  <2> HIDE DEF u, s
  <2>4. Fine
    BY <1>1, <2>3
  <2>5. QED
    BY <2>1, <2>2, <2>3, <2>4, NewUserKeeps, LetInKeeps DEF IdentityInv, IdentityTypeOK
<1>6. ASSUME NEW d \in Doors, LoseProvision(d) PROVE IdentityInv'
  <2> DEFINE s == door[d].subject
  <2>1. PICK u \in Of(s) : LetIn(s, u)
    BY <1>6 DEF LoseProvision
  <2>2. s \in Subjects /\ u \in users /\ u \in User /\ u.subject = s
    BY <1>0, <1>6, <2>1 DEF LoseProvision, IdentityInv, IdentityTypeOK, Of
  <2>3. accounts' = accounts /\ users' = users /\ lastId' \in 0 .. MaxIds /\ Close(d)
    BY <1>6, IdentityAssumption DEF LoseProvision, LeftBehind, IdentityInv, IdentityTypeOK
  <2>4. Fine
    BY <1>1, <2>3
  <2>5. QED
    BY <2>1, <2>2, <2>3, <2>4, LetInKeeps DEF IdentityInv, IdentityTypeOK
<1>7. ASSUME NEW d \in Doors, SeedRole(d) PROVE IdentityInv'
  <2>1. PICK r \in Roles, some \in {{}} \cup {{a} : a \in accounts} :
          /\ door' = [door EXCEPT ![d] = [Closed EXCEPT !.pc = "seed", !.role = r, !.account = some]]
          /\ UNCHANGED <<accounts, users, given, lastId>>
    BY <1>7 DEF SeedRole
  <2> DEFINE e == [Closed EXCEPT !.pc = "seed", !.role = r, !.account = some]
  <2>2. /\ e \in [pc : {"free", "provision", "seed"}, subject : Subjects \cup {Nobody},
                   role : Roles, account : {{}} \cup {{a} : a \in accounts}]
        /\ e.pc = "seed"
    BY DEF Closed
  <2> HIDE DEF e
  <2>3. Fine
    BY <2>1, <2>2, DoorTypes DEF e
  <2>4. QED
    BY <1>2, <2>1, <2>3 DEF IdentityInv, IdentityTypeOK
<1>8. ASSUME NEW d \in Doors, Seed(d) PROVE IdentityInv'
  <2> DEFINE u == [id |-> lastId + 1, role |-> door[d].role, subject |-> Nobody,
                   account |-> IF door[d].account = {} THEN lastId + 1
                               ELSE CHOOSE a \in door[d].account : TRUE]
  <2>1. u.account \in 1 .. MaxIds
    <3>1. lastId + 1 \in 1 .. MaxIds
      BY <1>8, IdentityAssumption DEF Seed, IdentityInv, IdentityTypeOK
    <3>2. door[d].account \subseteq 1 .. MaxIds
      BY DEF IdentityInv, IdentityTypeOK
    <3>3. QED
      BY <3>1, <3>2
  <2>2. u \in User /\ u.subject = Nobody
    BY <1>0, <1>8, <2>1, IdentityAssumption DEF Seed, User, IdentityInv, IdentityTypeOK
  <2>3. /\ accounts' = accounts \cup {u.account} /\ users' = users \cup {u}
        /\ given' = given /\ lastId' = lastId + 1 /\ Close(d) /\ lastId < MaxIds
    BY <1>8 DEF Seed
  <2> HIDE DEF u
  <2>4. Fine
    BY <1>1, <2>3
  <2>5. QED
    BY <2>2, <2>3, <2>4, NewUserKeeps DEF IdentityInv, IdentityTypeOK
<1>9. CASE UNCHANGED identityVars
  BY <1>9 DEF identityVars, IdentityInv, IdentityTypeOK
<1>10. QED
  BY <1>4, <1>5, <1>6, <1>7, <1>8, <1>9 DEF IdentityNext

\* However many threads see a subject first, all of them let it in as one user in an
\* account of its own, and no account is left without a user (verify_clerk_token,
\* seed_development_identity).
THEOREM SubjectsAreOne == IdentitySpec => []OneIdentity
<1>1. IdentityInv => OneIdentity
  <2> SUFFICES ASSUME IdentityInv, NEW g \in given, NEW h \in given, g.subject = h.subject
               PROVE  g.user = h.user
    BY DEF IdentityInv, OneIdentity
  <2>1. PICK u \in users : u.subject = g.subject /\ u.id = g.user
    BY DEF IdentityInv
  <2>2. PICK v \in users : v.subject = h.subject /\ v.id = h.user
    BY DEF IdentityInv
  <2>3. g.subject # Nobody
    BY IdentityAssumption DEF IdentityInv, IdentityTypeOK
  <2>4. QED
    BY <2>1, <2>2, <2>3 DEF IdentityInv
<1>2. QED
  BY <1>1, IdentityInvInit, IdentityInvStep, PTL DEF IdentitySpec

-----------------------------------------------------------------------------
(***************************************************************************)
(* Subscriptions.  An account's version is that of the newest event on     *)
(* record; while an event is served, the subscription keeps the version    *)
(* and the status that were read, and its plan unless a code wrote it.     *)
(***************************************************************************)
Standing(a) ==
  /\ \A e \in received : e.account = a => e.version <= sub[a].version
  /\ sub[a].version = 0 => sub[a].status = "active"
  /\ sub[a].version # 0 =>
       \E e \in received :
         /\ e.account = a /\ e.version = sub[a].version
         /\ (sub[a].status = "cancelled") = (e.type = "cancelled")
         /\ a \notin coded => sub[a].plan = e.plan

EventRead ==
  LET q == serving[Webhook]
      a == q.ask.account
  IN
  q.ask.kind = "event" =>
    /\ a = q.ask.event.account
    /\ sub[a].version = q.sub.version /\ sub[a].status = q.sub.status
    /\ a \notin coded => sub[a].plan = q.sub.plan

Asked ==
  /\ serving[Webhook].ask.kind \in {"none", "event"}
  /\ \A t \in Pool : serving[t].ask.kind # "event"

AccountsInv ==
  /\ AccountsTypeOK
  /\ Asked
  /\ EventRead
  /\ \A a \in Accounts : Standing(a)

LEMMA StandingIsNewest ==
  ASSUME AccountsTypeOK, \A a \in Accounts : Standing(a)
  PROVE  NewestEventWins
<1> SUFFICES ASSUME NEW a \in Accounts
             PROVE  LET of == {e \in received : e.account = a /\ e.version > 0}
                        newest == {e \in of : \A d \in of : d.version <= e.version}
                    IN IF of = {} THEN sub[a].version = 0 /\ sub[a].status = "active"
                       ELSE \E e \in newest :
                              /\ sub[a].version = e.version
                              /\ (sub[a].status = "cancelled") = (e.type = "cancelled")
                              /\ a \notin coded => sub[a].plan = e.plan
  BY DEF NewestEventWins
<1> DEFINE of == {e \in received : e.account = a /\ e.version > 0}
           newest == {e \in of : \A d \in of : d.version <= e.version}
<1>1. sub[a].version \in Nat /\ \A e \in received : e.version \in Nat
  BY AccountsAssumption DEF AccountsTypeOK, Subscription
<1>2. CASE sub[a].version = 0
  <2>1. of = {}
    BY <1>1, <1>2 DEF Standing
  <2>2. QED
    BY <1>2, <2>1 DEF Standing
<1>3. CASE sub[a].version # 0
  <2>1. PICK e \in received :
          /\ e.account = a /\ e.version = sub[a].version
          /\ (sub[a].status = "cancelled") = (e.type = "cancelled")
          /\ a \notin coded => sub[a].plan = e.plan
    BY <1>3 DEF Standing
  <2>2. e \in of
    BY <1>1, <1>3, <2>1
  <2>3. \A d \in of : d.version <= e.version
    BY <2>1 DEF Standing
  <2>4. e \in newest
    BY <2>2, <2>3
  <2>5. QED
    BY <2>1, <2>2, <2>4
<1>4. QED
  BY <1>2, <1>3

LEMMA TierFacts ==
  /\ Free \in Tiers /\ \A k \in Tiers : k \in Nat
  /\ \A s \in Subscription : TierOf(s) \in Tiers
  /\ \A row \in TierColumns, s \in Subscription : Synced(row, s) \in TierColumns
  /\ \A x, y, z \in TierColumns : Written(x, y, z) \in TierColumns
  /\ CodePlans \subseteq Tiers
  /\ NewSubscription \in Subscription /\ NewColumns \in TierColumns
<1>1. Free \in Tiers /\ \A k \in Tiers : k \in Nat
  BY AccountsAssumption DEF Free, Tiers
<1>2. \A s \in Subscription : TierOf(s) \in Tiers
  BY <1>1 DEF TierOf, Subscription
<1>3. \A x, y \in Tiers : Lower(x, y) \in Tiers
  BY DEF Lower
<1>4. \A row \in TierColumns, s \in Subscription : Synced(row, s) \in TierColumns
  BY <1>2, <1>3 DEF Synced, TierColumns
<1>5. \A x, y, z \in TierColumns : Written(x, y, z) \in TierColumns
  BY DEF Written, Column, TierColumns
<1>6. CodePlans \subseteq Tiers
  BY AccountsAssumption
<1>7. NewSubscription \in Subscription /\ NewColumns \in TierColumns
  BY <1>1 DEF NewSubscription, NewColumns, Subscription, TierColumns
<1>8. QED
  BY <1>1, <1>2, <1>4, <1>5, <1>6, <1>7

\* What a request of each kind names.
LEMMA RequestFacts ==
  ASSUME NEW ask \in Requests
  PROVE  /\ ask.kind \in {"none", "armory", "theme", "code", "event"}
         /\ ask.kind \in {"armory", "theme"} => ask.user \in Users
         /\ ask.kind = "theme" => ask.to \in Tiers
         /\ ask.kind = "code" => ask.account \in Accounts /\ ask.plan \in CodePlans
         /\ ask.kind = "event" => ask.account \in Accounts /\ ask.event \in BillingEvents
  BY DEF Requests, None

Server == [ask : Requests, pc : {"idle", "sub", "users", "save"},
           sub : Subscription, seen : [Users -> TierColumns]]

LEMMA ServerFacts ==
  /\ Idle \in Server /\ Idle.ask.kind = "none"
  /\ AccountsTypeOK => /\ serving \in [Servers -> Server]
                       /\ \A a \in Accounts : sub[a] \in Subscription
                       /\ \A u \in Users : user[u] \in TierColumns
<1>1. Idle \in Server /\ Idle.ask.kind = "none"
  BY TierFacts DEF Idle, Server, Requests, None
<1>2. QED
  BY <1>1 DEF AccountsTypeOK, Server

LEMMA AccountsInvInit == AccountsInit => AccountsInv
<1> SUFFICES ASSUME AccountsInit PROVE AccountsInv
  OBVIOUS
<1>1. AccountsTypeOK
  BY TierFacts, ServerFacts, AccountsAssumption DEF AccountsInit, AccountsTypeOK, Server
<1>2. Asked /\ EventRead
  BY ServerFacts DEF AccountsInit, Asked, EventRead, Servers
<1>3. \A a \in Accounts : Standing(a)
  BY DEF AccountsInit, Standing, NewSubscription
<1>4. QED
  BY <1>1, <1>2, <1>3 DEF AccountsInv

\* A thread of the pool that goes on, or ends, with no event and no plan written.
LEMMA ServerKeeps ==
  ASSUME AccountsInv, NEW t \in Servers, NEW q \in Server,
         serving' = [serving EXCEPT ![t] = q],
         t = Webhook => \/ q.ask.kind = "none"
                        \/ q.ask = serving[t].ask /\ q.sub = serving[t].sub,
         t # Webhook => q.ask.kind # "event",
         sub' = sub, received' = received, coded' = coded,
         user' \in [Users -> TierColumns], codes' \in 0 .. MaxCodes
  PROVE  AccountsInv'
<1>1. serving \in [Servers -> Server] /\ Webhook \in Servers
  BY ServerFacts DEF AccountsInv, Servers
<1>2. serving' \in [Servers -> Server] /\ serving'[t] = q
      /\ \A s \in Servers \ {t} : serving'[s] = serving[s]
  BY <1>1
<1>3. AccountsTypeOK'
  BY <1>2 DEF AccountsInv, AccountsTypeOK, Server
<1>4. Asked'
  BY <1>1, <1>2, AccountsAssumption DEF AccountsInv, Asked, Servers
<1>5. EventRead'
  <2>1. CASE t = Webhook
    BY <1>2, <2>1 DEF AccountsInv, EventRead
  <2>2. CASE t # Webhook
    <3>1. serving'[Webhook] = serving[Webhook]
      BY <1>1, <1>2, <2>2
    <3>2. QED
      BY <3>1 DEF AccountsInv, EventRead
  <2>3. QED
    BY <2>1, <2>2
<1>6. \A a \in Accounts : Standing(a)'
  BY DEF AccountsInv, Standing
<1>7. QED
  BY <1>3, <1>4, <1>5, <1>6 DEF AccountsInv

LEMMA ThemeKeeps ==
  ASSUME AccountsInv, NEW t \in Servers,
         ReadPlan(t) \/ SaveTheme(t) \/ ReadUsers(t)
         \/ (t \in Pool /\ (GetArmory(t) \/ PutTheme(t) \/ RedeemCode(t)))
  PROVE  AccountsInv'
<1> DEFINE q == serving[t]
<1>1. /\ serving \in [Servers -> Server] /\ q \in Server
      /\ \A a \in Accounts : sub[a] \in Subscription
      /\ \A u \in Users : user[u] \in TierColumns
      /\ user \in [Users -> TierColumns] /\ codes \in 0 .. MaxCodes
      /\ Idle \in Server /\ Idle.ask.kind = "none"
  BY ServerFacts DEF AccountsInv, AccountsTypeOK
<1>2. /\ q.ask \in Requests /\ q.sub \in Subscription /\ q.seen \in [Users -> TierColumns]
      /\ t # Webhook => q.ask.kind # "event"
      /\ t = Webhook => q.ask.kind \in {"none", "event"}
      /\ t \in Pool => t # Webhook
  BY <1>1, AccountsAssumption DEF Server, AccountsInv, Asked, Servers
<1>3. ASSUME NEW u \in Users, NEW ask \in Requests, ask.user = u, t \in Pool,
             ask.kind \in {"armory", "theme"}, ReadUser(t, ask)
      PROVE  AccountsInv'
  <2> DEFINE e == [Idle EXCEPT !.ask = ask, !.pc = "sub", !.seen[ask.user] = user[ask.user]]
  <2>1. e \in Server /\ e.ask.kind # "event"
    BY <1>1, <1>3 DEF Server
  <2>2. serving' = [serving EXCEPT ![t] = e] /\ UNCHANGED <<sub, user, received, coded, codes>>
    BY <1>3 DEF ReadUser
  <2> HIDE DEF e
  <2>3. QED
    BY <1>1, <1>2, <1>3, <2>1, <2>2, ServerKeeps
<1>4. CASE t \in Pool /\ GetArmory(t)
  <2>1. PICK u \in Users : ReadUser(t, [kind |-> "armory", user |-> u])
    BY <1>4 DEF GetArmory
  <2>2. [kind |-> "armory", user |-> u] \in Requests
    BY DEF Requests
  <2>3. QED
    BY <1>3, <1>4, <2>1, <2>2
<1>5. CASE t \in Pool /\ PutTheme(t)
  <2>1. PICK u \in Users, k \in Tiers : ReadUser(t, [kind |-> "theme", user |-> u, to |-> k])
    BY <1>5 DEF PutTheme
  <2>2. [kind |-> "theme", user |-> u, to |-> k] \in Requests
    BY DEF Requests
  <2>3. QED
    BY <1>3, <1>5, <2>1, <2>2
<1>6. CASE ReadPlan(t)
  <2>1. q.ask.kind \in {"armory", "theme"} /\ UNCHANGED <<sub, user, received, coded, codes>>
    BY <1>6 DEF ReadPlan
  <2> DEFINE s == sub[Account(q)]
             e == IF q.ask.kind = "theme" /\ q.ask.to > TierOf(s) THEN Idle
                  ELSE [q EXCEPT !.pc = "save", !.sub = s]
  <2>2. serving' = [serving EXCEPT ![t] = e]
    BY <1>6 DEF ReadPlan
  <2>3. s \in Subscription
    BY <1>1, <1>2, <2>1, RequestFacts, AccountsAssumption DEF Account
  <2>4. e \in Server /\ e.ask.kind # "event"
    BY <1>1, <1>2, <2>1, <2>3 DEF Server
  <2>5. t # Webhook
    BY <1>2, <2>1
  <2> HIDE DEF e
  <2>6. QED
    BY <1>1, <2>1, <2>2, <2>4, <2>5, ServerKeeps
<1>7. CASE SaveTheme(t)
  <2> DEFINE u == q.ask.user
             synced == Synced(q.seen[u], q.sub)
             first == Written(q.seen[u], synced, user[u])
             last == IF q.ask.kind = "theme"
                     THEN [first EXCEPT !.theme = Column(synced.theme, q.ask.to, @)] ELSE first
  <2>1. /\ q.ask.kind \in {"armory", "theme"} /\ UNCHANGED <<sub, received, coded, codes>>
        /\ serving' = [serving EXCEPT ![t] = Idle]
        /\ user' = [user EXCEPT ![u] = IF RowAllowed(first) /\ RowAllowed(last) THEN last ELSE @]
    BY <1>7 DEF SaveTheme, Finish
  <2>2. u \in Users /\ (q.ask.kind = "theme" => q.ask.to \in Tiers)
    BY <1>2, <2>1, RequestFacts
  <2>3. first \in TierColumns /\ synced \in TierColumns
    BY <1>1, <1>2, <2>2, TierFacts
  <2> HIDE DEF first, synced
  <2>4. last \in TierColumns
    BY <2>2, <2>3 DEF TierColumns, Column
  <2> HIDE DEF last, u
  <2>5. user' \in [Users -> TierColumns]
    BY <1>1, <2>1, <2>4
  <2>6. t # Webhook
    BY <1>2, <2>1
  <2>7. QED
    BY <1>1, <2>1, <2>5, <2>6, ServerKeeps
<1>8. CASE ReadUsers(t)
  <2> DEFINE e == [q EXCEPT !.pc = "save", !.seen = user]
  <2>1. e \in Server /\ e.ask = q.ask /\ e.sub = q.sub
    BY <1>1 DEF Server
  <2>2. serving' = [serving EXCEPT ![t] = e] /\ UNCHANGED <<sub, user, received, coded, codes>>
    BY <1>1, <1>8 DEF ReadUsers, Server
  <2> HIDE DEF e
  <2>3. QED
    BY <1>1, <1>2, <2>1, <2>2, ServerKeeps
<1>9. CASE t \in Pool /\ RedeemCode(t)
  <2>1. PICK a \in Accounts, plan \in CodePlans :
          /\ codes < MaxCodes
          /\ serving' = [serving EXCEPT ![t] =
               [Idle EXCEPT !.ask = [kind |-> "code", account |-> a, plan |-> plan],
                            !.pc = "users", !.sub = sub[a]]]
          /\ codes' = codes + 1
          /\ UNCHANGED <<sub, user, received, coded>>
    BY <1>9 DEF RedeemCode
  <2> DEFINE e == [Idle EXCEPT !.ask = [kind |-> "code", account |-> a, plan |-> plan],
                               !.pc = "users", !.sub = sub[a]]
  <2>2. [kind |-> "code", account |-> a, plan |-> plan] \in Requests
    BY DEF Requests
  <2>3. e \in Server /\ e.ask.kind # "event"
    BY <1>1, <2>2 DEF Server
  <2>4. codes' \in 0 .. MaxCodes
    BY <1>1, <2>1, AccountsAssumption
  <2> HIDE DEF e
  <2>5. QED
    BY <1>1, <1>2, <1>9, <2>1, <2>3, <2>4, ServerKeeps DEF e
<1>10. QED
  BY <1>4, <1>5, <1>6, <1>7, <1>8, <1>9

\* The event loop reads a subscription.
LEMMA ReceiveKeeps == ASSUME AccountsInv, ReceiveEvent PROVE AccountsInv'
<1>1. PICK e \in BillingEvents :
        /\ serving' = [serving EXCEPT ![Webhook] =
             [Idle EXCEPT !.ask = [kind |-> "event", account |-> e.account, event |-> e],
                          !.pc = IF Stale(e, sub[e.account]) THEN "save" ELSE "users",
                          !.sub = sub[e.account]]]
        /\ UNCHANGED <<sub, user, received, coded, codes>>
  BY DEF ReceiveEvent
<1> DEFINE q == [Idle EXCEPT !.ask = [kind |-> "event", account |-> e.account, event |-> e],
                             !.pc = IF Stale(e, sub[e.account]) THEN "save" ELSE "users",
                             !.sub = sub[e.account]]
<1>2. e.account \in Accounts
  BY AccountsAssumption
<1>3. /\ serving \in [Servers -> Server] /\ Webhook \in Servers /\ Webhook \notin Pool
      /\ Idle \in Server /\ sub[e.account] \in Subscription
  BY <1>2, ServerFacts, AccountsAssumption DEF AccountsInv, Servers
<1>4. [kind |-> "event", account |-> e.account, event |-> e] \in Requests
  BY <1>2 DEF Requests
<1>5. /\ q \in Server /\ q.ask.kind = "event" /\ q.ask.account = e.account /\ q.ask.event = e
      /\ q.sub = sub[e.account]
  BY <1>3, <1>4 DEF Server
<1>6. serving' = [serving EXCEPT ![Webhook] = q]
  BY <1>1
<1> HIDE DEF q
<1>7. serving' \in [Servers -> Server] /\ serving'[Webhook] = q
      /\ \A t \in Pool : serving'[t] = serving[t]
  BY <1>3, <1>5, <1>6 DEF Servers
<1>8. AccountsTypeOK'
  BY <1>1, <1>7 DEF AccountsInv, AccountsTypeOK, Server
<1>9. Asked'
  BY <1>5, <1>7 DEF AccountsInv, Asked
<1>10. EventRead'
  BY <1>1, <1>5, <1>7 DEF EventRead
<1>11. \A a \in Accounts : Standing(a)'
  BY <1>1 DEF AccountsInv, Standing
<1>12. QED
  BY <1>8, <1>9, <1>10, <1>11 DEF AccountsInv

\* The event in flight.
LEMMA EventFacts ==
  ASSUME AccountsInv, serving[Webhook].ask.kind = "event"
  PROVE  LET q == serving[Webhook]
             e == q.ask.event
             a == q.ask.account
         IN  /\ a \in Accounts /\ e \in BillingEvents /\ a = e.account
             /\ e.version \in Nat /\ e.type \in {"activated", "renewed", "cancelled"}
             /\ e.plan \in Tiers
             /\ sub[a] \in Subscription /\ q.sub \in Subscription
             /\ sub[a].version = q.sub.version /\ sub[a].status = q.sub.status
             /\ a \notin coded => sub[a].plan = q.sub.plan
<1>1. serving[Webhook] \in Server
  BY ServerFacts DEF AccountsInv, Servers
<1>2. serving[Webhook].ask \in Requests /\ serving[Webhook].sub \in Subscription
  BY <1>1 DEF Server
<1>3. /\ serving[Webhook].ask.account \in Accounts
      /\ serving[Webhook].ask.event \in BillingEvents
  BY <1>2, RequestFacts
<1>4. sub[serving[Webhook].ask.account] \in Subscription
  BY <1>3, ServerFacts DEF AccountsInv
<1>5. QED
  BY <1>2, <1>3, <1>4, AccountsAssumption DEF AccountsInv, EventRead

\* An event that is not newer is recorded; the newest stays the newest.
LEMMA RecordKeeps == ASSUME AccountsInv, RecordStale PROVE AccountsInv'
<1> DEFINE q == serving[Webhook]
           e == q.ask.event
<1>1. /\ q.ask.kind = "event" /\ Stale(e, q.sub)
      /\ received' = received \cup {e} /\ serving' = [serving EXCEPT ![Webhook] = Idle]
      /\ UNCHANGED <<sub, user, coded, codes>>
  BY DEF RecordStale, Finish
<1>2. /\ serving' \in [Servers -> Server] /\ serving'[Webhook] = Idle
      /\ \A t \in Pool : serving'[t] = serving[t]
      /\ Idle \in Server /\ Idle.ask.kind = "none"
  BY <1>1, ServerFacts, AccountsAssumption DEF AccountsInv, Servers
<1>3. e \in BillingEvents /\ e.version <= sub[e.account].version
  BY <1>1, EventFacts DEF Stale
<1>4. AccountsTypeOK'
  BY <1>1, <1>2, <1>3 DEF AccountsInv, AccountsTypeOK, Server
<1>5. Asked' /\ EventRead'
  BY <1>2 DEF AccountsInv, Asked, EventRead
<1> HIDE DEF q, e
<1>6. \A a \in Accounts : Standing(a)'
  BY <1>1, <1>3 DEF AccountsInv, Standing
<1>7. QED
  BY <1>4, <1>5, <1>6 DEF AccountsInv

\* A plan change, by a code of the pool or by an event that is newer than what the
\* account has; either keeps the types.
LEMMA SaveTypes ==
  ASSUME AccountsInv, NEW t \in Servers, SavePlan(t)
  PROVE  /\ AccountsTypeOK' /\ Asked' /\ serving'[t] = Idle
         /\ \A s \in Servers \ {t} : serving'[s] = serving[s]
         /\ serving[t].ask.account \in Accounts
<1> DEFINE q == serving[t]
           a == q.ask.account
           tiers == SyncedUsers(q)
<1>1. /\ q.ask.kind \in {"code", "event"} /\ codes' = codes
      /\ serving' = [serving EXCEPT ![t] = Idle]
      /\ \/ UNCHANGED <<sub, user, received, coded>>
         \/ /\ sub' = [sub EXCEPT ![a] = WrittenSub(q, @)]
            /\ user' = tiers
            /\ received' = IF q.ask.kind = "event" THEN received \cup {q.ask.event} ELSE received
            /\ coded' = CASE q.ask.kind = "code" -> coded \cup {a}
                          [] q.ask.kind = "event" /\ sub[a].plan = q.sub.plan -> coded \ {a}
                          [] OTHER -> coded
  BY DEF SavePlan, Finish
<1>2. /\ serving \in [Servers -> Server] /\ q \in Server /\ Idle \in Server
      /\ Idle.ask.kind = "none"
  BY ServerFacts DEF AccountsInv
<1>3. q.ask \in Requests /\ q.sub \in Subscription /\ q.seen \in [Users -> TierColumns]
  BY <1>2 DEF Server
<1>4. /\ a \in Accounts
      /\ q.ask.kind = "event" => q.ask.event \in BillingEvents
      /\ q.ask.kind = "code" => q.ask.plan \in Tiers
  BY <1>1, <1>3, RequestFacts, TierFacts
<1>5. sub[a] \in Subscription
  BY <1>4, ServerFacts DEF AccountsInv
<1>6. Changed(q) \in Subscription
  <2>1. CASE q.ask.kind = "code"
    BY <1>3, <1>4, <2>1 DEF Changed, Subscription
  <2>2. CASE q.ask.kind = "event"
    BY <1>4, <2>2, AccountsAssumption DEF Changed, Subscription
  <2>3. QED
    BY <1>1, <2>1, <2>2
<1>7. WrittenSub(q, sub[a]) \in Subscription
  BY <1>3, <1>5, <1>6 DEF WrittenSub, Column, Subscription
<1>8. tiers \in [Users -> TierColumns]
  <2>1. \A u \in Users : user[u] \in TierColumns /\ q.seen[u] \in TierColumns
    BY <1>3, ServerFacts DEF AccountsInv
  <2>2. \A u \in Users : Written(q.seen[u], Synced(q.seen[u], Changed(q)), user[u]) \in TierColumns
    BY <1>6, <2>1, TierFacts
  <2>3. QED
    BY <2>1, <2>2 DEF SyncedUsers
<1>9. /\ serving' \in [Servers -> Server] /\ serving'[t] = Idle
      /\ \A s \in Servers \ {t} : serving'[s] = serving[s]
  BY <1>1, <1>2
<1>10. /\ sub' \in [Accounts -> Subscription] /\ user' \in [Users -> TierColumns]
       /\ received' \subseteq BillingEvents /\ coded' \subseteq Accounts
  <2> HIDE DEF q, tiers
  <2>1. CASE UNCHANGED <<sub, user, received, coded>>
    BY <2>1 DEF AccountsInv, AccountsTypeOK
  <2>2. CASE ~UNCHANGED <<sub, user, received, coded>>
    BY <1>1, <1>4, <1>7, <1>8, <2>2 DEF AccountsInv, AccountsTypeOK
  <2>3. QED
    BY <2>1, <2>2
<1>11. AccountsTypeOK'
  BY <1>1, <1>9, <1>10 DEF AccountsInv, AccountsTypeOK, Server
<1>12. Asked'
  BY <1>2, <1>9, AccountsAssumption DEF AccountsInv, Asked, Servers
<1>13. QED
  BY <1>4, <1>9, <1>11, <1>12

\* A code writes the plan and nothing else; an event writes all it says.
LEMMA SavedColumns ==
  ASSUME AccountsInv, NEW t \in Servers, SavePlan(t), ~UNCHANGED <<sub, user, received, coded>>
  PROVE  LET q == serving[t]
             a == q.ask.account
         IN /\ \A b \in Accounts \ {a} : sub'[b] = sub[b] /\ (b \in coded' <=> b \in coded)
            /\ q.ask.kind = "code" =>
                 /\ sub'[a].version = sub[a].version /\ sub'[a].status = sub[a].status
                 /\ a \in coded' /\ received' = received
            /\ q.ask.kind = "event" =>
                 /\ ~Stale(q.ask.event, q.sub)
                 /\ received' = received \cup {q.ask.event}
                 /\ sub'[a] = WrittenSub(q, sub[a])
                 /\ coded' = IF sub[a].plan = q.sub.plan THEN coded \ {a} ELSE coded
<1> DEFINE q == serving[t]
           a == q.ask.account
<1>1. /\ sub' = [sub EXCEPT ![a] = WrittenSub(q, @)]
      /\ received' = IF q.ask.kind = "event" THEN received \cup {q.ask.event} ELSE received
      /\ coded' = CASE q.ask.kind = "code" -> coded \cup {a}
                    [] q.ask.kind = "event" /\ sub[a].plan = q.sub.plan -> coded \ {a}
                    [] OTHER -> coded
      /\ q.ask.kind = "event" => ~Stale(q.ask.event, q.sub)
      /\ q.ask.kind \in {"code", "event"}
  BY DEF SavePlan
<1>2. a \in Accounts /\ sub[a] \in Subscription /\ q.sub \in Subscription
  <2>1. a \in Accounts /\ q \in Server
    BY SaveTypes, ServerFacts DEF AccountsInv
  <2>2. QED
    BY <2>1, ServerFacts DEF AccountsInv, Server
<1>3. sub'[a] = WrittenSub(q, sub[a]) /\ \A b \in Accounts \ {a} : sub'[b] = sub[b]
  BY <1>1, <1>2 DEF AccountsInv, AccountsTypeOK
<1>4. ASSUME q.ask.kind = "code"
      PROVE  sub'[a].version = sub[a].version /\ sub'[a].status = sub[a].status
  <2>1. Changed(q).version = q.sub.version /\ Changed(q).status = q.sub.status
    BY <1>2, <1>4 DEF Changed, Subscription
  <2>2. QED
    BY <1>3, <2>1 DEF WrittenSub, Column
<1>5. ASSUME q.ask.kind = "code"
      PROVE  a \in coded' /\ received' = received
  <2>1. coded' = coded \cup {a} /\ received' = received
    BY <1>1, <1>5
  <2>2. QED
    BY <2>1
<1>6. q.ask.kind = "event" =>
        /\ received' = received \cup {q.ask.event}
        /\ coded' = IF sub[a].plan = q.sub.plan THEN coded \ {a} ELSE coded
  BY <1>1
<1>7. \A b \in Accounts \ {a} : b \in coded' <=> b \in coded
  <2>1. coded' \in {coded \cup {a}, coded \ {a}, coded}
    BY <1>1
  <2>2. QED
    BY <2>1
<1> HIDE DEF q
<1>8. QED
  BY <1>1, <1>3, <1>4, <1>5, <1>6, <1>7 DEF q

LEMMA SaveKeeps == ASSUME AccountsInv, NEW t \in Servers, SavePlan(t) PROVE AccountsInv'
<1> DEFINE q == serving[t]
           a == q.ask.account
           w == serving[Webhook]
<1>1. /\ AccountsTypeOK' /\ Asked' /\ a \in Accounts /\ serving'[t] = Idle
      /\ \A s \in Servers \ {t} : serving'[s] = serving[s]
      /\ Webhook \in Servers /\ Idle.ask.kind = "none"
  BY SaveTypes, ServerFacts DEF Servers
<1>2. q.ask.kind \in {"code", "event"} /\ (q.ask.kind = "event" <=> t = Webhook)
  BY AccountsAssumption DEF SavePlan, AccountsInv, Asked, Servers
<1>3. CASE UNCHANGED <<sub, user, received, coded>>
  <2>1. EventRead'
    <3>1. serving'[Webhook] = IF t = Webhook THEN Idle ELSE serving[Webhook]
      BY <1>1
    <3>2. QED
      BY <1>1, <1>3, <3>1 DEF AccountsInv, EventRead
  <2>2. \A b \in Accounts : Standing(b)'
    BY <1>3 DEF AccountsInv, Standing
  <2>3. QED
    BY <1>1, <2>1, <2>2 DEF AccountsInv
<1>4. CASE ~UNCHANGED <<sub, user, received, coded>> /\ q.ask.kind = "code"
  <2>1. /\ \A b \in Accounts \ {a} : sub'[b] = sub[b] /\ (b \in coded' <=> b \in coded)
        /\ sub'[a].version = sub[a].version /\ sub'[a].status = sub[a].status
        /\ a \in coded' /\ received' = received
    BY <1>4, SavedColumns
  <2>2. serving'[Webhook] = w
    BY <1>1, <1>2, <1>4
  <2>3. EventRead'
    <3>1. SUFFICES ASSUME w.ask.kind = "event"
                   PROVE  LET b == w.ask.account IN
                          /\ b = w.ask.event.account
                          /\ sub'[b].version = w.sub.version /\ sub'[b].status = w.sub.status
                          /\ b \notin coded' => sub'[b].plan = w.sub.plan
      BY <2>2 DEF EventRead
    <3>2. w.ask.account \in Accounts
      BY <3>1, EventFacts
    <3> HIDE DEF q
    <3>3. QED
      BY <2>1, <3>1, <3>2 DEF AccountsInv, EventRead
  <2> HIDE DEF q, a, w
  <2>4. \A b \in Accounts : Standing(b)'
    <3>1. ASSUME NEW b \in Accounts PROVE Standing(b)'
      <4>1. Standing(b)
        BY DEF AccountsInv
      <4>2. sub'[b].version = sub[b].version /\ sub'[b].status = sub[b].status
        BY <2>1
      <4>3. b \notin coded' => sub'[b].plan = sub[b].plan /\ b \notin coded
        BY <2>1
      <4>4. QED
        BY <2>1, <4>1, <4>2, <4>3 DEF Standing
    <3>2. QED
      BY <3>1
  <2>5. QED
    BY <1>1, <2>3, <2>4 DEF AccountsInv
<1>5. CASE ~UNCHANGED <<sub, user, received, coded>> /\ q.ask.kind = "event"
  <2> DEFINE e == q.ask.event
  <2>1. /\ \A b \in Accounts \ {a} : sub'[b] = sub[b] /\ (b \in coded' <=> b \in coded)
        /\ ~Stale(e, q.sub)
        /\ received' = received \cup {e}
        /\ sub'[a] = WrittenSub(q, sub[a])
        /\ coded' = IF sub[a].plan = q.sub.plan THEN coded \ {a} ELSE coded
    BY <1>5, SavedColumns
  <2>2. t = Webhook /\ serving'[Webhook] = Idle
    BY <1>1, <1>2, <1>5
  <2>3. EventRead'
    BY <1>1, <2>2 DEF EventRead
  <2>4. /\ a = e.account /\ e.version \in Nat
        /\ e.type \in {"activated", "renewed", "cancelled"}
        /\ sub[a] \in Subscription /\ q.sub \in Subscription
        /\ sub[a].version = q.sub.version /\ sub[a].status = q.sub.status
        /\ a \notin coded => sub[a].plan = q.sub.plan
    BY <1>5, <2>2, EventFacts
  <2>5. e.version > sub[a].version /\ sub[a].version \in Nat
    BY <2>1, <2>4 DEF Stale, Subscription
  <2>6. /\ sub'[a].version = e.version
        /\ sub'[a].status = IF e.type = "cancelled" THEN "cancelled" ELSE "active"
        /\ sub'[a].plan = IF e.plan = q.sub.plan THEN sub[a].plan ELSE e.plan
    <3>1. Changed(q) = [plan |-> e.plan, version |-> e.version,
                        status |-> IF e.type = "cancelled" THEN "cancelled" ELSE "active"]
      BY <1>5 DEF Changed
    <3> DEFINE new == [plan |-> e.plan, version |-> e.version,
                       status |-> IF e.type = "cancelled" THEN "cancelled" ELSE "active"]
    <3>2. sub'[a] = [plan |-> Column(q.sub.plan, new.plan, sub[a].plan),
                     status |-> Column(q.sub.status, new.status, sub[a].status),
                     version |-> Column(q.sub.version, new.version, sub[a].version)]
      BY <2>1, <3>1 DEF WrittenSub
    <3> HIDE DEF q, a, e
    <3>3. sub'[a].plan = Column(q.sub.plan, new.plan, sub[a].plan)
          /\ sub'[a].status = Column(q.sub.status, new.status, sub[a].status)
          /\ sub'[a].version = Column(q.sub.version, new.version, sub[a].version)
      BY <3>2
    <3>4. QED
      BY <2>4, <2>5, <3>3 DEF Column
  <2>7. a \notin coded' => sub'[a].plan = e.plan
    <3> HIDE DEF q, a, e
    <3>1. QED
      BY <2>1, <2>4, <2>6
  <2> HIDE DEF q, a, e
  <2>8. ASSUME NEW b \in Accounts, b = a PROVE Standing(b)'
    <3>1. \A d \in received : d.account = a => d.version <= sub[a].version /\ d.version \in Nat
      BY <1>1, AccountsAssumption DEF AccountsInv, AccountsTypeOK, Standing
    <3>2. \A d \in received' : d.account = a => d.version <= sub'[a].version
      BY <2>1, <2>4, <2>5, <2>6, <3>1
    <3>3. e \in received' /\ sub'[a].version # 0
      BY <2>1, <2>4, <2>5, <2>6
    <3>4. (sub'[a].status = "cancelled") = (e.type = "cancelled")
      BY <2>6
    <3>5. /\ e.account = a /\ e.version = sub'[a].version
          /\ a \notin coded' => sub'[a].plan = e.plan
      BY <2>4, <2>6, <2>7
    <3>6. sub'[a].version = 0 => sub'[a].status = "active"
      BY <3>3
    <3>7. \E d \in received' :
            /\ d.account = a /\ d.version = sub'[a].version
            /\ (sub'[a].status = "cancelled") = (d.type = "cancelled")
            /\ a \notin coded' => sub'[a].plan = d.plan
      BY <3>3, <3>4, <3>5
    <3>8. QED
      BY <2>8, <3>2, <3>6, <3>7 DEF Standing
  <2>9. ASSUME NEW b \in Accounts \ {a} PROVE Standing(b)'
    BY <2>1, <2>4 DEF AccountsInv, Standing
  <2>10. \A b \in Accounts : Standing(b)'
    BY <2>8, <2>9
  <2>11. QED
    BY <1>1, <2>3, <2>10 DEF AccountsInv
<1>6. QED
  BY <1>2, <1>3, <1>4, <1>5

LEMMA AccountsInvStep == AccountsInv /\ [AccountsNext]_accountVars => AccountsInv'
<1> SUFFICES ASSUME AccountsInv, [AccountsNext]_accountVars PROVE AccountsInv'
  OBVIOUS
<1>1. Pool \subseteq Servers
  BY DEF Servers
<1>2. CASE UNCHANGED accountVars
  BY <1>2 DEF accountVars, AccountsInv, AccountsTypeOK, Asked, EventRead, Standing
<1>3. QED
  BY <1>1, <1>2, ThemeKeeps, ReceiveKeeps, RecordKeeps, SaveKeeps DEF AccountsNext, Serve

\* However billing events arrive and whatever requests overlap them, a subscription is
\* what the newest event on record said, but for a plan that a code has written since
\* (billing_sandbox, redeem_access_code).
THEOREM EventsInOrder == AccountsSpec => []NewestEventWins
<1>1. AccountsInv => NewestEventWins
  BY StandingIsNewest DEF AccountsInv
<1>2. QED
  BY <1>1, AccountsInvInit, AccountsInvStep, PTL DEF AccountsSpec

-----------------------------------------------------------------------------
(***************************************************************************)
(* The API as a whole: whichever part runs, every variable keeps its type. *)
(***************************************************************************)
\* A row that is inserted has the key and the reset of a period.
LEMMA RowTypes ==
  ASSUME NEW a \in Day, NEW d, Valid(d)
  PROVE  [key |-> StartFor(a, d), reset |-> ResetFor(a, d)] \in Period
<1>1. PICK m \in {d.month, d.month - 1} :
        m \in Int /\ StartFor(a, d) = StartOf(m, a) /\ ResetFor(a, d) = StartOf(m + 1, a)
  BY StartMonth
<1>2. StartFor(a, d) \in Date /\ ResetFor(a, d) \in Date
  BY <1>1, StartIsValid DEF Valid
<1>3. QED
  BY <1>2 DEF Period

\* The period rows and the dates requests have read keep their types.
LEMMA PeriodTypesInit == PeriodInit => PeriodTypeOK
<1> SUFFICES ASSUME PeriodInit PROVE PeriodTypeOK
  OBVIOUS
<1>1. Valid(today)
  BY PeriodInvInit DEF PeriodInv
<1>2. periods \subseteq Period
  BY BillingPeriodAssumption DEF PeriodInit, Period, Date, Day, LongestMonth
<1>3. QED
  BY <1>1, <1>2 DEF PeriodInit, PeriodTypeOK, Valid

LEMMA PeriodTypesStep ==
  ASSUME PeriodInv, PeriodTypeOK, [PeriodNext]_periodVars
  PROVE  PeriodTypeOK'
<1>0. PeriodInv' /\ anchor \in Day
  BY PeriodInvStep DEF PeriodInv
<1>1. today' \in Date /\ today'.day <= Length(today'.month)
  BY <1>0 DEF PeriodInv, Valid
<1>2. CASE UNCHANGED periodVars
  BY <1>1, <1>2 DEF periodVars, PeriodTypeOK
<1>3. ASSUME NEW c \in Chargers, LookForPeriod(c) PROVE PeriodTypeOK'
  BY <1>1, <1>3 DEF LookForPeriod, PeriodTypeOK
<1>4. ASSUME NEW c \in Chargers, InsertPeriod(c) PROVE PeriodTypeOK'
  <2> DEFINE row == [key |-> StartFor(anchor, charger[c]), reset |-> ResetFor(anchor, charger[c])]
  <2>1. Valid(charger[c])
    BY <1>4 DEF InsertPeriod, PeriodInv
  <2>2. row \in Period
    BY <1>0, <2>1, RowTypes
  <2>3. /\ periods' \subseteq periods \cup {row}
        /\ charger' = [charger EXCEPT ![c] = NotInserting] /\ anchor' = anchor
    BY <1>4 DEF InsertPeriod
  <2> HIDE DEF row
  <2>4. QED
    BY <1>1, <2>2, <2>3 DEF PeriodTypeOK
<1>5. CASE NextDay
  BY <1>1, <1>5 DEF NextDay, PeriodTypeOK
<1>6. QED
  BY <1>2, <1>3, <1>4, <1>5 DEF PeriodNext

-----------------------------------------------------------------------------
\* A thread that serves knows where it is.
PcTypes == \A p \in Writers : writer[p].pc \in {"idle", "look", "insert", "update", "again"}

\* A target has no row or the row of a request for it, for good; a task that is completed
\* has one.
RowsHold ==
  /\ rows \in [Targets -> UNION {RowsOf(t) : t \in Targets}]
  /\ \A t \in Targets : rows[t] \in RowsOf(t)
  /\ completed \subseteq {t \in Targets : t.table = "task" /\ rows[t] # NoRow}
  /\ PcTypes

LEMMA RowsHoldInit == WritesInit => RowsHold
BY DEF WritesInit, RowsHold, RowsOf, PcTypes, NotWriting

\* A step of a thread that stores nothing.
LEMMA StepHolds ==
  ASSUME RowsHold, NEW p \in Writers, DOMAIN writer = Writers,
         UNCHANGED <<rows, completed>>,
         \/ Answer(p) \/ Refuse(p)
         \/ \E pc \in {"look", "insert", "update", "again"} : Serving(p) /\ GoOn(p, pc)
  PROVE  RowsHold'
<1>1. \A q \in Writers \ {p} : writer'[q] = writer[q]
  BY DEF Answer, Refuse, GoOn
<1>2. writer'[p].pc \in {"idle", "look", "insert", "update", "again"}
  BY DEF Answer, Refuse, GoOn, NotWriting, Serving
<1>3. PcTypes'
  BY <1>1, <1>2 DEF PcTypes, RowsHold
<1>4. QED
  BY <1>3 DEF RowsHold, RowsOf

\* A step that stores the row of its request.
LEMMA StoreHolds ==
  ASSUME WritesInv, RowsHold, NEW p \in Writers, writer[p].pc # "idle",
         Store(At(p), Row(Ask(p))), completed' = completed,
         writer' = [SeenAlso(At(p), Row(Ask(p))) EXCEPT ![p] = NotWriting]
  PROVE  RowsHold'
<1> DEFINE w == Ask(p)
           t == At(p)
<1>1. w \in Writes /\ t = Target(w) /\ t \in Targets
  BY AskIsTheRequest DEF WritesInv
<1>2. Row(w) \in RowsOf(t) /\ Row(w) # NoRow
  BY <1>1, RowsAreRows DEF RowsOf
<1>3. rows' = [rows EXCEPT ![t] = Row(w)]
  BY DEF Store
<1>4. ASSUME NEW q \in Writers
      PROVE  writer'[q].pc \in {"idle", "look", "insert", "update", "again"}
  <2>1. CASE q = p
    BY <2>1 DEF SeenAlso, NotWriting
  <2>2. CASE q # p
    <3>1. writer'[q] = SeenAlso(t, Row(w))[q]
      BY <2>2
    <3>2. Serving(q) /\ writer[q].pc \in {"idle", "look", "insert", "update", "again"}
      BY DEF WritesInv, RowsHold, PcTypes
    <3>3. SeenAlso(t, Row(w))[q].pc = writer[q].pc
      BY <3>2 DEF SeenAlso, Serving
    <3>4. QED
      BY <3>1, <3>2, <3>3
  <2>3. QED
    BY <2>1, <2>2
<1> HIDE DEF w, t
<1>5. RowsOf(t) \subseteq UNION {RowsOf(s) : s \in Targets}
  BY <1>1
<1>6. rows' \in [Targets -> UNION {RowsOf(s) : s \in Targets}]
  BY <1>2, <1>3, <1>5 DEF RowsHold
<1>7. \A s \in Targets : rows'[s] = IF s = t THEN Row(w) ELSE rows[s]
  BY <1>1, <1>3 DEF RowsHold
<1>8. \A s \in Targets : rows'[s] \in RowsOf(s)
  BY <1>2, <1>7 DEF RowsHold
<1>9. completed' \subseteq {s \in Targets : s.table = "task" /\ rows'[s] # NoRow}
  BY <1>2, <1>7 DEF RowsHold
<1>10. PcTypes'
  BY <1>4 DEF PcTypes
<1>11. QED
  BY <1>6, <1>8, <1>9, <1>10 DEF RowsHold, RowsOf

LEMMA RowsHoldStep ==
  ASSUME WritesInv, RowsHold, [WritesNext]_writeVars
  PROVE  RowsHold'
<1>1. CASE UNCHANGED writeVars
  BY <1>1 DEF writeVars, RowsHold, RowsOf, PcTypes
<1>2. CASE CompleteTask
  BY <1>2 DEF CompleteTask, RowsHold, RowsOf, PcTypes
<1>3. ASSUME NEW p \in Writers,
             \/ Arrive(p) \/ LookForRow(p) \/ LookForRating(p) \/ Insert(p)
             \/ LoseInsert(p) \/ RecoverTask(p) \/ UpdateRating(p)
      PROVE  RowsHold'
  <2>0. Serving(p) /\ DOMAIN writer = Writers
    BY DEF WritesInv
  <2>1. CASE Arrive(p)
    <3>1. PICK w \in Writes :
            writer' = [writer EXCEPT ![p] =
              [pc |-> IF w.kind = "message" THEN "insert" ELSE "look", ask |-> {w},
               seen |-> {rows[Target(w)]}]]
      BY <2>1 DEF Arrive
    <3>2. PcTypes'
      BY <2>0, <3>1 DEF RowsHold, PcTypes
    <3>3. QED
      BY <2>1, <3>2 DEF Arrive, RowsHold, RowsOf
  <2>2. CASE LookForRow(p)
    BY <2>0, <2>2, StepHolds DEF LookForRow
  <2>3. CASE LookForRating(p)
    BY <2>0, <2>3, StepHolds DEF LookForRating
  <2>4. CASE Insert(p)
    BY <2>4, StoreHolds DEF Insert
  <2>5. CASE LoseInsert(p)
    BY <2>0, <2>5, StepHolds DEF LoseInsert
  <2>6. CASE RecoverTask(p)
    BY <2>0, <2>6, StepHolds DEF RecoverTask
  <2>7. CASE UpdateRating(p)
    BY <2>7, StoreHolds DEF UpdateRating
  <2>8. QED
    BY <1>3, <2>1, <2>2, <2>3, <2>4, <2>5, <2>6, <2>7
<1>4. QED
  BY <1>1, <1>2, <1>3 DEF WritesNext

LEMMA WritesTypes == WritesInv /\ RowsHold => WritesTypeOK
<1> SUFFICES ASSUME WritesInv, RowsHold PROVE WritesTypeOK
  OBVIOUS
<1>1. ASSUME NEW p \in Writers
      PROVE  writer[p].ask \subseteq Writes /\ (writer[p].ask = {}) = (writer[p].pc = "idle")
  <2>1. Serving(p)
    BY DEF WritesInv
  <2>2. QED
    BY <2>1 DEF Serving
<1>2. QED
  BY <1>1 DEF WritesTypeOK, WritesInv, RowsHold, PcTypes

-----------------------------------------------------------------------------
\* What holds of the parts together.
ApiInv ==
  /\ AccountsInv
  /\ PeriodInv /\ PeriodTypeOK
  /\ WritesInv /\ RowsHold
  /\ LimiterInv
  /\ IdentityInv

\* Every variable of the API keeps its type, whichever part runs.
THEOREM ApiTypesHold == ApiSpec => []ApiTypeOK
<1>1. ApiInit => ApiInv
  BY AccountsInvInit, PeriodInvInit, PeriodTypesInit, WritesInvInit, RowsHoldInit,
     LimiterInit, IdentityInvInit DEF ApiInit, ApiInv
<1>2. ApiInv /\ [ApiNext]_apiVars => ApiInv'
  <2> SUFFICES ASSUME ApiInv, [ApiNext]_apiVars PROVE ApiInv'
    OBVIOUS
  <2>1. /\ [AccountsNext]_accountVars /\ [PeriodNext]_periodVars /\ [WritesNext]_writeVars
        /\ [RateLimitNext]_limitVars /\ [IdentityNext]_identityVars
    BY DEF ApiNext, apiVars
  <2>2. QED
    BY <2>1, AccountsInvStep, PeriodInvStep, PeriodTypesStep, WritesInvStep, RowsHoldStep,
       LimiterStep, IdentityInvStep DEF ApiInv
<1>3. ApiInv => ApiTypeOK
  BY WritesTypes DEF ApiInv, ApiTypeOK, AccountsInv, LimiterInv, IdentityInv
<1>4. QED
  BY <1>1, <1>2, <1>3, PTL DEF ApiSpec
=============================================================================
