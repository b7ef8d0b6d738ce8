--------------------------- MODULE MCMaintenance ---------------------------
(* Maintenance for TLC: two jobs of two stores, two groups, and a check of   *)
(* Times against the calendar.                                               *)
EXTENDS Maintenance, Times, TLC

CONSTANTS j1, j2, daily, weekly

Config(store, schedule) == [k \in Keys |-> IF k = "store" THEN store ELSE schedule]
MCEdits == {Config(Store, daily), Config(Store, Unset), Config("other", weekly)}

Req(verb, fields, clear, keep, limit, execute) ==
    [verb |-> verb, id |-> j1, fields |-> fields, clear |-> clear, keep |-> keep,
     limit |-> limit, execute |-> execute]
Nil == AllUnset

MCRequests ==
    { Req("job.create", Config(Store, daily), {}, NoKeep, 0, TRUE),
      Req("job.update", Config(Unset, weekly), {}, NoKeep, 0, TRUE),
      Req("job.update", Config(Store, Unset), {"schedule"}, NoKeep, 0, TRUE),
      Req("job.update", Config(Unset, weekly), {}, NoKeep, 0, FALSE),
      Req("job.ensure", Config(Store, daily), {}, NoKeep, 0, TRUE),
      Req("job.run", Nil, {}, NoKeep, 0, TRUE),
      Req("prune", Nil, {}, NoKeep, 0, FALSE),
      Req("prune", Nil, {}, 1, 0, FALSE),
      Req("prune", Nil, {}, NoKeep, 0, TRUE),
      Req("prune", Nil, {}, 1, 0, TRUE),
      Req("gc.run", Nil, {}, NoKeep, 0, TRUE),
      Req("namespace.create", Nil, {}, NoKeep, 0, TRUE),
      Req("health", Nil, {}, NoKeep, 0, TRUE),
      Req("task", Nil, {}, NoKeep, 0, TRUE),
      Req("task", Nil, {}, NoKeep, 1, TRUE) }

Symmetry == Permutations(Groups)

\* Every day from 1899 to 2100, with the leap day of 2000 and the missing ones of 1900
\* and 2100, and the ends of two eras of 400 years (times.rs, civil_from_days).
ASSUME EveryDayIsItsDate ==
    \A d \in -25600 .. 47600 \cup {-719469, -719468, -573372, -573371} :
        DayOf(civil_from_days(d)) = d

\* The instants TLC's integers reach.
Instants == {86400 * d + s : d \in {-24000, -1, 0, 58, 59, 365, 789, 11015, 11016, 20000},
                             s \in {0, 1, 43200, 86399}}
Offsets == {parse_offset(minus, h, m) : minus \in BOOLEAN, h \in {0, 5, 14}, m \in {0, 30, 59}}

\* A rendering is a date of the calendar and names the instant it renders, at every
\* offset a caller can ask for (times.rs, When::new).
ASSUME RendersTheInstant ==
    \A e \in Instants, o \in Offsets :
        LET w == When(e, server_clock([readable |-> TRUE, localtime |-> e + o, time |-> e]), o)
        IN  \A r \in {w.utc, w.server, w.local} : IsTime(r) /\ InstantOf(r) = e
=====
