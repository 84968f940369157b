--------------------------- MODULE MCSchedulerClock ---------------------------
EXTENDS SchedulerClock

CONSTANTS t1, t2, c1, c2

MCThreads == {t1, t2}
MCCollators == {c1, c2}

Cfg(cores, lookahead, retries, maxv) ==
  [indrabase_cores |-> cores, scheduling_lookahead |-> lookahead,
   indrabase_retries |-> retries, max_validators_per_core |-> maxv]

(* Two indrabase cores with one retry; one indrabase core among three      *)
(* cores sized by validators, with no retry.                               *)
MCConfigs == {Cfg(2, 1, 1, 0), Cfg(1, 1, 0, 1)}
=============================================================================
