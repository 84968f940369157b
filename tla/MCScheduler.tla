---------------------------- MODULE MCScheduler ----------------------------
(* Instantiates Scheduler for TLC: two indrabases, two collators, one     *)
(* indracore, and configurations chosen so that the queue fills, claims   *)
(* run out of retries and the indrabase core count changes at a session.  *)
EXTENDS Scheduler

CONSTANTS t1, t2, c1, c2

MCThreads == {t1, t2}
MCCollators == {c1, c2}

Cfg(cores, lookahead, retries, maxv) ==
  [indrabase_cores |-> cores, scheduling_lookahead |-> lookahead,
   indrabase_retries |-> retries, max_validators_per_core |-> maxv]

(* Two or one indrabase cores, retry limits 1 and 0; the second config    *)
(* also sizes cores by validators (3 validators, 1 per core).             *)
MCConfigs == {Cfg(2, 1, 1, 0), Cfg(1, 1, 0, 1)}

(* One indrabase core and a queue of one: no config change at all.      *)
MCConfigsOne == {Cfg(1, 1, 1, 0)}

(* The same with a configuration that has no indrabase cores.             *)
MCConfigsWithZero == {Cfg(2, 1, 1, 0), Cfg(0, 1, 1, 0)}

(* Both configurations of MCConfigs and one with no indrabase cores.      *)
MCConfigsAll == MCConfigs \cup {Cfg(0, 1, 1, 0)}

=============================================================================
