----------------------------- MODULE MCScraper ------------------------------
(***************************************************************************)
(* Instances of the scraper for TLC.                                       *)
(***************************************************************************)
EXTENDS ScraperProperties, TLC

CONSTANT User

Base == [total |-> 3, batchSize |-> 1, rps |-> 4, burst |-> 0, user |-> User,
         deadline |-> Never]

\* Batches of one and of two with a smaller last one, with and without a
\* burst and a deadline, nothing to do, and each of the values Run refuses.
MCConfigs ==
    {Base, [Base EXCEPT !.batchSize = 2],
     [Base EXCEPT !.burst = 2], [Base EXCEPT !.deadline = 3],
     [Base EXCEPT !.batchSize = 2, !.burst = 1, !.deadline = 2],
     [Base EXCEPT !.total = 0],
     [Base EXCEPT !.total = -1], [Base EXCEPT !.batchSize = 0],
     [Base EXCEPT !.rps = 0], [Base EXCEPT !.user = NoUser]}
=============================================================================
