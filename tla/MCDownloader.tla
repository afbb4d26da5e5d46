---------------------------- MODULE MCDownloader ----------------------------
(***************************************************************************)
(* Command lines for Downloader: one that has no time to end, one that     *)
(* moves the data before it seeds, one with a timeout and hdfs.            *)
(***************************************************************************)
EXTENDS Downloader

Default ==
  [timeout |-> FALSE, seeding_time |-> "infinite", mem_limit |-> FALSE,
   print_progress |-> FALSE, need_down_to_tmp_first |-> FALSE, cluster |-> FALSE]

Lines == {[Default EXCEPT !.print_progress = TRUE, !.mem_limit = TRUE],
          [Default EXCEPT !.seeding_time = "finite", !.need_down_to_tmp_first = TRUE],
          [Default EXCEPT !.timeout = TRUE, !.cluster = TRUE]}

Errors == {"error"}
=============================================================================
