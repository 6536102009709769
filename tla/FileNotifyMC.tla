---------------------------- MODULE FileNotifyMC ----------------------------
(* Two pollers and a thread that announces, reads and writes need three
   threads; every thread may make every call. *)
EXTENDS FileNotify
=============================================================================
