--------------------------- MODULE MCProvisioning ---------------------------
(***************************************************************************)
(* Provisioning for TLC.                                                   *)
(***************************************************************************)
EXTENDS Provisioning, TLC

\* Tasks, and what phones send, differ in nothing but their names.
Interchangeable == Permutations(Tasks) \cup Permutations(Creds)

\* The state of the session decides nothing, it is only reported to the phone,
\* and the acknowledgement of a scan decides nothing but that state.
AllButTheReport ==
    <<mode, nvs, pair, [s_session EXCEPT !.state = ""], cert, cert_mutex, rx_queue, rx_buffer,
      phone, host, json, tasks, commit_ok, excused, commands, faults>>
=============================================================================
