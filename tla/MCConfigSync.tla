---------------------------- MODULE MCConfigSync ----------------------------
(* ConfigSync for TLC: the fields at the edges of their ranges. *)
EXTENDS ConfigSync

Update(payload, connections, requests, output, level) ==
  [max_payload_size |-> payload, max_connections_per_client |-> connections,
   max_requests_per_client_per_second |-> requests, slow_client_output_limit |-> output,
   log_level |-> level]

(* The output limit has just room for the largest frame. *)
Smallest == Update(10, 1, 1, 14, "Warn")

Largest == Update(4194314, 2147483647, 2147483647, 67108864, "ERROR")

(* validateConfigUpdate refuses these. *)
OutOfRange ==
  {Update(9, 1, 1, 14, "INFO"), Update(4194315, 1, 1, 67108864, "INFO"),
   Update(10, 0, 1, 14, "INFO"), Update(10, 1, 0, 14, "INFO"), Update(10, 1, 1, 13, "INFO"),
   Update(10, 1, 1, 67108865, "INFO"), Update(10, 1, 1, 14, "verbose"), Update(10, 1, 1, 14, "")}

EdgeFields == {Smallest, Largest} \cup OutOfRange
=============================================================================
