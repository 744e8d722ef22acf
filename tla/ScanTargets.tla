---------------------------- MODULE ScanTargets ----------------------------
(* What the camera's two traffic generators, the infected-scan worker and  *)
(* scenario_traffic.py, know of a target before they connect to it.        *)

CONSTANTS Names,         \* targets that must be resolved,
          Unencodable,   \* names that getaddrinfo cannot even encode,
          Outside,       \* and addresses that are not private
          TcpResults,    \* how a TCP connection ends: open, closed, timeout or error
          UdpResults     \* and a datagram: sent, sent_no_response or error

ASSUME ScanTargetsAssumption == Unencodable \subseteq Names /\ Names \cap Outside = {}

\* _target_allowed and target_allowed: whether an address is private is known;
\* what a name resolves to, or whether it does, is up to the resolver.
Verdicts(target, checked) ==
  IF ~checked THEN {TRUE}
  ELSE IF target \in Names THEN BOOLEAN ELSE {target \notin Outside}
=============================================================================
