--------------------------- MODULE AllowedIPChecker ---------------------------
(***************************************************************************)
(* utils/ip/AllowedIPChecker: which endpoints the program looks at.  An    *)
(* allow list takes precedence over a block list; without either every     *)
(* IPv4 address is allowed.  A list stands for the addresses its entries   *)
(* and ranges match.                                                       *)
(***************************************************************************)
CONSTANTS
  ValidIPs,         \* the addresses that parse as IPv4
  AllowedList,      \* a set of addresses, or None when no list is given
  BlockedList,      \* a set of addresses, or None when no list is given
  None              \* no list; a field absent or of the wrong type

check_allowed(ip) ==
  /\ ip \in ValidIPs
  /\ IF AllowedList # None THEN ip \in AllowedList
     ELSE BlockedList # None => ip \notin BlockedList

=============================================================================
