---------------------------- MODULE ProxyShapes ----------------------------
(***************************************************************************)
(* What resolve() (app/proxy.py) and its caller, _scan_address_core        *)
(* (app/main.py), agree on: the ProxyInfo that one returns and the other   *)
(* acts on.  ProxyResolution shows that resolve() returns nothing else,    *)
(* ScanCore starts from any record of these shapes.  They are about what a *)
(* record says, not about whether the chain is that way.                   *)
(***************************************************************************)
CONSTANTS
    Address,   \* the address in the request
    None       \* no address

\* Not a recognized proxy.
PlainInfo(i) ==
    /\ ~i.is_proxy /\ i.implementation_address = None
    /\ i.scanned_address = Address
    /\ i.state_read_ok /\ ~i.note

\* A clean resolution, by its own account: the implementation it names is what
\* will be fetched and scanned.
ResolvedInfo(i) ==
    /\ i.is_proxy /\ i.implementation_address # None
    /\ i.scanned_address = i.implementation_address
    /\ i.state_read_ok /\ ~i.note

\* A state that could not be read, or a proxy that could not be followed.
UnresolvedInfo(i) ==
    /\ i.scanned_address = Address
    /\ i.note /\ (i.is_proxy \/ ~i.state_read_ok)

Returned(i) == PlainInfo(i) \/ ResolvedInfo(i) \/ UnresolvedInfo(i)
=============================================================================
