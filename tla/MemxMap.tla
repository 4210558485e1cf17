------------------------------- MODULE MemxMap -------------------------------
(***************************************************************************)
(* What the MEMX ownership index promises its callers: a partial map from   *)
(* granules to handles.  A mutation is accepted for a whole range or not at *)
(* all, takes effect in one step on exactly that range, and a call that     *)
(* fails after it was accepted (for want of memory) changes no lookup.      *)
(* Zero is a handle like any other, and a frozen index refuses every        *)
(* further mutation.  MemxIndex is shown to implement this.                 *)
(***************************************************************************)
EXTENDS Integers

CONSTANTS
    Cells,     \* positions of the granules the index covers
    Handles,   \* the public handle domain, without MEMX_HANDLE_INVALID
    Invalid    \* MEMX_HANDLE_INVALID, the sole not-found value

VARIABLES
    map,       \* the handle that a lookup in each granule returns
    exists,    \* between memx_index_create and memx_index_destroy
    frozen,    \* after memx_index_optimize_overlay
    phase,     \* of the running call: "idle", "called" or "applied"
    request,   \* its arguments
    status     \* result of the last call

vars == <<map, exists, frozen, phase, request, status>>

Errors == {"INVALID_ARGUMENT", "OUT_OF_RANGE", "OVERLAP", "NOT_FOUND",
           "OUT_OF_MEMORY", "BUSY", "UNSUPPORTED"}

Requests == [op : {"insert", "remove"}, lo : Cells, hi : Cells, handle : Handles]
NoRequest == [op |-> "none"]

Unmapped == [c \in Cells |-> Invalid]

Init ==
    /\ map = Unmapped
    /\ exists = FALSE
    /\ frozen = FALSE
    /\ phase = "idle"
    /\ request = NoRequest
    /\ status = "OK"

\* An insertion wants every granule of its range unmapped, a removal wants
\* every one mapped to the handle it names.
Accepts(r) ==
    /\ exists /\ ~frozen
    /\ r.lo <= r.hi
    /\ \A c \in r.lo .. r.hi :
            map[c] = IF r.op = "insert" THEN Invalid ELSE r.handle

Applied(r) ==
    [c \in Cells |-> IF c \in r.lo .. r.hi
                     THEN IF r.op = "insert" THEN r.handle ELSE Invalid
                     ELSE map[c]]

Begin ==
    /\ phase = "idle"
    /\ phase' = "called"
    /\ request' \in Requests
    /\ Accepts(request')
    /\ UNCHANGED <<map, exists, frozen, status>>

Apply ==
    /\ phase = "called"
    /\ map' = Applied(request)
    /\ phase' = "applied"
    /\ status' = "OK"
    /\ UNCHANGED <<exists, frozen, request>>

Finish ==
    /\ phase = "applied"
    /\ phase' = "idle"
    /\ request' = NoRequest
    /\ UNCHANGED <<map, exists, frozen, status>>

Fail ==
    /\ phase = "called"
    /\ phase' = "idle"
    /\ request' = NoRequest
    /\ status' \in Errors
    /\ UNCHANGED <<map, exists, frozen>>

\* A call that does all of its work at once.
Mutate ==
    /\ phase = "idle"
    /\ status' = "OK"
    /\ map' # map
    /\ UNCHANGED <<exists, frozen, phase, request>>
    /\ \E r \in Requests : Accepts(r) /\ map' = Applied(r)

\* Any call may be refused; nothing that a lookup returns changes.
Reject ==
    /\ phase = "idle"
    /\ status' \in Errors
    /\ UNCHANGED <<map, exists, frozen, phase, request>>

Create ==
    /\ phase = "idle" /\ ~exists
    /\ exists' = TRUE
    /\ status' = "OK"
    /\ UNCHANGED <<map, frozen, phase, request>>

Destroy ==
    /\ phase = "idle" /\ exists
    /\ exists' = FALSE
    /\ frozen' = FALSE
    /\ map' = Unmapped
    /\ status' = "OK"
    /\ UNCHANGED <<phase, request>>

\* A change of representation that callers cannot observe, except that it may
\* freeze the index.
Optimize ==
    /\ phase = "idle" /\ exists
    /\ frozen' \in {frozen, TRUE}
    /\ status' = "OK"
    /\ UNCHANGED <<map, exists, phase, request>>

Next ==
    \/ Reject \/ Create \/ Destroy \/ Optimize
    \/ Begin \/ Apply \/ Finish \/ Fail \/ Mutate

Spec == Init /\ [][Next]_vars
=============================================================================
