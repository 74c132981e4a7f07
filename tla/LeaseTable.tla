----------------------------- MODULE LeaseTable -----------------------------
(***************************************************************************)
(* What the patch-lease authority of agent_lib promises its callers: one   *)
(* table saying which owner holds which workspace path, on which every     *)
(* call takes effect at a single instant between its invocation and its    *)
(* answer.  An acquire of several paths is granted as a whole or refused   *)
(* as a whole, a refusal changes nothing, and a release gives back only    *)
(* what the caller's owner holds.  Locks, files, temporary files and       *)
(* timeouts do not appear: they are PatchLeases' business.                 *)
(***************************************************************************)
CONSTANTS
  Procs,      \* threads of control that call the authority
  Owners,     \* owner identifiers (owner_id)
  OwnerOf,    \* the owner each process acts for; several may share one
  Paths,      \* normalized workspace-relative paths
  Scopes,     \* reservation scopes (thread_id, note, metadata)
  NoOwner,    \* nobody holds the path
  NoScope     \* no scope recorded

VARIABLES
  holder,     \* holder[x]: the owner whose lease on x is active, or NoOwner
  request,    \* request[p]: the call p has made and not yet seen return
  answer      \* answer[p]: what the call decided, once it has taken effect

vars == <<holder, request, answer>>

NoCall   == [kind |-> "none", paths |-> {}, scope |-> NoScope]
NoAnswer == [status |-> "none", released |-> {}]
Raised   == [status |-> "raised", released |-> {}]

\* p's call has been made and has not taken effect.
Open(p, kind) == request[p].kind = kind /\ answer[p] = NoAnswer

Free(p, x) == holder[x] \in {NoOwner, OwnerOf[p]}

Init ==
  /\ holder \in [Paths -> Owners \cup {NoOwner}]
  /\ request = [p \in Procs |-> NoCall]
  /\ answer = [p \in Procs |-> NoAnswer]

Invoke(p) ==
  /\ request[p] = NoCall
  /\ \E kind \in {"acquire", "release"}, S \in SUBSET Paths, s \in Scopes \cup {NoScope} :
       request' = [request EXCEPT ![p] = [kind |-> kind, paths |-> S, scope |-> s]]
  /\ UNCHANGED <<holder, answer>>

Grant(p) ==
  /\ Open(p, "acquire")
  /\ \A x \in request[p].paths : Free(p, x)
  /\ holder' = [x \in Paths |-> IF x \in request[p].paths THEN OwnerOf[p] ELSE holder[x]]
  /\ answer' = [answer EXCEPT ![p] = [status |-> "active", released |-> {}]]
  /\ UNCHANGED request

Refuse(p) ==
  /\ Open(p, "acquire")
  /\ \E x \in request[p].paths : ~Free(p, x)
  /\ answer' = [answer EXCEPT ![p] = [status |-> "denied", released |-> {}]]
  /\ UNCHANGED <<holder, request>>

Release(p) ==
  LET mine == {x \in request[p].paths : holder[x] = OwnerOf[p]} IN
  /\ Open(p, "release")
  /\ holder' = [x \in Paths |-> IF x \in mine THEN NoOwner ELSE holder[x]]
  /\ answer' = [answer EXCEPT ![p] = [status |-> "released", released |-> mine]]
  /\ UNCHANGED request

\* The call gives up (lock deadline, unreadable file, full disk): no effect.
Fail(p) ==
  /\ request[p] # NoCall
  /\ answer[p] = NoAnswer
  /\ answer' = [answer EXCEPT ![p] = Raised]
  /\ UNCHANGED <<holder, request>>

Respond(p) ==
  /\ answer[p] # NoAnswer
  /\ request' = [request EXCEPT ![p] = NoCall]
  /\ answer' = [answer EXCEPT ![p] = NoAnswer]
  /\ UNCHANGED holder

\* The caller dies: whatever has taken effect stays, nothing else happens.
Vanish(p) ==
  /\ request' = [request EXCEPT ![p] = NoCall]
  /\ answer' = [answer EXCEPT ![p] = NoAnswer]
  /\ UNCHANGED holder

Next ==
  \E p \in Procs :
    \/ Invoke(p) \/ Grant(p) \/ Refuse(p) \/ Release(p)
    \/ Fail(p) \/ Respond(p) \/ Vanish(p)

Spec == Init /\ [][Next]_vars
=============================================================================
