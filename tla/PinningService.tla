---------------------------- MODULE PinningService ----------------------------
(* What the dapp relies on when it delegates an upload: a call is answered at    *)
(* most once, with success only if its content is pinned, and what was pinned    *)
(* stays pinned.  A call that was refused, or never answered, may have pinned.   *)
EXTENDS Naturals

CONSTANTS Call,  \* calls to the service
          Cid,   \* contents
          NoCid  \* no content

VARIABLES pinned,  \* contents the service keeps
          asked,   \* call -> content it is to pin, or NoCid
          answer   \* call -> "none", "ok" or "refused"

service == <<pinned, asked, answer>>

ServiceInit ==
  /\ pinned = {}
  /\ asked = [c \in Call |-> NoCid]
  /\ answer = [c \in Call |-> "none"]

Open(c) == asked[c] # NoCid /\ answer[c] = "none"

Ask(c, cid) ==
  /\ asked[c] = NoCid
  /\ asked' = [asked EXCEPT ![c] = cid]
  /\ UNCHANGED <<pinned, answer>>

(* The content arrived; the service does not know it, or has not said so yet. *)
Keep(c) ==
  /\ Open(c)
  /\ pinned' = pinned \cup {asked[c]}
  /\ UNCHANGED <<asked, answer>>

Accept(c) ==
  /\ Open(c)
  /\ pinned' = pinned \cup {asked[c]}
  /\ answer' = [answer EXCEPT ![c] = "ok"]
  /\ UNCHANGED asked

Refuse(c) ==
  /\ Open(c)
  /\ pinned' \in {pinned, pinned \cup {asked[c]}}
  /\ answer' = [answer EXCEPT ![c] = "refused"]
  /\ UNCHANGED asked

AskRefused(c, cid) ==
  /\ asked[c] = NoCid
  /\ asked' = [asked EXCEPT ![c] = cid]
  /\ answer' = [answer EXCEPT ![c] = "refused"]
  /\ UNCHANGED pinned

ServiceNext ==
  \E c \in Call :
    \/ \E cid \in Cid : Ask(c, cid) \/ AskRefused(c, cid)
    \/ Keep(c) \/ Accept(c) \/ Refuse(c)

ServiceSpec == ServiceInit /\ [][ServiceNext]_service

===============================================================================
