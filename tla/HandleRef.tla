----------------------------- MODULE HandleRef -----------------------------
(***************************************************************************)
(* VMHandleRef of GameHandles.h, which keeps a reference to a handle with  *)
(* the game's handle policy. The class declares a destructor and nothing   *)
(* else, so that the compiler's copies hold a handle they did not acquire, *)
(* and a copy that is assigned to forgets its own.                         *)
(***************************************************************************)
EXTENDS Integers, FiniteSets

CONSTANTS Refs, Handles,
          MaxForgotten, \* bound: handles forgotten without a release
          Invalid,      \* GetInvalidHandle()
          Absent        \* no such object

HandleRefAssumption == /\ IsFiniteSet(Refs)
                       /\ Invalid \notin Handles /\ Absent \notin Handles \cup {Invalid}

VARIABLES handle,    \* handle[r]: m_handle
          policy,    \* policy[h]: references the policy counts; the game has one
          forgotten, \* forgotten[h]: held by refs that do not hold h any more
          copies     \* copies[h]: held by refs that did not acquire h

vars == <<handle, policy, forgotten, copies>>

Init == /\ handle = [r \in Refs |-> Absent]
        /\ policy = [h \in Handles |-> 1]
        /\ forgotten = [h \in Handles |-> 0]
        /\ copies = [h \in Handles |-> 0]

Plus(f, h, n) == IF h \in Handles THEN [f EXCEPT ![h] = @ + n] ELSE f

Construct(r, h) == /\ handle[r] = Absent
                   /\ handle' = [handle EXCEPT ![r] = h]
                   /\ policy' = Plus(policy, h, 1)
                   /\ UNCHANGED <<forgotten, copies>>

Release(r) == /\ handle[r] # Absent
              /\ policy' = Plus(policy, handle[r], -1)
              /\ handle' = [handle EXCEPT ![r] = Invalid]
              /\ UNCHANGED <<forgotten, copies>>

(* The destructor: release() of what the object then holds.                *)
Destroy(r) == /\ handle[r] # Absent
              /\ policy' = Plus(policy, handle[r], -1)
              /\ handle' = [handle EXCEPT ![r] = Absent]
              /\ UNCHANGED <<forgotten, copies>>

CanForget(r) == handle[r] \in Handles => forgotten[handle[r]] < MaxForgotten

Invalidate(r) == /\ handle[r] # Absent /\ CanForget(r)
                 /\ handle' = [handle EXCEPT ![r] = Invalid]
                 /\ forgotten' = Plus(forgotten, handle[r], 1)
                 /\ UNCHANGED <<policy, copies>>

(* The implicit copy constructor and copy assignment.                      *)
Copy(r, from) == /\ r # from /\ handle[from] # Absent
                 /\ CanForget(r)
                 /\ handle[from] \in Handles => copies[handle[from]] < MaxForgotten
                 /\ handle' = [handle EXCEPT ![r] = handle[from]]
                 /\ forgotten' = Plus(forgotten, handle[r], 1)
                 /\ copies' = Plus(copies, handle[from], 1)
                 /\ UNCHANGED policy

Next == \E r \in Refs : \/ \E h \in Handles \cup {Invalid} : Construct(r, h)
                        \/ Release(r) \/ Destroy(r) \/ Invalidate(r)
                        \/ \E from \in Refs : Copy(r, from)

Spec == Init /\ [][Next]_vars

-----------------------------------------------------------------------------
TypeOK == /\ handle \in [Refs -> Handles \cup {Invalid, Absent}]
          /\ policy \in [Handles -> Int]

(* The policy counts a handle once for the game and for each reference     *)
(* that holds it or forgot it, less the copies: a handle of which no copy  *)
(* was made is never released while somebody holds it, and one of which a  *)
(* copy was made is (GameHandles.cpp:59-88).                               *)
HandlesCounted ==
    \A h \in Handles :
        policy[h] = 1 + Cardinality({r \in Refs : handle[r] = h}) + forgotten[h] - copies[h]
=============================================================================
