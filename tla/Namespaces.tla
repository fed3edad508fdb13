------------------------------- MODULE Namespaces -------------------------------
(***************************************************************************)
(* NamespaceManager: namespaces, their members, and who may communicate    *)
(* with whom.  Each method is one step under its lock.  Nothing in this    *)
(* code adds a rule, takes a member out or removes a namespace.            *)
(*                                                                         *)
(* can_communicate goes once through a HashMap, in an order of its own,    *)
(* and keeps, for either agent, the last namespace it meets it in.         *)
(***************************************************************************)
EXTENDS FiniteSets

CONSTANTS Name, Member, NoName

ASSUME NamespaceAssumption == NoName \notin Name

VARIABLES
  members,   \* name -> the members of the namespace, or NoName if there is none
  parent,    \* name -> the namespace above it, or NoName
  \* History, to state the property:
  reply      \* the last answer of can_communicate: [ok, from, to], with the
             \* namespaces that either agent was a member of, or NoName

namespaceVars == <<members, parent, reply>>

NamespaceInit == /\ members = [n \in Name |-> NoName] /\ parent = [n \in Name |-> NoName]
                 /\ reply = NoName

Existing == {n \in Name : members[n] # NoName}

\* create_namespace; it fails for a name in use and for an unknown parent.
CreateNamespace(n, p) ==
  /\ n \notin Existing /\ p \in Existing \cup {NoName}
  /\ members' = [members EXCEPT ![n] = {}] /\ parent' = [parent EXCEPT ![n] = p]
  /\ UNCHANGED reply

AddMember(n, a) ==
  /\ n \in Existing /\ members' = [members EXCEPT ![n] = @ \cup {a}]
  /\ UNCHANGED <<parent, reply>>

Of(a) == {n \in Existing : a \in members[n]}

\* With no rules only members of one namespace may communicate.
MayTalk(f, t) == f # NoName /\ t # NoName /\ f = t

\* Mutant: the namespaces are gone through once for either agent.
LastOfEither(f, F, t, T) == /\ IF F = {} THEN f = NoName ELSE f \in F
                            /\ IF T = {} THEN t = NoName ELSE t \in T

\* f and t can be the last of F and of T in one order of the namespaces.
LastOf(f, F, t, T) == /\ IF F = {} THEN f = NoName ELSE f \in F
                      /\ IF T = {} THEN t = NoName ELSE t \in T
                      /\ f \in T /\ t \in F => f = t

CanCommunicate(a, b) ==
  /\ \E f, t \in Name \cup {NoName} :
       /\ LastOf(f, Of(a), t, Of(b))
       /\ reply' = [ok |-> MayTalk(f, t), from |-> Of(a), to |-> Of(b)]
  /\ UNCHANGED <<members, parent>>

NamespaceNext ==
  \/ \E n \in Name : \/ \E p \in Name \cup {NoName} : CreateNamespace(n, p)
                     \/ \E a \in Member : AddMember(n, a)
  \/ \E a, b \in Member : CanCommunicate(a, b)

NamespaceSpec == NamespaceInit /\ [][NamespaceNext]_namespaceVars

--------------------------------------------------------------------------------
(* Property *)

\* Whatever the order of the HashMap, agents that share no namespace may not
\* communicate, and agents that are members of the same namespaces, an agent and
\* itself among them, may.  What agents hear that share some of several namespaces
\* depends on that order.
CommunicationSound ==
  reply # NoName =>
    /\ reply.ok => reply.from \cap reply.to # {}
    /\ reply.from = reply.to /\ reply.from # {} => reply.ok
================================================================================
