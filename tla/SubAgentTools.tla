----------------------------- MODULE SubAgentTools -----------------------------
(***************************************************************************)
(* The tools of an agent's runtime: which references to other agents are   *)
(* accepted (validators.py), which of them become tools and under which    *)
(* names (sub_agent_tools.py, agent_factory.py).                           *)
(*                                                                         *)
(* An agent is [name, usable, refs]: whether its definition has a prompt   *)
(* and the ids of the agents it refers to.  A spelling is a member of a    *)
(* small set; Slug and Numbered give what the string functions compute.    *)
(***************************************************************************)
EXTENDS Integers, Sequences, FiniteSets, Functions, SequenceOps

CONSTANTS
    Slug,      \* Slug[n]: _slugify(n), "" if nothing is left of n
    Numbered,  \* Numbered[n][k]: n, cut to length, with the suffix _k
    NoAgent    \* a reference that cannot be resolved

(* Two suffixes never make the same name of one: they are at its end, uncut. *)
ASSUME NumberedAssumption ==
    \A n \in DOMAIN Numbered :
        /\ DOMAIN Numbered[n] \subseteq Nat /\ IsFiniteSet(DOMAIN Numbered[n])
        /\ \A j, k \in DOMAIN Numbered[n] : Numbered[n][j] = Numbered[n][k] => j = k

(* A reference: [kind, id, supplied]; supplied is the id of the definition that
   the client sent along, or "none". *)
Target(ref) == <<ref.kind, ref.id>>

(* validate_sub_agent_tool_refs; agents[k] is what the k-th one resolves to. *)
RefsAccepted(parent, refs, agents) ==
    \A k \in DOMAIN refs :
        /\ refs[k].kind = "custom" => refs[k].supplied \in {"none", refs[k].id}
        /\ refs[k].id # parent
        /\ \A j \in 1..(k - 1) : Target(refs[j]) # Target(refs[k])
        /\ agents[k] # NoAgent /\ agents[k].usable
        /\ parent \notin agents[k].refs

(* derive_sub_agent_tool_surface: the name of the tool for an agent. *)
Surface(name, id) ==
    CASE Slug[name] # "" -> Slug[name]
      [] Slug[name] = "" /\ Slug[id] # "" -> Slug[id]
      [] OTHER -> "sub_agent"

Unused(name, seen) ==
    IF name \notin seen THEN name
    ELSE LET free == {k \in DOMAIN Numbered[name] : Numbered[name][k] \notin seen}
         IN  Numbered[name][CHOOSE k \in free : \A j \in free : k <= j]

(* Mutant: the names in use by other tools are not looked at. *)
Overlapping(names, reserved) ==
    LET upTo[k \in 0..Len(names)] ==
          IF k = 0 THEN <<>> ELSE Append(upTo[k - 1], Unused(names[k], Range(upTo[k - 1])))
    IN  upTo[Len(names)]

(* disambiguate_tool_names: left to right, each name against those before it. *)
Disambiguated(names, reserved) ==
    LET upTo[k \in 0..Len(names)] ==
          IF k = 0 THEN <<>>
          ELSE Append(upTo[k - 1], Unused(names[k], reserved \cup Range(upTo[k - 1])))
    IN  upTo[Len(names)]

(* _resolve_sub_agent_definition: the references that resolve. *)
Resolved(refs, agents) ==
    Chosen([k \in DOMAIN refs |-> k],
           {k \in DOMAIN refs : agents[k] # NoAgent /\ agents[k].usable})

(* The loops of _build_sub_agent_tools: the references that do not resolve and
   those in unwrapped are left out, the latter after they were given a name. *)
SubAgentNames(refs, agents, reserved, unwrapped) ==
    LET resolved == Resolved(refs, agents)
        names == Disambiguated([i \in DOMAIN resolved |->
                    Surface(agents[resolved[i]].name, refs[resolved[i]].id)], reserved)
    IN  [i \in {j \in DOMAIN resolved : resolved[j] \notin unwrapped} |-> names[i]]

(* _resolve_enabled_tools *)
Enabled(names, built) == names \cap built

(* create_chat_runtime: the tools of an agent, of which the function tools and the MCP servers keep their names. *)
Runtime(enabled, built, servers, refs, agents, unwrapped) ==
    LET own == Enabled(enabled, built) \cup servers
    IN  [own |-> own, subs |-> SubAgentNames(refs, agents, own, unwrapped)]
===============================================================================
