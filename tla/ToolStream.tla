------------------------------- MODULE ToolStream -------------------------------
(***************************************************************************)
(* streaming.py: how the contents an agent streams become the events of a  *)
(* response.  A stream is a record of what stream_agent_events keeps       *)
(* between two contents and of the events it has yielded.                  *)
(*                                                                         *)
(* A content is [type, id, name, part]: of a call or its result, with the  *)
(* id and the name that the content carries or "none".  The arguments of a *)
(* call are the parts that the agent has sent of them, in order.           *)
(***************************************************************************)
EXTENDS Integers, Sequences, SequencesExt

RenderTool == "render_agent_view"
NoEntry == [name |-> "none", args |-> <<>>]
NoCalls == [c \in {} |-> NoEntry]

(* The dictionary that the caller hands in: filled at the end of the stream. *)
NoResult == [filled |-> FALSE, calls |-> NoCalls]

(* calls[c]: what the fragments of function call c amount to; shown[c]: the call
   as last announced to the client; active: the call that a fragment without an
   id continues. *)
NewStream(ids) ==
    [calls |-> [c \in ids |-> NoEntry], shown |-> [c \in ids |-> NoEntry],
     active |-> "none", out |-> <<>>, result |-> NoResult]

Event(e, c, entry) == [event |-> e, id |-> c, name |-> entry.name, args |-> entry.args]
Plain(e)           == Event(e, "none", NoEntry)
Emit(st, events)   == [st EXCEPT !.out = @ \o events]
Announced(st, c)   == st.shown[c] # NoEntry

(* Mutant: every fragment is taken for the whole call. *)
LastFragment(st, c, x) ==
    [name |-> IF x.name = "none" THEN st.calls[c].name ELSE x.name, args |-> <<x.part>>]

(* A fragment of a call is added to those that came before it. *)
Merged(st, c, x) ==
    [name |-> IF x.name = "none" THEN st.calls[c].name ELSE x.name,
     args |-> Append(st.calls[c].args, x.part)]

(* The call is announced, and becomes the active one, once its name is known. *)
FunctionCall(st, x) ==
    LET c == IF x.id = "none" THEN st.active ELSE x.id
        merged == Merged(st, c, x)
        kept   == [st EXCEPT !.calls[c] = merged]
    IN  IF c = "none" THEN st
        ELSE IF merged.name = "none" THEN kept
        ELSE Emit([kept EXCEPT !.active = c, !.shown[c] = merged],
                  <<Event("function_call", c, merged)>>)

(* A call that the model's host makes is announced once. *)
HostedCall(st, x) ==
    LET entry == [name |-> x.name, args |-> <<x.part>>]
    IN  IF x.id = "none" \/ x.name = "none" \/ Announced(st, x.id) THEN st
        ELSE Emit([st EXCEPT !.shown[x.id] = entry], <<Event("function_call", x.id, entry)>>)

(* agent_view_payload: a view that was rendered, and not rejected. *)
Rendered(entry, x) == entry.name = RenderTool /\ x.type = "rendered"

(* A result goes out with the arguments of its call; a view that it rendered
   follows, unless the result says that it was rejected. *)
Result(st, x) ==
    LET entry == IF x.id = "none" THEN NoEntry ELSE st.shown[x.id] IN
        Emit([st EXCEPT !.active = "none"],
             <<Event("function_result", x.id, entry)>>
               \o IF Rendered(entry, x) THEN <<Event("agent_view", x.id, entry)>> ELSE <<>>)

Taken(st, x) ==
    CASE x.type = "call"        -> FunctionCall(st, x)
      [] x.type = "hosted_call" -> HostedCall(st, x)
      [] x.type = "approval"    -> Emit(st, <<Plain("tool_approval_request")>>)
      [] x.type = "text"        -> Emit(st, <<Plain("text")>>)
      [] OTHER                  -> Result(st, x)

(* tool_messages_to_events: the calls of the final messages, where the fragments
   of a call have become one, and whether its result came after them. *)
ArgumentsOf(calls, x) ==
    IF x.type = "call" /\ x.id \in DOMAIN calls THEN Append(calls[x.id].args, x.part)
    ELSE <<x.part>>

WithContent(calls, x) ==
    IF x.type \in {"call", "hosted_call"}
    THEN [c \in DOMAIN calls \cup {x.id} |->
            IF c = x.id THEN [args |-> ArgumentsOf(calls, x), done |-> FALSE] ELSE calls[c]]
    ELSE IF x.id \in DOMAIN calls THEN [calls EXCEPT ![x.id].done = TRUE]
    ELSE calls

RecordedUpTo(said) ==
    LET upTo[i \in 0..Len(said)] ==
            IF i = 0 THEN NoCalls ELSE WithContent(upTo[i - 1], said[i])
    IN  upTo

Recorded(said) == RecordedUpTo(said)[Len(said)]

(* The end of the agent's stream, with or without a usage. *)
Completed(st, usage, said) ==
    [Emit(st, (IF usage THEN <<Plain("usage")>> ELSE <<>>) \o <<Plain("done")>>)
        EXCEPT !.result = [filled |-> TRUE, calls |-> Recorded(said)]]

(* The route's answer to an exception of the stream. *)
Failed(st) == Emit(st, <<Plain("error"), Plain("done")>>)
===============================================================================
