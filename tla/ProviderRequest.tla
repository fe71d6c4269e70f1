--------------------------- MODULE ProviderRequest ---------------------------
(***************************************************************************)
(* vt-ai/src: what a feature's request is sent to and as what.  Routes and *)
(* profiles of providers.toml (route.rs), the key each kind of provider    *)
(* asks for, the messages it is sent (body of anthropic.rs and openai.rs)  *)
(* and how its HTTP reply is told from an error (http.rs).                 *)
(***************************************************************************)
EXTENDS Naturals, Sequences, SequencesExt

None == "none"
Kinds == {"anthropic", "openai", "compat", "ollama", "llamacpp"}

(* A profile: its models, with the default one; the file: profiles in      *)
(* order and the routes of some features.                                  *)
WithDefault(profile) == [profile EXCEPT !.models = IF profile.model \in @ THEN @ ELSE @ \cup {profile.model}]
Parse(file) == [file EXCEPT !.profiles = [i \in DOMAIN @ |-> WithDefault(@[i])]]
Names(file) == {file.profiles[i].name : i \in DOMAIN file.profiles}
Parses(file) == \A f \in DOMAIN file.routes : file.routes[f] \in Names(file) \cup {None}

Profile(file, name) == SelectSeq(file.profiles, LAMBDA p : p.name = name)
Route(file, feature) ==
    IF feature \notin DOMAIN file.routes \/ file.routes[feature] = None THEN <<>>
    ELSE Profile(file, file.routes[feature])

SpeaksMessages(kind) == kind \in {"anthropic", "llamacpp"}
Home(kind) == CASE kind \in {"anthropic", "llamacpp"} -> "api.anthropic.com" [] kind = "ollama" -> "127.0.0.1" [] OTHER -> "api.openai.com"
Client(profile, key) ==
    [messages |-> SpeaksMessages(profile.kind), models |-> profile.models, defaultOnly |-> profile.defaultOnly,
     url |-> IF profile.url = None THEN Home(profile.kind) ELSE profile.url,
     key |-> IF key = None /\ profile.kind = "llamacpp" THEN "local" ELSE key,
     keyRequired |-> profile.kind \in {"openai", "anthropic", "llamacpp"}]

(* key and auth_header: without one it needs, nothing is sent.             *)
Sends(client) == client.key # None \/ ~client.keyRequired

(* caps: none for a model that is not of the profile. *)
Known(client, model) == model \in client.models
Sampling(client, model) == ~client.messages \/ model \notin client.defaultOnly

(* http.rs: a reply that is not 2xx is an error, with the start of its     *)
(* body and without the headers sent.                                      *)
Reply(reply) ==
    CASE reply.status = 0 -> [is |-> "transport", body |-> <<>>]
      [] reply.status \in 200..299 -> [is |-> "body", body |-> reply.body]
      [] OTHER -> [is |-> "status", body |-> SubSeq(reply.body, 1, IF Len(reply.body) <= 600 THEN Len(reply.body) ELSE 600)]
Listing(reply) == IF Reply(reply).is = "body" /\ ~reply.json THEN "protocol" ELSE Reply(reply).is

-----------------------------------------------------------------------------
(* A message: role and contents, each "text", "use" or "result".           *)
Content(is, id, text) == [is |-> is, id |-> id, text |-> text]
Message(role, content) == [role |-> role, content |-> content]
Wire(role, id, text, calls) == [role |-> role, id |-> id, text |-> text, calls |-> calls]

Of(m, is) == SelectSeq(m.content, LAMBDA c : c.is = is)
Results(m) == [i \in DOMAIN Of(m, "result") |-> Wire("tool", Of(m, "result")[i].id, Of(m, "result")[i].text, <<>>)]
Spoken(m) ==
    LET text == FlattenSeq([i \in DOMAIN Of(m, "text") |-> Of(m, "text")[i].text])
        calls == [i \in DOMAIN Of(m, "use") |-> Of(m, "use")[i].id]
    IN  IF text = <<>> /\ calls = <<>> THEN <<>> ELSE <<Wire(m.role, None, text, calls)>>
OpenAiMessages(system, messages) ==
    (IF system = None THEN <<>> ELSE <<Wire("system", None, <<system>>, <<>>)>>)
        \o FlattenSeq([i \in DOMAIN messages |-> Results(messages[i]) \o Spoken(messages[i])])

(* anthropic.rs sends the messages as they are, the system beside them;    *)
(* sampling only where the model takes it.                                 *)
Body(client, request) ==
    [messages |-> IF client.messages THEN request.messages ELSE OpenAiMessages(request.system, request.messages),
     system |-> IF client.messages THEN request.system ELSE None,
     sampling |-> IF Sampling(client, request.model) THEN request.sampling ELSE None]

-----------------------------------------------------------------------------
(* docs/09 [ai.routes] and docs/04: once the file is read, a feature that  *)
(* is not switched off has a client; its default model is one the client   *)
(* knows; only a provider that is not local can be stopped by a missing    *)
(* key, and no such provider is asked without one.                         *)
RoutesAnswer(file, feature, key) ==
    Parses(file) =>
        LET found == Route(Parse(file), feature)
            c == Client(found[1], key)
        IN  /\ (found = <<>>) = (feature \notin DOMAIN file.routes \/ file.routes[feature] = None)
            /\ found # <<>> => /\ Known(c, found[1].model)
                               /\ ~Sends(c) => key = None /\ found[1].kind \in {"anthropic", "openai"}
                               /\ key = None /\ c.url \in {"api.openai.com", "api.anthropic.com"} /\ found[1].kind \in {"anthropic", "openai"} => ~Sends(c)

(* docs/04, "tool uses and results": in the wire's order every result      *)
(* comes right after the turn that called for it, none is lost and none    *)
(* is sent twice, whatever else its message says.                          *)
CallsOf(messages) == {messages[i].content[j].id : <<i, j>> \in {<<k, l>> \in (DOMAIN messages) \X (1..4) : l <= Len(messages[k].content) /\ messages[k].content[l].is = "use"}}
Answers(wire, i) == \E j \in 1..(i - 1) : /\ wire[i].id \in {wire[j].calls[k] : k \in DOMAIN wire[j].calls}
                                          /\ \A k \in (j + 1)..(i - 1) : wire[k].role = "tool"
ResultsFollowCalls(system, messages) ==
    LET wire == OpenAiMessages(system, messages)
        tools == {i \in DOMAIN wire : wire[i].role = "tool"}
    IN  /\ \A i \in tools : Answers(wire, i)
        /\ {wire[i].id : i \in tools} = CallsOf(messages)
        /\ \A i, j \in tools : wire[i].id = wire[j].id => i = j

(* docs/04 section 5: a model that only takes the defaults is never sent   *)
(* sampling parameters.                                                    *)
SamplingDropped(file, feature, key, request) ==
    LET found == Route(Parse(file), feature)
    IN  Parses(file) /\ found # <<>> /\ SpeaksMessages(found[1].kind) /\ request.model \in found[1].defaultOnly
            => Body(Client(found[1], key), request).sampling = None
=============================================================================
