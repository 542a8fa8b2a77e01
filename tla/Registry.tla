------------------------------- MODULE Registry -------------------------------
(***************************************************************************)
(* The registry client (lib/registry.py) and "ch-image push" (lib/push.py): *)
(* every request is repeated with stronger authorization after a 401 until *)
(* it is answered or there is nothing to escalate to; push uploads blobs,  *)
(* then the manifest that names them.  The registry is external: what it   *)
(* demands is the variable policy, and it may lose uploads, let tokens     *)
(* expire and break connections, up to MaxFaults times.                    *)
(***************************************************************************)
EXTENDS Naturals, Sequences, FiniteSets

CONSTANTS LayerCount,   \* the number of layers of a pushed image
          Histories,    \* of images: for each entry, is it an "empty_layer"?
          Policies,     \* what registries demand
          MaxCommands, MaxFaults

ASSUME RegistryAssumption == /\ MaxCommands \in Nat /\ MaxFaults \in Nat
                             /\ LayerCount \in Nat \ {0}
                             /\ Histories \subseteq Seq(BOOLEAN)
                             /\ \A q \in Policies :
                                  /\ q.scheme \in {"none", "Basic", "Bearer"}
                                  /\ q.says \in {"same", "token", "fickle"}
                                  /\ {q.public, q.permit, q.known} \subseteq BOOLEAN

VARIABLES policy,     \* what this registry demands
          repo,       \* the blobs it has
          manifest,   \* the blobs its manifest names, none if it has none
          history,    \* the history in the config that the manifest names
          cmd,        \* the command that is running, or "idle"
          auth_p,     \* its authentication mode
          todo,       \* the requests it has still to make
          at,         \* "send", "reply" or, at its end, "done" or "fatal"
          status,     \* of the response under consideration
          auth,       \* the authorization object
          ask,        \* where credentials come from: environment variables,
                      \* or the user, once or (--password-many) every time
          creds,      \* credentials remembered by this HTTP object?
          asked,      \* times this process asked the user, up to Often
          body,       \* is the stream to upload unread?
          hist,       \* history of the image to push, later of its config
          commands, faults

registry == <<policy, repo, manifest, history>>
vars == <<registry, cmd, auth_p, todo, at, status, auth, ask, creds, asked,
          body, hist, commands, faults>>

Often == 2   \* bound of asked: more than once

\* What push uploads: layers, which are the same whenever an image is packed,
\* and a config, which is another one every time since it has the date in it.
Layers == {<<"layer", i>> : i \in 1 .. LayerCount}
Config(k) == <<"config", k>>
Blobs(k) == Layers \cup {Config(k)}

\* blob_upload, layer_from_file, config_upload
Upload(b) == <<[op |-> "exists", b |-> b], [op |-> "post", b |-> b],
               [op |-> "put", b |-> b], [op |-> "verify", b |-> b]>>
Req(op) == [op |-> op, b |-> <<"layer", 1>>]

\* The requests of Image_Pusher.push (prepare asks for the base URL before it
\* packs the image), of Image_Puller.download, and of a build that pulls two
\* images, each with an HTTP object of its own.
UploadAll == [j \in 1 .. 4 * LayerCount |->
                Upload(<<"layer", (j + 3) \div 4>>)[((j - 1) % 4) + 1]]

\* Mutant: the manifest goes before the config.
PushRequestsEarly(k) == <<Req("base"), Req("prepare")>> \o UploadAll
                        \o <<Req("manifest")>> \o Upload(Config(k))

PushRequests(k) == <<Req("base"), Req("prepare")>> \o UploadAll
                   \o Upload(Config(k)) \o <<Req("manifest")>>
PullRequests == <<Req("fatman"), Req("get")>>
Script(c, k) == IF c = "push" THEN PushRequests(k)
             ELSE IF c = "pull" THEN PullRequests
             ELSE PullRequests \o <<Req("new")>> \o PullRequests

\* The statuses each caller of request() can deal with.
Statuses(op) == IF op \in {"base", "get"} THEN {200}
                ELSE IF op \in {"exists", "verify"} THEN {200, 401, 404}
                ELSE IF op = "fatman" THEN {200, 401, 404, 429}
                ELSE IF op = "post" THEN {202} ELSE {201}

\* Authorization objects; a token is for the challenge (auth_d) it was got for.
Auth_None == [class |-> "None", d |-> << >>, live |-> TRUE]
Escalators(a) == IF a.class = "None" THEN {"Basic", "Anon", "IDed"}
                 ELSE IF a.class = "Basic" THEN {} ELSE {"IDed"}
Scheme(class) == IF class = "Basic" THEN "Basic" ELSE "Bearer"
Authenticated(class) == class \in {"Basic", "IDed"}     \* class_.auth_p

\* What the registry demands (external): a Bearer token must be for the scope
\* of the request.  Its challenge is the same every time ("same"), or has an
\* extra attribute in a 401 to a token ("token"), or is never the same as the
\* one before, as with a nonce or a time in it ("fickle").
Scope(op) == IF op = "base" THEN "base"
             ELSE IF op \in {"post", "put", "manifest"} THEN "push" ELSE "pull"
Extra == /\ auth.class \in {"Anon", "IDed"}
         /\ policy.says = "token" \/ (policy.says = "fickle" /\ ~auth.d[2])
Challenge(op) == <<Scope(op), Extra>>
Granted(op) ==
    \/ policy.scheme = "none"
    \/ policy.public /\ Scope(op) # "push" /\ policy.scheme = "Basic"
    \/ policy.scheme = "Basic" /\ auth.class = "Basic" /\ policy.known /\ policy.permit
    \/ /\ policy.scheme = "Bearer" /\ auth.class \in {"Anon", "IDed"}
       /\ auth.live /\ auth.d[1] = Scope(op)
       /\ \/ policy.public /\ Scope(op) # "push"
          \/ auth.class = "IDed" /\ policy.permit

Init == /\ policy \in Policies
        /\ \/ repo = {} /\ manifest = {} /\ history = << >>
           \/ repo = Blobs(0) /\ manifest = Blobs(0) /\ history = <<FALSE>>
        /\ hist = << >>
        /\ cmd = "idle" /\ auth_p = FALSE /\ todo = << >> /\ at = "done"
        /\ status = 200 /\ auth = Auth_None
        /\ ask = "once" /\ creds = FALSE /\ asked = 0 /\ body = TRUE
        /\ commands = 0 /\ faults = 0

\* main() of pull, build or push; push always runs in authenticated mode.
Start(c) ==
    /\ cmd = "idle" /\ commands < MaxCommands /\ commands' = commands + 1
    /\ cmd' = c /\ auth_p' \in (IF c = "push" THEN {TRUE} ELSE BOOLEAN)
    /\ hist' \in (IF c = "push" THEN Histories ELSE {<< >>})
    /\ todo' = Script(c, commands') /\ at' = "send" /\ auth' = Auth_None
    /\ ask' \in {"env", "once", "many"} /\ creds' = FALSE /\ asked' = 0
    /\ body' = TRUE
    /\ UNCHANGED <<registry, status, faults>>

\* The next image of a build: another HTTP object, with Credentials of its own.
NewHTTP ==
    /\ at = "send" /\ Head(todo).op = "new"
    /\ todo' = Tail(todo) /\ auth' = Auth_None /\ creds' = FALSE
    /\ UNCHANGED <<registry, cmd, auth_p, at, status, ask, asked, body, hist,
                   commands, faults>>

\* Mutant: the first entry that is not empty.
WinnerFirst(h) == CHOOSE i \in DOMAIN h : ~h[i] /\ \A j \in DOMAIN h : ~h[j] => i <= j

\* prepare: the last history entry that is not empty stays so, the others are
\* made empty, except that the last entry of all is left as it is.
Winner(h) == CHOOSE i \in DOMAIN h : ~h[i] /\ \A j \in DOMAIN h : ~h[j] => j <= i
OneLayer(h) == [i \in DOMAIN h |-> IF i < Len(h) THEN i # Winner(h) ELSE h[i]]
HasLayer(h) == \E i \in DOMAIN h : ~h[i]

Prepare ==
    /\ at = "send" /\ Head(todo).op = "prepare" /\ HasLayer(hist)
    /\ hist' = OneLayer(hist) /\ todo' = Tail(todo)
    /\ UNCHANGED <<registry, cmd, auth_p, at, status, auth, ask, creds, asked,
                   body, commands, faults>>

\* ... which is an assertion if there is none.
PrepareFatal ==
    /\ at = "send" /\ Head(todo).op = "prepare" /\ ~HasLayer(hist)
    /\ at' = "fatal"
    /\ UNCHANGED <<registry, cmd, auth_p, todo, status, auth, ask, creds,
                   asked, body, hist, commands, faults>>

\* The registry's answer to a request it grants.
Answer(r) ==
    IF r.op \in {"exists", "verify", "get"} THEN (IF r.b \in repo THEN 200 ELSE 404)
    ELSE IF r.op = "fatman" THEN (IF manifest # {} THEN 200 ELSE 404)
    ELSE IF r.op = "post" THEN 202
    ELSE IF r.op = "manifest" THEN 201
    ELSE IF r.op = "put" THEN (IF body THEN 201 ELSE 400) ELSE 200

\* request_raw: the request is sent and answered.  A layer is streamed from a
\* Progress_Reader, which cannot be read twice.
Send ==
    /\ at = "send" /\ Head(todo).op \notin {"new", "prepare"} /\ at' = "reply"
    /\ LET r == Head(todo) IN
       /\ status' = IF Granted(r.op) THEN Answer(r) ELSE 401
       /\ body' = (r.op = "put" => r.b \notin Layers)
       /\ repo' = IF r.op = "put" /\ status' = 201 THEN repo \cup {r.b} ELSE repo
       /\ IF r.op = "manifest" /\ status' = 201
          THEN manifest' = Blobs(commands) /\ history' = hist
          ELSE UNCHANGED <<manifest, history>>
    /\ UNCHANGED <<policy, cmd, auth_p, todo, auth, ask, creds, asked, hist,
                   commands, faults>>

\* Auth.escalate: the class that matches the scheme and the mode, if it gives
\* anything new.
Candidates == {class \in Escalators(auth) :
                 Scheme(class) = policy.scheme /\ Authenticated(class) = auth_p}
Issued(class) == class = "IDed" => policy.known

\* Mutants: the scope of a token is not compared, or nothing is.
SameClass(a) == a.class = auth.class
SameNever(a) == FALSE

Same(a) == a.class = auth.class /\ a.d = auth.d
NewAuth == {a \in {[class |-> class, d |-> Challenge(Head(todo).op), live |-> TRUE] :
                     class \in {c \in Candidates : Issued(c)}} : ~Same(a)}

\* Credentials.get: what is remembered, else the environment variables, else
\* what the user types; remembered unless --password-many.
Get == IF \E class \in Candidates : Authenticated(class)
       THEN /\ creds' = (ask # "many")
            /\ asked' = IF creds \/ ask = "env" \/ asked = Often THEN asked ELSE asked + 1
       ELSE UNCHANGED <<creds, asked>>

\* request: 401, escalate and try again.
Escalate ==
    /\ at = "reply" /\ status = 401 /\ NewAuth # {}
    /\ auth' \in NewAuth /\ Get /\ at' = "send"
    /\ UNCHANGED <<registry, cmd, auth_p, todo, status, ask, body, hist, commands,
                   faults>>

\* request: 401, and no way to escalate; some callers take 401 for "not
\* there", but a class with no escalators is fatal at once.
Refused ==
    /\ at = "reply" /\ status = 401 /\ NewAuth = {} /\ Get
    /\ IF Escalators(auth) # {} /\ Head(todo).op = "exists"
       THEN at' = "send" /\ todo' = Tail(todo)
       ELSE at' = "fatal" /\ UNCHANGED todo
    /\ UNCHANGED <<registry, cmd, auth_p, status, auth, ask, body, hist,
                   commands, faults>>

\* The caller gets an answer it can use; a blob that is there is not uploaded.
Proceed ==
    /\ at = "reply" /\ status # 401 /\ status \in Statuses(Head(todo).op)
    /\ Head(todo).op \in {"verify", "fatman"} => status = 200
    /\ todo' = IF Head(todo).op = "exists" /\ status = 200
               THEN SubSeq(todo, 5, Len(todo)) ELSE Tail(todo)
    /\ at' = IF todo' = << >> THEN "done" ELSE "send"
    /\ body' = TRUE
    /\ UNCHANGED <<registry, cmd, auth_p, status, auth, ask, creds, asked,
                   hist, commands, faults>>

\* An answer nobody expects, a blob that is not there after its upload, or an
\* image that is unavailable.
Fatal ==
    /\ at = "reply" /\ status # 401
    /\ \/ status \notin Statuses(Head(todo).op)
       \/ Head(todo).op \in {"verify", "fatman"} /\ status # 200
    /\ at' = "fatal"
    /\ UNCHANGED <<registry, cmd, auth_p, todo, status, auth, ask, creds,
                   asked, body, hist, commands, faults>>

\* The process ends, and what it had in memory is gone.
End == /\ cmd # "idle" /\ at \in {"done", "fatal"} /\ cmd' = "idle"
       /\ ask' = "once" /\ creds' = FALSE /\ asked' = 0 /\ auth' = Auth_None
       /\ UNCHANGED <<registry, auth_p, todo, at, status, body, hist, commands,
                      faults>>

\* Faults: the connection breaks (RequestException is fatal), the answer is
\* not one of the protocol (a 401 without WWW-Authenticate is fatal too) or
\* the process is killed, before or after the registry has done what it was
\* asked to; a token expires; a blob is lost although its PUT was answered
\* with 201.
Fault == faults < MaxFaults /\ faults' = faults + 1 /\ cmd # "idle"

Broken == /\ Fault /\ at \in {"send", "reply"} /\ at' = "fatal"
          /\ UNCHANGED <<registry, cmd, auth_p, todo, status, auth, ask, creds,
                         asked, body, hist, commands>>

Expire == /\ Fault /\ auth.class \in {"Anon", "IDed"} /\ auth.live
          /\ auth' = [auth EXCEPT !.live = FALSE]
          /\ UNCHANGED <<registry, cmd, auth_p, todo, at, status, ask, creds,
                         asked, body, hist, commands>>

Lose == /\ Fault /\ at = "reply" /\ Head(todo).op = "put" /\ status = 201
        /\ Head(todo).b \notin manifest /\ repo' = repo \ {Head(todo).b}
        /\ UNCHANGED <<policy, manifest, history, cmd, auth_p, todo, at, status,
                       auth, ask, creds, asked, hist, body, commands>>

Client == NewHTTP \/ Prepare \/ PrepareFatal \/ Escalate \/ Refused \/ Proceed
          \/ Fatal \/ End

Next == \/ \E c \in {"push", "pull", "build"} : Start(c)
        \/ Client \/ Send \/ Broken \/ Expire \/ Lose

\* The client goes on as long as it can.  That every request is answered is
\* an assumption on the registry: request_raw sets no timeout, and ch-image
\* waits for ever for a registry that accepts a connection and says nothing.
Spec == Init /\ [][Next]_vars /\ WF_vars(Client) /\ WF_vars(Send)
-----------------------------------------------------------------------------
\* Registry and client are as described above (lib/registry.py HTTP).
TypeOK ==
    /\ policy \in Policies
    /\ \A S \in {repo, manifest} : S \subseteq Layers \cup {Config(k) : k \in 0 .. commands}
    /\ history \in Seq(BOOLEAN) /\ hist \in Seq(BOOLEAN)
    /\ cmd \in {"idle", "push", "pull", "build"} /\ auth_p \in BOOLEAN
    /\ \A i \in DOMAIN todo : todo[i].b \in Blobs(commands)
    /\ at \in {"send", "reply", "done", "fatal"}
    /\ status \in {200, 201, 202, 400, 401, 404}
    /\ auth.class \in {"None", "Basic", "Anon", "IDed"}
    /\ ask \in {"env", "once", "many"} /\ creds \in BOOLEAN
    /\ asked \in 0 .. Often /\ body \in BOOLEAN
    /\ commands \in 0 .. MaxCommands /\ faults \in 0 .. MaxFaults

(***************************************************************************)
(* Image_Pusher.upload: an image that can be pulled is complete.  The      *)
(* manifest is there only if all blobs it names are, wherever a push was   *)
(* killed or broken off, whatever upload was lost and however often push   *)
(* is repeated with another config; the registry is not assumed to check.  *)
(***************************************************************************)
ManifestComplete == manifest \subseteq repo

(***************************************************************************)
(* prepare ("the total number of non-empty layers always totals one"): the *)
(* history of an image that was pushed has one non-empty entry for its one *)
(* layer, whatever the history of the image was; some registries check.    *)
(***************************************************************************)
HistoryMatches ==
    manifest # {} => Cardinality({i \in DOMAIN history : ~history[i]}) = LayerCount

(***************************************************************************)
(* Auth.escalate: whoever may push or pull, can.  Without faults a command *)
(* fails only if the registry does not have the image or the user is not   *)
(* entitled to it: no scheme, order of scopes or attribute of a challenge  *)
(* leads escalation into a dead end.                                       *)
(***************************************************************************)
Authorized ==
    LET reads == cmd # "push" IN
    \/ policy.scheme = "none"
    \/ reads /\ policy.public /\ (policy.scheme = "Basic" \/ ~auth_p \/ policy.known)
    \/ auth_p /\ policy.known /\ policy.permit

Entitled == Authorized /\ IF cmd # "push" THEN manifest # {} ELSE HasLayer(hist)

FailsForAReason == cmd # "idle" /\ at = "fatal" /\ faults = 0 => ~Entitled

(***************************************************************************)
(* request: the loop of requests and escalations ends if the registry      *)
(* answers, although tokens expire and every scope needs a token of its    *)
(* own; to a user whose tokens never suffice, the registry must not give a *)
(* new challenge every time.                                               *)
(***************************************************************************)
CommandsEnd ==
    cmd # "idle" /\ (policy.says = "fickle" => Authorized) ~> cmd = "idle"

(***************************************************************************)
(* Auth_Bearer_IDed.escalators: "I'm pretty sure this doesn't create an    *)
(* infinite loop because eventually the token request will fail".          *)
(***************************************************************************)
EscalationEnds == cmd # "idle" ~> cmd = "idle"

(***************************************************************************)
(* ch-image.rst on authentication: the username and password "are          *)
(* remembered for the life of the process and silently re-offered to the   *)
(* registry if needed", unless --password-many says otherwise.             *)
(***************************************************************************)
CredentialsRemembered == ask # "many" => asked <= 1
=============================================================================
