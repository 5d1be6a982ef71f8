----------------------------- MODULE AccessRules -----------------------------
(***************************************************************************)
(* The decisions about a request that look at no table: who it is, from    *)
(* where it comes, how often, with which credential it may spend, and what *)
(* a model process inherits.  Pure functions, over inputs that keep only   *)
(* what decides the outcome; "no" stands for what is absent.               *)
(***************************************************************************)
EXTENDS Integers, Sequences, FiniteSets, SequencesExt

-----------------------------------------------------------------------------
(* ip-ranges.ts, on narrow addresses: three bits, five in the wide family. *)

Bits(fam) == IF fam = "v4" THEN 3 ELSE 5

\* parseIp: a wide address with the mapped prefix is the narrow one it holds.
ParseIp(a) == IF a.fam = "v6" /\ a.value \div 8 = 1
              THEN [fam |-> "v4", value |-> a.value % 8] ELSE a

\* matchesCidr, with the prefix as a number: a bare address has all of its bits, and -1
\* stands for a prefix that is empty or no number.
MatchesCidr(ip, net, prefix) ==
    LET n == ParseIp(net)
        a == ParseIp(ip)
        low == 2 ^ (Bits(n.fam) - prefix)
        Masked(v) == v - (v % low)
    IN  /\ a.fam = n.fam /\ prefix \in 0..Bits(n.fam)
        /\ prefix = 0 \/ Masked(n.value) = Masked(a.value)
IsInRanges(ip, ranges) == \E r \in ranges : MatchesCidr(ip, r.net, r.prefix)

\* clientIp of the allowlist: what a proxy forwards counts if the peer is one of ours.
ClientIp(peer, xff, real, ours) ==
    IF peer.fam # "no" /\ ~IsInRanges(peer, ours) THEN peer
    ELSE IF xff.fam # "no" THEN xff ELSE IF real.fam # "no" THEN real ELSE peer
AllowedIp(peer, xff, real, ours, loopback, list) ==
    LET ip == ClientIp(peer, xff, real, ours)
    IN  ip.fam # "no" /\ IsInRanges(ip, loopback \cup list)

\* shouldBlockEgress.
BlockEgress(address, host, ours, list) == IsInRanges(address, ours) /\ host \notin list

-----------------------------------------------------------------------------
(* trust-header.ts                                                         *)

\* isLocalOrigin: the host without its port, by name or by range.
LocalOrigin(host, named, ours) ==
    CASE host.fam = "no"   -> FALSE
      [] host.fam = "name" -> host.value \in {"localhost"} \cup named
      [] OTHER             -> IsInRanges(host, ours)

\* jwksFor: given inline, or behind an https address of a listed host.
JwksFound(jwks, listed) == jwks = "inline" \/ jwks = "https-listed" \/ (jwks = "https" /\ ~listed)

\* readUnsignedIdentity: a configured header replaces both known families.
Unsigned(req, cfg) ==
    IF IF cfg.custom THEN req.names # "custom" ELSE req.names \in {"no", "custom"}
    THEN "no" ELSE IF cfg.proxies /\ req.from # "inside" THEN "no" ELSE "header"

\* Mutant: a token that does not verify leaves the unsigned headers to decide.
ForwardOpen(req, cfg) ==
    IF cfg.verify /\ req.jwt = "named" /\ JwksFound(req.jwks, cfg.listed) THEN "claims"
    ELSE Unsigned(req, cfg)

\* resolveForwardHeader: a signed token decides if it is asked for and there with its
\* keys; it is refused, not passed over, unless it verifies and only lacks a name.
ForwardHeader(req, cfg) ==
    IF ~(cfg.verify /\ req.jwt # "no" /\ req.jwks # "no") THEN Unsigned(req, cfg)
    ELSE IF ~JwksFound(req.jwks, cfg.listed) \/ req.jwt = "bad" THEN "no"
    ELSE IF req.jwt = "named" THEN "claims" ELSE Unsigned(req, cfg)

\* resolveIdentity: the cookie, the proxy, the owner fallback.
Identity(req, cfg) ==
    IF cfg.mode \in {"oidc", "local"} /\ req.cookie = "live" THEN "session"
    ELSE IF cfg.mode = "forward-header" /\ ForwardHeader(req, cfg) # "no"
         THEN ForwardHeader(req, cfg)
    ELSE IF cfg.owner /\ (cfg.mode = "single-user" \/ req.local) THEN "owner"
    ELSE "no"

\* authMiddleware and resolveOwner: who may go on.
Admitted(req, cfg, mutation) ==
    LET who == Identity(req, cfg)
    IN  IF who = "no" THEN 401
        ELSE IF mutation /\ who = "session" /\ ~req.csrf THEN 403 ELSE 200

\* deriveRedirectUri: the public origin, if it is one of the registered ones.
RedirectUri(proto, fwdHost, host, allowlist) ==
    LET h == IF fwdHost # "no" THEN fwdHost ELSE host
        uri == <<IF proto = "no" THEN "https" ELSE proto, h>>
    IN  IF h # "no" /\ uri \in allowlist THEN uri ELSE "no"

-----------------------------------------------------------------------------
(* Limits: a window opens with the first hit and closes after its length.  *)

\* loginRateLimited, hit by hit, and the same in RateLimiterMemory.
Window(hits, length, max) ==
    LET after[n \in 0..Len(hits)] ==
          IF n = 0 THEN [count |-> 0, till |-> 0]
          ELSE IF hits[n] >= after[n - 1].till THEN [count |-> 1, till |-> hits[n] + length]
          ELSE [after[n - 1] EXCEPT !.count = @ + 1]
    IN  [n \in DOMAIN hits |-> after[n].count <= max]

\* enforceRateLimit: a turn takes from both buckets, and the first is taken from even
\* if the second is empty.
Limited(kinds, general, turns) ==
    LET seen(n, K) == Cardinality({m \in 1..n : kinds[m] \in K})
        open(n) == seen(n, {"turn", "other"}) <= general
    IN  [n \in DOMAIN kinds |->
           open(n) /\ (kinds[n] = "turn" =>
               Cardinality({m \in 1..n : kinds[m] = "turn" /\ open(m)}) <= turns)]

-----------------------------------------------------------------------------
(* password.ts, secrets.ts, credentials.ts, env.ts                         *)

\* hashPassword keeps a salt and derives from the peppered password; verifyPassword
\* derives again.  The dummy's derived part is of no password.
Hashed(pw, salt, pepper) == <<salt, <<pw, salt, pepper>>>>
Dummy == <<"zero", <<>>>>
Verify(pw, hash, pepper) == Hashed(pw, hash[1], pepper)[2] = hash[2]

\* The decision of a local login: scrypt always runs, on the dummy if need be.
LoginPasses(user, pw, pepper) ==
    LET hash == IF user.there /\ user.on /\ user.hash # <<>> THEN user.hash ELSE Dummy
    IN  user.there /\ user.on /\ user.hash # <<>> /\ Verify(pw, hash, pepper)

\* createSecretBox: what was sealed opens with the same key in the same slot.
Sealed(key, text, user) == [key |-> key, text |-> text, slot |-> <<user, "openrouter">>]
OpenBox(key, sealed, user) ==
    IF key = sealed.key /\ sealed.slot = <<user, "openrouter">> THEN sealed.text ELSE "no"

\* readUserKey: a row that does not open counts as absent.
UserKey(key, rows, user) ==
    IF key = "no" \/ user \notin DOMAIN rows THEN "no" ELSE OpenBox(key, rows[user], user)

\* resolveCredential: the subscription is the administrator's; otherwise the own key,
\* then the host's.
Credential(source, role, own, host) ==
    IF source = "max-pro-sub" THEN IF role = "admin" THEN "subscription" ELSE "refused"
    ELSE IF own # "no" THEN own ELSE IF host # "no" THEN host ELSE "refused"

\* buildClaudeSdkEnv and buildClaudeOpenRouterEnv: the process environment with some
\* variables set and some taken out.  Unset ones are "no".
Knobs == {"DISABLE_THINKING", "DISABLE_1M", "EFFORT", "MAX_OUTPUT", "AUTO_COMPACT", "COMPACT_PCT"}
Skin  == {"API_KEY", "BASE_URL", "AUTH_TOKEN"}
Other == {"OAUTH_TOKEN", "IDENTITY_TOKEN", "IDENTITY_FILE", "SERVICE_ACCOUNT"}
Dirs  == {"CLAUDE_DIR", "ANTHROPIC_DIR"}
Knob(k, turn) ==
    CASE k = "DISABLE_THINKING" -> IF turn.think THEN "no" ELSE "1"
      [] k = "DISABLE_1M"       -> "1"
      [] k = "EFFORT"           -> "no"
      [] k = "MAX_OUTPUT"       -> turn.cap
      [] k = "AUTO_COMPACT"     -> IF turn.off THEN "1" ELSE "no"
      [] k = "COMPACT_PCT"      -> turn.pct
SdkEnv(ambient, turn) ==
    [v \in DOMAIN ambient |-> IF v \in Knobs THEN Knob(v, turn)
                              ELSE IF v \in Skin THEN "no" ELSE ambient[v]]
OpenRouterEnv(ambient, turn, key) ==
    [v \in DOMAIN ambient |->
        CASE v \in Knobs       -> Knob(v, turn)
          [] v = "API_KEY"     -> ""
          [] v = "BASE_URL"    -> "openrouter"
          [] v = "AUTH_TOKEN"  -> key
          [] v \in Dirs        -> "empty dir"
          [] v \in Other       -> "no"
          [] OTHER             -> ambient[v]]

-----------------------------------------------------------------------------
(* The bounded inputs of the checks below.                                 *)

Wide     == [fam : {"v6"}, value : 0..31]
Narrow   == [fam : {"v4"}, value : 0..7]
Absent   == [fam |-> "no", value |-> "no"]
Ours     == {[net |-> [fam |-> "v4", value |-> 4], prefix |-> 2]}
Loopback == {[net |-> [fam |-> "v4", value |-> 4], prefix |-> 3]}
BitOf(a, i) == (a.value \div 2 ^ (Bits(a.fam) - i)) % 2

Requests == [cookie : {"no", "live", "dead"}, jwt : {"no", "bad", "named", "nameless"},
             jwks : {"no", "inline", "https-listed", "https", "http"},
             names : {"no", "custom", "authentik", "authelia"}, from : {"no", "inside", "outside"},
             local : BOOLEAN, csrf : BOOLEAN]
Configs  == [mode : {"single-user", "forward-header", "oidc", "local"}, owner : BOOLEAN,
             verify : BOOLEAN, custom : BOOLEAN, proxies : BOOLEAN, listed : BOOLEAN]
Turns    == [think : BOOLEAN, cap : {"no", "9"}, off : BOOLEAN, pct : {"no", "80"}]
Hits     == {h \in BoundedSeq(0..4, 5) : \A n \in 2..Len(h) : h[n - 1] <= h[n]}

\* Addresses: a range is the addresses that share its leading bits, the embedded ones
\* included; a peer from outside is judged by itself, whatever it forwards.
RangesHold ==
    /\ \A net \in Narrow \cup Wide, ip \in Narrow \cup Wide, p \in -1..6 :
          LET n == ParseIp(net)
              a == ParseIp(ip)
          IN  MatchesCidr(ip, net, p)
                <=> /\ a.fam = n.fam /\ p \in 0..Bits(n.fam)
                    /\ \A i \in 1..p : BitOf(n, i) = BitOf(a, i)
    /\ \A peer, xff \in Narrow \cup {Absent} :
          AllowedIp(peer, xff, Absent, Ours, Loopback, {}) <=>
             IF xff = Absent \/ (peer # Absent /\ peer.value \notin {4, 5})
             THEN peer # Absent /\ peer.value = 4 ELSE xff.value = 4
    /\ \A a \in Narrow, h \in {"issuer", "x"} :
          BlockEgress(a, h, Ours, {"issuer"}) <=> a.value \in {4, 5} /\ h = "x"
    /\ \A h \in Narrow : LocalOrigin(h, {}, Ours) <=> h.value \in {4, 5}

\* Identity: without a credential a request is the owner's only on a single-user server
\* or a local origin, and only if the fallback is on; a single user's server looks at
\* nothing sent; a token that fails is never passed over; a cookie that mutates needs
\* the header, and nothing else does.
IdentityHolds ==
    \A cfg \in Configs : \A req \in Requests :
        LET who == Identity(req, cfg)
        IN  /\ who = "owner" => cfg.owner /\ (cfg.mode # "single-user" => req.local)
            /\ cfg.mode = "single-user" => who = (IF cfg.owner THEN "owner" ELSE "no")
            /\ who = "session" <=> req.cookie = "live" /\ cfg.mode \in {"oidc", "local"}
            /\ who \in {"claims", "header"} => cfg.mode = "forward-header"
            /\ cfg.verify /\ req.jwt = "bad" /\ req.jwks # "no" => who \notin {"claims", "header"}
            /\ who = "header" /\ cfg.proxies => req.from = "inside"
            /\ Admitted(req, cfg, TRUE) = 403 <=> who = "session" /\ ~req.csrf
            /\ Admitted(req, cfg, FALSE) = 200 <=> who # "no"

\* Limits: within a window's length no more than two windows' worth passes, and who
\* waited that long is let in; turns never pass more often than either bucket allows,
\* and what is no turn is not held up by the turns' bucket.
LimitsHold ==
    /\ \A h \in Hits :
          LET ok == Window(h, 2, 2)
          IN  /\ \A t \in 0..4 :
                    Cardinality({n \in DOMAIN h : ok[n] /\ h[n] \in t..(t + 1)}) <= 4
              /\ \A n \in DOMAIN h : (n = 1 \/ h[n] >= h[n - 1] + 2) => ok[n]
    /\ \A k \in BoundedSeq({"turn", "other"}, 6) :
          LET ok == Limited(k, 4, 2)
          IN  /\ Cardinality({n \in DOMAIN k : k[n] = "turn" /\ ok[n]}) <= 2
              /\ \A n \in DOMAIN k : k[n] = "other" => (ok[n] <=> n <= 4)

\* Secrets: a login passes for the password that was hashed and for nothing else; a key
\* reaches the user it was stored for and nobody else, and a key that does not open
\* leaves the host's; the subscription's token is out of reach of a process that talks
\* to another host, and no process is steered by the server's own environment.
SecretsHold ==
    /\ \A there, on, has \in BOOLEAN, pw, real \in {"a", "b"}, pep \in {"x", "y"} :
          LoginPasses([there |-> there, on |-> on,
                       hash |-> IF has THEN Hashed(real, "s", "x") ELSE <<>>], pw, pep)
             <=> there /\ on /\ has /\ pw = real /\ pep = "x"
    /\ \A now, then \in {"k1", "k2", "no"}, who, slot \in {"u", "v"} :
          LET rows == [x \in {slot} |-> Sealed(then, "mine", "u")]
          IN  UserKey(now, rows, who) = "mine" => who = "u" /\ slot = "u" /\ now = then
    /\ \A role \in {"admin", "user"}, own, host \in {"no", "mine", "host"} :
          /\ Credential("max-pro-sub", role, own, host) = "subscription" <=> role = "admin"
          /\ Credential("openrouter", role, own, host) = "host" => own \in {"no", "host"}
    /\ \A v \in Knobs \cup Skin \cup Other \cup Dirs, h \in {"no", "host"}, t \in Turns :
          LET ambient == [x \in {v} |-> h]
              sub == SdkEnv(ambient, t)
              paid == OpenRouterEnv(ambient, t, "key")
          IN  /\ v \in Knobs => sub[v] = paid[v] /\ sub[v] # "host"
              /\ v \in Skin => sub[v] = "no"
              /\ paid[v] # "host"
    /\ \A proto, fwd, host \in {"no", "https", "a", "b"} :
          LET uri == RedirectUri(proto, fwd, host, {<<"https", "a">>})
          IN  uri # "no" => uri = <<"https", "a">> /\ "a" \in {fwd, host}

AccessDecided == RangesHold /\ IdentityHolds /\ LimitsHold /\ SecretsHold
=============================================================================
