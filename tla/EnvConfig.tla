----------------------------- MODULE EnvConfig -----------------------------
(***************************************************************************)
(* What the environment makes of the configuration: env.config.ts, and the *)
(* local daemon's address of docker.client.ts.  A variable is Unset or a   *)
(* text; of a text it matters whether it is empty, a word or the numeral   *)
(* of a number, and a number only whether it is an integer.                *)
(*                                                                         *)
(* Delays are in milliseconds.  Pure operators.                            *)
(***************************************************************************)
EXTENDS Integers

Unset == [kind |-> "unset"]
Empty == [kind |-> "empty"]
Word(w) == [kind |-> "word", word |-> w]
Numeral(n) == [kind |-> "numeral", value |-> n]
Fraction == [kind |-> "fraction"]

Second == 1000
Minute == 60 * Second
Hour == 60 * Minute
Unbounded == 2147483647    \* the code sets no maximum
Bounds(min, max, default) == [min |-> min, max |-> max, default |-> default]

\* z.coerce.number().int() with its minimum, maximum and default.
Numbers ==
    [PORT |-> Bounds(1, 65535, 4300),
     SHUTDOWN_GRACE_MS |-> Bounds(0, Unbounded, 10 * Second),
     DOCKER_TIMEOUT_MS |-> Bounds(1000, Unbounded, 30 * Second),
     INVENTORY_CACHE_MS |-> Bounds(0, Unbounded, 3 * Second),
     SCAN_TIMEOUT_MS |-> Bounds(5 * Second, Unbounded, 5 * Minute),
     SCAN_CONCURRENCY |-> Bounds(1, 16, 2),
     SCAN_QUEUE_LIMIT |-> Bounds(1, Unbounded, 200),
     SCAN_CACHE_TTL_MS |-> Bounds(Minute, Unbounded, 6 * Hour),
     BROWSE_MAX_ENTRIES |-> Bounds(10, 5000, 500),
     HISTORY_RETENTION_DAYS |-> Bounds(1, 3650, 90),
     SIGHTING_INTERVAL_MS |-> Bounds(Second, Unbounded, 5 * Minute),
     SIGHTING_TRUST_AFTER_DAYS |-> Bounds(1, Unbounded, 7),
     SSH_CONNECT_TIMEOUT_MS |-> Bounds(1000, Unbounded, 15 * Second),
     SSH_KEEPALIVE_MS |-> Bounds(1000, Unbounded, 15 * Second),
     HOST_UNREACHABLE_BACKOFF_MS |-> Bounds(1000, Unbounded, 30 * Second),
     HOST_SWEEP_CONCURRENCY |-> Bounds(1, 16, 3)]

\* booleanFromEnv, and the one of each list that is taken when unset.
Booleans == [SCANNER_AUTO_PULL |-> TRUE, SCAN_WITH_LAST_WRITE |-> TRUE,
             SCAN_ALLOW_HOST_FS |-> TRUE, SNAPSHOT_ENABLED |-> TRUE, ALLOW_VOLUME_DELETE |-> TRUE]
Words ==
    [NODE_ENV |-> [of |-> {"development", "production", "test"}, default |-> "development"],
     LOG_LEVEL |-> [of |-> {"fatal", "error", "warn", "info", "debug", "trace", "silent"},
                    default |-> "info"]]

\* z.string().min(1) with a default; those that may be empty; and those
\* that may be missing.
Texts == {"HOST", "DOCKER_SOCKET_PATH", "SCANNER_IMAGE", "DATABASE_PATH", "SNAPSHOT_CRON",
          "SSH_KNOWN_HOSTS_PATH"}
FreeTexts == {"CORS_ORIGINS", "BODY_LIMIT"}
OptionalTexts == {"DOCKER_HOST", "SSH_AUTH_SOCK"}
Variables == DOMAIN Numbers \cup DOMAIN Booleans \cup DOMAIN Words \cup Texts \cup FreeTexts
                \cup OptionalTexts

\* Number(): the empty text is zero.
Coerced(text) == IF text.kind = "empty" THEN 0 ELSE text.value

\* Whether the schema takes the text a variable has.
Taken(v, text) ==
    \/ text = Unset
    \/ /\ v \in DOMAIN Numbers /\ text.kind \in {"empty", "numeral"}
       /\ Coerced(text) \in Numbers[v].min..Numbers[v].max
    \/ /\ v \in DOMAIN Booleans
       /\ \/ text.kind = "word" /\ text.word \in {"true", "false"}
          \/ text.kind = "numeral" /\ text.value \in {0, 1}
    \/ v \in DOMAIN Words /\ text.kind = "word" /\ text.word \in Words[v].of
    \/ v \in Texts /\ text.kind # "empty"
    \/ v \in FreeTexts \cup OptionalTexts

\* safeParse: one variable that is not taken, and the process does not start.
Starts(env) == \A v \in DOMAIN env : Taken(v, env[v])

\* The value a variable that is taken has in Config.  A list of origins is
\* the set of its entries, none of an empty text; "default" and the like
\* stand for the texts of the schema.
Value(v, text) ==
    CASE v \in DOMAIN Numbers ->
            [number |-> IF text = Unset THEN Numbers[v].default ELSE Coerced(text)]
      [] v \in DOMAIN Booleans ->
            [yes |-> IF text = Unset THEN Booleans[v]
                     ELSE text \in {Word("true"), Numeral(1)}]
      [] v \in DOMAIN Words -> [word |-> IF text = Unset THEN Words[v].default ELSE text.word]
      [] v = "CORS_ORIGINS" ->
            [origins |-> CASE text = Unset -> {"localhost", "127.0.0.1"}
                           [] text = Empty -> {}
                           [] OTHER -> {text}]
      [] v \in OptionalTexts -> [text |-> text]     \* Unset is null
      [] OTHER -> [text |-> IF text = Unset THEN Word("default") ELSE text]

\* Config: the values of the variables, grouped and frozen.
Config(env) ==
    [v \in Variables |-> Value(v, IF v \in DOMAIN env THEN env[v] ELSE Unset)]

-----------------------------------------------------------------------------
(***************************************************************************)
(* DockerClient.localOptions.  DOCKER_HOST is null, empty, a named pipe, a *)
(* URL by its scheme, name, port (0 if it names none) and path, or a text  *)
(* of another scheme or none.  The URL parser drops the port that is its   *)
(* scheme's own, of the schemes it knows.                                  *)
(***************************************************************************)
PortOf(url) ==
    IF <<url.scheme, url.port>> \in {<<"http", 80>>, <<"https", 443>>} THEN 0 ELSE url.port

LocalOptions(host, socketPath) ==
    CASE host.scheme \in {"null", "empty"} -> [socketPath |-> socketPath]
      [] host.scheme \in {"npipe", "unix"} -> [socketPath |-> host.path]
      [] host.scheme \in {"tcp", "http", "https"} ->
            [host |-> host.name,
             port |-> CASE PortOf(host) # 0 -> PortOf(host)
                        [] PortOf(host) = 0 /\ host.scheme = "https" -> 2376
                        [] OTHER -> 2375,
             protocol |-> IF host.scheme = "https" THEN "https" ELSE "http"]
      [] OTHER -> [socketPath |-> host.text]
=============================================================================
