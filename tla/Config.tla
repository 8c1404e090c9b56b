------------------------------- MODULE Config --------------------------------
(***************************************************************************)
(* Where the configuration of a node comes from, src/config.rs,            *)
(* src/oldconfig.rs and main in src/main.rs: defaults, a configuration     *)
(* file of this or of the old version, and arguments; and the file that    *)
(* the wizard writes.  Values are opaque.  An option that a file does not  *)
(* give is Absent, and so are those of a section it does not have.         *)
(***************************************************************************)
EXTENDS Integers, Sequences, Option

\* Options with a default, options without one, lists that are collected, and
\* switches, which an argument can only flip.
Scalar == {"device_type", "device_name", "listen", "peer_timeout", "beacon_interval", "mode",
           "switch_timeout"}
Optional == {"device_path", "ip", "ifup", "ifdown", "keepalive", "beacon_store", "beacon_load",
             "beacon_password", "pid_file", "stats_file", "statsd_server", "statsd_prefix",
             "user", "group", "password", "public_key", "private_key", "hook"}
Collected == {"advertise_addresses", "peers", "claims", "trusted_keys"}
Switch == {"fix_rp_filter", "auto_claim", "port_forwarding", "daemonize"}
OnByDefault == {"auto_claim", "port_forwarding"}
Field == Scalar \cup Optional \cup Collected \cup Switch \cup {"algorithms", "hooks"}

NoHooks == [event \in {} |-> Absent]

default ==
    [f \in Field |->
        IF f \in Scalar THEN <<"default", f>>
        ELSE IF f \in Collected \cup {"algorithms"} THEN <<>>
        ELSE IF f \in OnByDefault THEN TRUE
        ELSE IF f \in Switch THEN FALSE
        ELSE IF f = "hooks" THEN NoHooks
        ELSE Absent]

\* A file that gives nothing, and arguments that give nothing: args["hooks"] is the
\* list of the --hook options, each a script with an event or without one.
EmptyFile ==
    [f \in Field |-> IF f = "algorithms" THEN <<>> ELSE IF f = "hooks" THEN NoHooks ELSE Absent]

NoArgs ==
    [f \in Field |->
        IF f \in Collected \cup {"algorithms", "hooks"} THEN <<>>
        ELSE IF f \in Switch THEN FALSE
        ELSE Absent]

Or(value, fallback) == IF value = Absent THEN fallback ELSE value
OrEmpty(list, fallback) == IF list = <<>> THEN fallback ELSE list

\* HashMap::insert of each entry.
Inserted(hooks, more) ==
    [event \in DOMAIN hooks \cup DOMAIN more |->
        IF event \in DOMAIN more THEN more[event] ELSE hooks[event]]

\* A file has no option for daemonize.
merge_file(config, file) ==
    [f \in Field |->
        IF f \in Collected THEN config[f] \o Or(file[f], <<>>)
        ELSE IF f = "algorithms" THEN OrEmpty(file[f], config[f])
        ELSE IF f = "hooks" THEN Inserted(config[f], file[f])
        ELSE IF f = "daemonize" THEN config[f]
        ELSE Or(file[f], config[f])]

\* One --hook option: without an event it is the general hook.
insert_hook(h, given) ==
    IF h.event = Absent THEN [given EXCEPT !.hook = h.script]
    ELSE [given EXCEPT !.hooks = Inserted(@, [event \in {h.event} |-> h.script])]

\* The loop over the --hook options.
insert_hooks(config, options) ==
    LET given[i \in 0 .. Len(options)] ==
            IF i = 0 THEN [hooks |-> config["hooks"], hook |-> config["hook"]]
            ELSE insert_hook(options[i], given[i - 1])
    IN  given[Len(options)]

\* args[f] for a switch says whether the argument that flips it is given.
merge_args(config, args) ==
    [f \in Field |->
        IF f \in Collected THEN config[f] \o args[f]
        ELSE IF f = "algorithms" THEN OrEmpty(args[f], config[f])
        ELSE IF f = "hooks" THEN insert_hooks(config, args["hooks"]).hooks
        ELSE IF f = "hook" THEN insert_hooks(config, args["hooks"]).hook
        ELSE IF f \notin Switch THEN Or(args[f], config[f])
        ELSE IF ~args[f] THEN config[f]
        ELSE IF f \in OnByDefault THEN FALSE
        ELSE TRUE]

\* Mutant: a new option was forgotten.
into_config_fileForgets(config) == [config EXCEPT !["daemonize"] = Absent, !["keepalive"] = Absent]

\* What the wizard writes.
into_config_file(config) == [config EXCEPT !["daemonize"] = Absent]

\* Options of a file of the old version that this version does not have: convert
\* drops them, the second with a warning.
Dropped == {"crypto", "magic"}

\* A file of the old version, by the names of this one.  It has neither the
\* newer options nor a password of its own for beacons.
OldField ==
    Dropped \cup
    {"device_type", "device_name", "device_path", "ifup", "ifdown", "password", "port", "listen",
     "peers", "peer_timeout", "keepalive", "beacon_store", "beacon_load", "beacon_interval",
     "mode", "switch_timeout", "claims", "port_forwarding", "pid_file", "stats_file",
     "statsd_server", "statsd_prefix", "user", "group"}

convert(old) ==
    [f \in Field |->
        IF f = "password" THEN Or(old["password"], "none")
        ELSE IF f = "beacon_password" THEN old["password"]
        ELSE IF f = "listen" THEN Or(old["listen"], old["port"])
        ELSE IF f \in OldField THEN old[f]
        ELSE EmptyFile[f]]

\* The configuration that main runs with.
main(file, args) == merge_args(merge_file(default, file), args)

\* The script that call_hook runs for an event.
call_hook(config, event) ==
    IF event \in DOMAIN config["hooks"] THEN config["hooks"][event] ELSE config["hook"]
=============================================================================
