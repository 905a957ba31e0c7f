---------------------------- MODULE ConfigLoader ----------------------------
(***************************************************************************)
(* ConfigLoader::parse_json: from the tree that was read from the file to  *)
(* the Config that the servers are made from.                              *)
(*                                                                         *)
(* A tree is a function from the keys that are present to their values: a  *)
(* number, a host, a Boolean, or for "EmbedWebServerConfig" a tree.  Of a  *)
(* host it matters whether the program can listen there ("here"), cannot   *)
(* ("elsewhere"), or cannot even read it as an address ("name").  The      *)
(* texts about files are left out.                                         *)
(*                                                                         *)
(* A definition whose comment starts with "Variant" is not part of the     *)
(* model: it is a slip that a property would notice.                       *)
(***************************************************************************)
EXTENDS Integers

CONSTANT MaxSize    \* the largest size_t

ASSUME MaxSizeOK == MaxSize \in Nat

MaxPort == 65535    \* the largest uint16_t
Host == {"here", "elsewhere", "name"}
Empty == [k \in {} |-> 0]

\* The values of a tree are those that its keys are read as: a value that is not of the
\* type is not in it.
Typed(t) ==
    /\ \A k \in {"controlServerPort", "threadNum", "port", "backendPort"} \cap DOMAIN t :
          t[k] \in Int
    /\ \A k \in {"controlServerHost", "host"} \cap DOMAIN t : t[k] \in Host
    /\ "enable" \in DOMAIN t => t["enable"] \in BOOLEAN

IsTree(t) ==
    /\ Typed(t)
    /\ "EmbedWebServerConfig" \in DOMAIN t => Typed(t["EmbedWebServerConfig"])

\* get(key, default): the default stands in for a key that is absent or whose value
\* is no T.
Get(t, k, default) == IF k \in DOMAIN t THEN t[k] ELSE default

\* Variant: what the file says is taken as it is.
GetUnchecked(t, k, default, max) == Get(t, k, default)

\* The same for an unsigned T up to max.  The stream that converts takes a sign: the
\* number must fit without it, and a negative one wraps.
GetUnsigned(t, k, default, max) ==
    IF k \in DOMAIN t /\ t[k] \in (-max)..max THEN t[k] % (max + 1) ELSE default

Port(t, k, default) == GetUnsigned(t, k, default, MaxPort)

\* get_child_optional("EmbedWebServerConfig"), read further only when enabled.
Section(t) ==
    LET s == Get(t, "EmbedWebServerConfig", Empty)
    IN  IF Get(s, "enable", FALSE) THEN s ELSE Empty

\* Variant: the page is told the port of listenPort.
BackendListen(t) ==
    LET own == Port(Section(t), "backendPort", 0)
    IN  IF own # 0 THEN own ELSE Port(t, "listenPort", 5000)

\* The port in backend_json_string.
Backend(t) ==
    LET own == Port(Section(t), "backendPort", 0)
    IN  IF own # 0 THEN own ELSE Port(t, "controlServerPort", 5010)

Parse(t) ==
    [controlServerHost |-> Get(t, "controlServerHost", "here"),
     controlServerPort |-> Port(t, "controlServerPort", 5010),
     threadNum |-> GetUnsigned(t, "threadNum", 0, MaxSize),
     enable |-> Get(Section(t), "enable", FALSE),
     host |-> Get(Section(t), "host", "here"),
     port |-> Port(Section(t), "port", 5002),
     backendPort |-> Port(Section(t), "backendPort", 0),
     backend |-> Backend(t)]

Config ==
    [controlServerHost : Host, controlServerPort : 0..MaxPort, threadNum : 0..MaxSize,
     enable : BOOLEAN, host : Host, port : 0..MaxPort, backendPort : 0..MaxPort,
     backend : 0..MaxPort]
=============================================================================
