---------------------------- MODULE PluginConfig ----------------------------
(***************************************************************************)
(* MetadataCachePluginConfig::get_option_ttl (src/src/metadata_cache/src/  *)
(* plugin_config.cc): the "ttl" option of a metadata_cache section is      *)
(* trimmed of spaces, converted with strtol() and replaced by the default  *)
(* when errno is ERANGE, the value exceeds (long)UINT_MAX, characters      *)
(* follow the number, or the value is not positive; the result is cast to  *)
(* unsigned int.                                                           *)
(*                                                                         *)
(* The option string is a sequence of tokens: a space, a minus sign, a     *)
(* junk character, or a numeral (a maximal run of decimal digits, kept as  *)
(* its value).  strtol() is modelled by what it does on such a string,     *)
(* errno by the thread-local variable it is: strtol() sets it to ERANGE on *)
(* overflow and nothing in get_option_ttl clears it.  Integer widths are   *)
(* parameters (scaled down so that TLC can evaluate them): unsigned int    *)
(* has UIntBits bits and long has LongBits bits, which is either wider     *)
(* (LP64 Linux and macOS) or the same (Windows, 32-bit Linux).             *)
(*                                                                         *)
(* MetadataCachePluginConfig::get_bootstrap_servers splits the             *)
(* "bootstrap_server_addresses" option on ',' with getline() and parses    *)
(* every entry as a URI, replacing port 0 by the default port; a URI that  *)
(* does not parse makes the whole call throw invalid_argument.  Its option *)
(* string is a sequence of boot tokens: a comma, a junk character (one     *)
(* that no URI allows, such as a space) or a URI (a maximal run of URI     *)
(* text, kept as the host and port it denotes).                            *)
(***************************************************************************)
EXTENDS Integers, SequencesExt

CONSTANTS
    UIntBits,       \* width of unsigned int
    LongBits,       \* width of long
    DefaultTTL,     \* the defaultTTL argument
    NumeralValues,  \* the values a numeral of the option may have
    MaxTokens,      \* the longest option string, in tokens
    MaxReads,       \* bound on the number of options read by the thread
    Hosts,          \* the hosts a URI of the bootstrap option may name
    PortValues,     \* the ports it may give (0: none given)
    DefaultPort,    \* the default_port argument of get_bootstrap_servers
    EmptyUriParses  \* whether mysqlrouter::URI accepts the empty string

ASSUME PluginConfigAssumption ==
    /\ UIntBits \in Nat \ {0}
    /\ LongBits \in Nat /\ LongBits >= UIntBits
    /\ NumeralValues \subseteq Nat
    /\ MaxTokens \in Nat /\ MaxReads \in Nat
    /\ "" \notin Hosts
    /\ PortValues \subseteq 0..65535 /\ DefaultPort \in 1..65535
    /\ EmptyUriParses \in BOOLEAN

UINT_MAX == 2^UIntBits - 1
LONG_MAX == 2^(LongBits - 1) - 1
LONG_MIN == -(2^(LongBits - 1))

ASSUME DefaultTTLAssumption == DefaultTTL \in 1..UINT_MAX

\* Conversion of an integer to a two's-complement signed or unsigned type
\* of the given width, as the casts of the code do it.
ToSigned(x, bits) ==
    LET m == x % 2^bits IN IF m >= 2^(bits - 1) THEN m - 2^bits ELSE m
ToUnsigned(x, bits) == x % 2^bits

Token == [k : {"sp", "minus", "junk"}, v : {0}] \cup
         [k : {"num"}, v : NumeralValues]

\* Option strings: a numeral token stands for a whole run of digits, so no
\* two numerals are adjacent.
Options ==
    {s \in BoundedSeq(Token, MaxTokens) :
        \A i \in 1..(Len(s) - 1) : ~(s[i].k = "num" /\ s[i + 1].k = "num")}

IsSp(t) == t.k = "sp"

\* Mutant of Trim: only the leading spaces are erased.
TrimLeadingOnly(s) ==
    IF \A i \in 1..Len(s) : IsSp(s[i]) THEN <<>>
    ELSE SubSeq(s, SelectInSeq(s, LAMBDA t : ~IsSp(t)), Len(s))

\* ttl_option.erase(0, find_first_not_of(' ')) and
\* ttl_option.erase(find_last_not_of(' ') + 1, npos).
Trim(s) ==
    IF \A i \in 1..Len(s) : IsSp(s[i]) THEN <<>>
    ELSE SubSeq(s, SelectInSeq(s, LAMBDA t : ~IsSp(t)),
                   SelectLastInSeq(s, LAMBDA t : ~IsSp(t)))

\* strtol(str, &p, 10) on a trimmed string: [val, end, erange], where end
\* is the index p points at (Len(str) + 1 for the terminating NUL).  An
\* optional sign must be followed at once by digits; without digits
\* nothing is converted and p is str itself.
Strtol(str) ==
    LET neg   == Len(str) >= 1 /\ str[1].k = "minus"
        at    == IF neg THEN 2 ELSE 1
        conv  == at <= Len(str) /\ str[at].k = "num"
        n     == IF conv THEN (IF neg THEN -str[at].v ELSE str[at].v) ELSE 0
    IN  IF ~conv THEN [val |-> 0, end |-> 1, erange |-> FALSE]
        ELSE IF n > LONG_MAX THEN [val |-> LONG_MAX, end |-> at + 1, erange |-> TRUE]
        ELSE IF n < LONG_MIN THEN [val |-> LONG_MIN, end |-> at + 1, erange |-> TRUE]
        ELSE [val |-> n, end |-> at + 1, erange |-> FALSE]

-----------------------------------------------------------------------------
(* get_default, is_required and get_option_string                          *)

\* The value of metadata_cache::kDefaultMetadataAddress, as a boot string.
kDefaultMetadataAddress == <<[k |-> "uri", host |-> "127.0.0.1", port |-> 0]>>

\* get_default(option): the "address" option has a default, every other
\* option the empty string.
GetDefault(name) == IF name = "address" THEN kDefaultMetadataAddress ELSE <<>>

\* is_required(option): only "user" is required.
IsRequired(name) == name \in {"user"}

\* BasePluginConfig::get_option_string(section, option) as its callers here
\* rely on it: the option's value, or, when the option is absent or empty,
\* an invalid_argument ("missing") for a required option and the default
\* otherwise.  The empty sequence stands for an absent or empty option.
GetOptionString(name, s) ==
    IF s # <<>> THEN s
    ELSE IF IsRequired(name) THEN "missing"
    ELSE GetDefault(name)

-----------------------------------------------------------------------------
(* get_bootstrap_servers                                                   *)

BootToken == [k : {"comma", "junk"}] \cup
             [k : {"uri"}, host : Hosts, port : PortValues]

\* Bootstrap option strings: a URI token is a maximal run of URI text, so no
\* two URI tokens are adjacent.
BootOptions ==
    {s \in BoundedSeq(BootToken, MaxTokens) :
        \A i \in 1..(Len(s) - 1) : ~(s[i].k = "uri" /\ s[i + 1].k = "uri")}

\* The entries successive getline(ss, address, ',') calls extract: the text
\* between consecutive commas, where the text after the last comma is an
\* entry only when it is not empty (getline fails at end of input when it
\* extracts nothing).
GetlineSplit(s) ==
    LET cuts == <<0>> \o SetToSortSeq({i \in 1..Len(s) : s[i].k = "comma"}, <)
                      \o <<Len(s) + 1>>
        seg  == [j \in 1..(Len(cuts) - 1) |-> SubSeq(s, cuts[j] + 1, cuts[j + 1] - 1)]
    IN  IF seg[Len(seg)] = <<>> THEN SubSeq(seg, 1, Len(seg) - 1) ELSE seg

\* mysqlrouter::URI u(address): the host and port of one URI token; the
\* empty string is parsed only when EmptyUriParses (giving host "" and port
\* 0); anything else throws URIError.
Uri(e) ==
    IF e = <<>> THEN [ok |-> EmptyUriParses, host |-> "", port |-> 0]
    ELSE IF Len(e) = 1 /\ e[1].k = "uri"
         THEN [ok |-> TRUE, host |-> e[1].host, port |-> e[1].port]
    ELSE [ok |-> FALSE, host |-> "", port |-> 0]

\* The TCPAddress pushed for a parsed URI: port 0 becomes default_port.
BindInfo(u) ==
    [host |-> u.host, port |-> IF u.port = 0 THEN DefaultPort ELSE u.port]

\* The outcome of get_bootstrap_servers: the vector it returns, or the
\* invalid_argument it throws.
Returned(v) == [ok |-> TRUE, list |-> v]
Thrown == [ok |-> FALSE, list |-> <<>>]

\* Mutant of GetBootstrapServers: the port-0 test is left out.
GetBootstrapServersNoDefaultPort(s) ==
    LET entries == GetlineSplit(GetOptionString("bootstrap_server_addresses", s))
        uris    == [j \in 1..Len(entries) |-> Uri(entries[j])]
    IN  IF \E j \in 1..Len(uris) : ~uris[j].ok THEN Thrown
        ELSE Returned([j \in 1..Len(uris) |-> [host |-> uris[j].host, port |-> uris[j].port]])

\* get_bootstrap_servers(section, option, default_port): the addresses, or
\* Thrown when a URI failed to parse (the runtime_error rethrown as
\* invalid_argument discards the vector).
GetBootstrapServers(s) ==
    LET entries == GetlineSplit(GetOptionString("bootstrap_server_addresses", s))
        uris    == [j \in 1..Len(entries) |-> Uri(entries[j])]
    IN  IF \E j \in 1..Len(uris) : ~uris[j].ok THEN Thrown
        ELSE Returned([j \in 1..Len(uris) |-> BindInfo(uris[j])])

-----------------------------------------------------------------------------
VARIABLES
    errno,    \* the thread's errno
    option,   \* the last ttl option string read
    ttl,      \* what get_option_ttl returned for it
    boot,     \* the last bootstrap option string read
    servers,  \* what get_bootstrap_servers returned for it
    reads     \* options read so far

vars == <<errno, option, ttl, boot, servers, reads>>

Init ==
    /\ errno = "0"
    /\ option = <<>>
    /\ ttl = DefaultTTL
    /\ boot = <<>>
    /\ servers = Returned(<<>>)
    /\ reads = 0

\* get_option_ttl(section, option, defaultTTL) on the option string s.
GetOptionTtl(s) ==
    LET str     == Trim(GetOptionString("ttl", s))
        r       == Strtol(str)
        errno2  == IF r.erange THEN "ERANGE" ELSE errno
        p       == IF r.end > Len(str) THEN "nul" ELSE str[r.end].k
        bad     == \/ errno2 = "ERANGE"
                   \/ r.val > ToSigned(UINT_MAX, LongBits)
                   \/ p # "nul"
                   \/ r.val <= 0
        ttlTemp == IF bad THEN ToSigned(DefaultTTL, LongBits) ELSE r.val
    IN  /\ reads < MaxReads
        /\ errno' = errno2
        /\ ttl' = ToUnsigned(ttlTemp, UIntBits)
        /\ option' = s
        /\ reads' = reads + 1
        /\ UNCHANGED <<boot, servers>>

\* The thread reads the bootstrap option s.
ReadBootstrapServers(s) ==
    /\ reads < MaxReads
    /\ boot' = s
    /\ servers' = GetBootstrapServers(s)
    /\ reads' = reads + 1
    /\ UNCHANGED <<errno, option, ttl>>

Next == \/ \E s \in Options : GetOptionTtl(s)
        \/ \E s \in BootOptions : ReadBootstrapServers(s)

Spec == Init /\ [][Next]_vars

-----------------------------------------------------------------------------
(* Properties                                                              *)

\* The TTL the option denotes: the number written, spaces around it
\* allowed, when it is a positive integer an unsigned int can hold;
\* otherwise the default.
MeantTtl(s) ==
    LET alone(i) == /\ s[i].k = "num" /\ s[i].v \in 1..UINT_MAX
                    /\ \A j \in 1..Len(s) \ {i} : s[j].k = "sp"
    IN  IF \E i \in 1..Len(s) : alone(i)
           THEN s[CHOOSE i \in 1..Len(s) : alone(i)].v
           ELSE DefaultTTL

\* get_option_ttl returns the TTL the option denotes (a reviewer's reading
\* of the function: a valid ttl is used, anything else gives the default).
TtlMeansOption == reads > 0 => ttl = MeantTtl(option)

\* A reader's account of a comma-separated address list s, stated by
\* counting rather than by splitting: the list is rejected when a character
\* is not URI text, or when an entry is empty and URI rejects the empty
\* string; otherwise it has one address per comma, plus one for text after
\* the last comma, and its addresses with a host are the URIs of s, in
\* order, with port 0 replaced by the default port.
MeantServers(s, res) ==
    LET commas  == {i \in 1..Len(s) : s[i].k = "comma"}
        empty   == \E i \in commas : i = 1 \/ s[i - 1].k = "comma"
        tail    == IF s # <<>> /\ s[Len(s)].k # "comma" THEN 1 ELSE 0
        u       == SelectSeq(s, LAMBDA t : t.k = "uri")
        port(t) == IF t.port = 0 THEN DefaultPort ELSE t.port
    IN  IF (\E i \in 1..Len(s) : s[i].k = "junk") \/ (empty /\ ~EmptyUriParses)
           THEN ~res.ok
        ELSE /\ res.ok
             /\ Len(res.list) = Cardinality(commas) + tail
             /\ SelectSeq(res.list, LAMBDA a : a.host # "")
                  = [j \in 1..Len(u) |-> [host |-> u[j].host, port |-> port(u[j])]]

\* get_bootstrap_servers returns the addresses the option lists, each with
\* a port (the default one when the URI gives none), in the order written,
\* and throws when an entry is not a URI: the getline() loop neither drops
\* nor invents an entry, in particular at a leading, doubled or trailing
\* comma.
BootstrapMeansOption == MeantServers(boot, servers)

=============================================================================
