------------------------------ MODULE MCReplies ------------------------------
(* Model values for Replies: files of every structure, their objects in     *)
(* every order, and templates of up to 255 bytes.                           *)
EXTENDS Replies

Descriptors == {<<65, 33>>, <<66, 33, 0, 28, 10>>, <<70, 33, 0, 255, 1>>}
Sizes == {<<0, 10>>, <<27, 255>>}
Filler(n) == [i \in 1 .. n |-> 130]
\* The objects of a file, in every order; the life cycle and others between
Sets == {<<Object(130, d), Object(131, <<111, 58>>), Object(128, s)>> \o rest :
           d \in Descriptors, s \in Sizes,
           rest \in {<<>>, <<Object(138, <<5>>)>>, <<Object(138, <<4>>)>>}}
Orders(seq) == {[i \in DOMAIN seq |-> seq[p[i]]] : p \in Permutations(DOMAIN seq)}
\* Objects nobody knows: short ones, one of two length bytes, and one that
\* makes a template of 255 bytes
Unknown == {<<Object(139, <<47, 6, 3>>)>>, <<Object(165, Filler(127))>>,
            <<Object(165, Filler(128))>>,
            <<Object(165, Filler(126)), Object(171, Filler(110))>>}
ASSUME LongestAssumption ==
    \E u \in Unknown : Len(Template(u \o <<Object(130, <<65, 33>>), Object(131, <<111, 58>>),
                                            Object(128, <<27, 255>>)>>)) = 255
Files == UNION {Orders(s) : s \in Sets}
\* A directory, and templates without a mandatory object
Partial == {<<Object(130, <<120, 33>>), Object(131, <<63, 0>>)>>, <<>>,
            <<Object(138, <<5>>), Object(130, <<65, 33>>)>>}
Long == {u \o f : u \in Unknown,
                 f \in Orders(<<Object(130, <<65, 33>>), Object(131, <<111, 58>>),
                                Object(128, <<27, 255>>)>>)}

Crsm(os, command, iccid, words, data, gap) ==
    [kind |-> "CRSM", objects |-> os, command |-> command, iccid |-> iccid,
     sw |-> words, data |-> data, gap |-> gap]
MCSimReplies ==
    {Crsm(os, 192, FALSE, <<144, 0>>, "quoted", <<>>) : os \in Files \cup Long \cup Partial}
    \cup {Crsm(os, c, i, w, d, g) :
            os \in {CHOOSE f \in Files : Len(f) = 4}, c \in {192, 178}, i \in BOOLEAN,
            w \in {<<144, 0>>, <<105, 133>>, <<106, 130>>},
            d \in {"none", "plain", "quoted"}, g \in {<<>>, <<" ">>}}
MCRegReplies ==
    {[kind |-> "CREG", n |-> n, stat |-> s, cell |-> c, act |-> a,
      lac |-> <<26, 43>>, cid |-> <<0, 255>>] :
        n \in BOOLEAN, s \in {0, 1, 5}, c \in BOOLEAN, a \in {FALSE}}
    \cup {[kind |-> "CREG", n |-> n, stat |-> 1, cell |-> TRUE, act |-> TRUE,
           lac |-> <<26, 43>>, cid |-> <<0, 255>>] : n \in BOOLEAN}
MCRadReplies == {[kind |-> "CFUN", fun |-> f] : f \in {0, 1, 4}}
=============================================================================
