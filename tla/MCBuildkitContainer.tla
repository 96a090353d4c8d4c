------------------------ MODULE MCBuildkitContainer -------------------------
(* Three clients of one container, of one version and of two, and clients of *)
(* every kind of host.                                                      *)
EXTENDS BuildkitContainer

CONSTANTS c1, c2, c3

Three == {c1, c2, c3}

TwoVersions == {"v1", "v2"}

None == [scheme |-> "", context |-> FALSE]

To(scheme) == [scheme |-> scheme, context |-> FALSE]

Unset == [host |-> None, TKN_LOCAL_HOST |-> None, BUILDKIT_HOST |-> None, version |-> "v1"]

Told(s1, s2, s3) == [c \in Clients |-> CASE c = c1 -> s1 [] c = c2 -> s2 [] c = c3 -> s3]

\* The second of another version or not.
SameContainer ==
  {Told(Unset, [Unset EXCEPT !.version = v], Unset) : v \in TwoVersions}

\* A container of podman, next to a context, which makes a name that cannot be,
\* a socket, and a scheme that is not supported.
EveryHost ==
  {Told([Unset EXCEPT !.TKN_LOCAL_HOST = To("podman-container"), !.BUILDKIT_HOST = To("other")],
        [Unset EXCEPT !.BUILDKIT_HOST = To("podman-container"), !.version = "v2"], s) :
     s \in {[Unset EXCEPT !.host = [scheme |-> "docker-container", context |-> TRUE]],
            [Unset EXCEPT !.BUILDKIT_HOST = To("unix")], [Unset EXCEPT !.host = To("other")]}}

AllPopulations == SameContainer \cup EveryHost

=============================================================================
