-------------------------- MODULE MCGroupMembership --------------------------
EXTENDS GroupMembership, TLC

\* Students, classes with their groups, and threads are alike.
Symmetry == {s @@ c @@ g @@ r : s \in Permutations(Student), c \in Permutations(Class),
                                g \in Permutations(Group), r \in Permutations(Request)}
===============================================================================
