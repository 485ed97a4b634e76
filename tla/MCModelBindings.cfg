\* Two clients race on two bindings of one model.
SPECIFICATION Spec
CONSTANTS
    r1 = r1
    m1 = m1
    b1 = b1
    b2 = b2
    c1 = c1
    c2 = c2
    Clients = {c1, c2}
    Runtimes = {r1}
    Models = {m1}
    Bindings = {b1, b2}
    RuntimeOf <- OneRuntime
    ModelOf <- OneModel
SYMMETRY Symmetry
INVARIANT SelectionSound
PROPERTY SelectionStepsSound
