SPECIFICATION Spec
CONSTANTS
    Handles = {s, t, u}
    Masks = {{"Readable"}, {"Readable", "Writable"}}
    Rooms = {1, 2}
SYMMETRY HandleSymmetry
PROPERTY
    ImplementsEventSet
