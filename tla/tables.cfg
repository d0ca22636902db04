SPECIFICATION Spec
CONSTANT ROOM <- MCRoom
INVARIANTS TypeOK EnginesAgree NoneMissing BlocksAreStraight
