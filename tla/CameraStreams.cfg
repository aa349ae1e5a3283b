\* Two cameras, each under the base card and in the camera list.
SPECIFICATION CameraSpec
CONSTANTS
    c1 = c1
    c2 = c2
    Camera = {c1, c2}
SYMMETRY Sym
INVARIANTS StreamAskedOnce NoStrayTimer 
